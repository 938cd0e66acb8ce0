----------------------------- MODULE TieredExecution -----------------------------
(***************************************************************************)
(* How an account turns a validated signature into calls: the EntryPoint   *)
(* validates every UserOp of a bundle, then executes them one by one; the  *)
(* authentication of an op travels from its validation to its execution    *)
(* in transient slots keyed by call data, resolves to a tier, and the tier *)
(* bounds the ETH and the tokens that the calls may move in a day.         *)
(*                                                                         *)
(* A transaction that fails leaves no trace, so a handler that reverts is  *)
(* not a step, except for an op of a bundle: the EntryPoint goes on with   *)
(* the next op, and what the failed one changed is restored.               *)
(***************************************************************************)
EXTENDS SpendingGuard, WeightPolicy, Sequences

CONSTANTS
  UserOps,           \* the operations that are ever submitted
  DirectCalls,       \* the call sequences that the owner sends itself
  MaxBundle,         \* operations in one handleOps
  TierChoices,       \* the <<tier1, tier2>> limits that are ever submitted
  Policies,          \* the weight configurations that are ever stored
  DefaultAlgorithms, \* the whitelist that the account is created with
  MoreAlgorithms,    \* algorithms that the owner may approve later
  MaxDay,            \* bound on the amounts of a day, where nothing caps them
  MaxTierChanges,    \* bound on the guardian-approved changes of the tier limits
  NoToken, NoFrame

\* The algorithm of a signature, by its first byte; "none" is 0, the value of an
\* empty slot, and "external" any id that only the validator router knows.
Alg == {"none", "bls", "ecdsa", "p256", "cumulativeT2", "cumulativeT3", "combinedT1",
        "weighted", "sessionKey", "cumulativeT2WA", "cumulativeT3WA", "external"}

Tier == 0 .. 3

AlgTier(a) ==
  CASE a \in {"bls", "cumulativeT3", "cumulativeT3WA"} -> 3
    [] a \in {"cumulativeT2", "cumulativeT2WA"} -> 2
    [] a \in {"ecdsa", "p256", "combinedT1", "sessionKey"} -> 1
    [] OTHER -> 0

\* A call: the ETH it carries, the token it moves as the token guard reads it, and
\* the tier handler that it runs when the account is its own target.
Call == [eth : Nat, token : Token \cup {NoToken}, amount : Nat,
         self : {"no", "setTierLimits", "modifyTierLimits"}, tiers : Nat \X Nat]

\* wrapped: the call data goes through executeUserOp; batch: executeBatch, and
\* execute otherwise; module: validated by a validator module of the nonce key;
\* by: the sources of a weighted signature.
UserOp == [wrapped : BOOLEAN, batch : BOOLEAN, module : BOOLEAN,
           alg : Alg, by : SUBSET Source, calls : Seq(Call)]

ASSUME OpsAreUserOps == UserOps \subseteq UserOp /\ DirectCalls \subseteq Seq(Call)
ASSUME TiersAreOrdered == TierChoices \subseteq Nat \X Nat
ASSUME TierChangesAreBounded == MaxTierChanges \in Nat
ASSUME PoliciesAreValid == \A c \in Policies : c \in WeightConfig /\ ValidConfig(c)
ASSUME WhitelistIsOfAlgs == DefaultAlgorithms \cup MoreAlgorithms \subseteq Alg

VARIABLES
  guarded,                \* a spending guard was deployed with the account
  tier1Limit, tier2Limit, \* ETH that one factor, two factors may move in a day
  tierLimitsInitialized,  \* latch of setTierLimits
  tierLimitNonce,         \* guardian-approved changes so far
  approvedAlgorithms,     \* the whitelist
  weightConfig,           \* the weighted policy
  bundle,                 \* operations of the running handleOps
  validated, executed,    \* how many of them
  slots,                  \* transient: call data -> algorithm and weight
  frame,                  \* the running execute: its tier and what is left to call
  saved,                  \* what a revert of the frame restores
  bundlePolicy,           \* history: the policy of the bundle, Unset once it has changed
  moved,                  \* history: ETH that left today, by the tier it left under
  tokenMoved              \* history: the same for a token, since it was configured

tierVars == <<tier1Limit, tier2Limit, tierLimitsInitialized, tierLimitNonce>>
bundleVars == <<bundle, validated, executed, bundlePolicy>>
spendVars == <<dailySpent, tokenDailySpent, moved, tokenMoved>>
configVars == <<dailyLimit, minDailyLimit, tokenConfigs, blockUnconfiguredTokens>>
vars == <<guardVars, guarded, tierVars, approvedAlgorithms, weightConfig, bundleVars,
          slots, frame, saved, moved, tokenMoved>>

Nothing == [k \in Tier |-> 0]
Total(f) == f[0] + f[1] + f[2] + f[3]

\* The key of a slot is the hash of call data.  What runs in a wrapped operation
\* is the inner call data, and that is the call data of the unwrapped operation.
CallData(op) == [wrapped |-> op.wrapped, batch |-> op.batch, calls |-> op.calls]
InnerData(op) == [CallData(op) EXCEPT !.wrapped = FALSE]
Keys == {CallData(op) : op \in UserOps} \cup {InnerData(op) : op \in UserOps}
EmptySlots == [k \in Keys |-> [alg |-> "none", weight |-> 0]]

NoGuard ==
  /\ dailyLimit = 0 /\ minDailyLimit = 0 /\ dailySpent = 0
  /\ tokenConfigs = [t \in Token |-> Unconfigured]
  /\ tokenDailySpent = [t \in Token |-> 0]
  /\ blockUnconfiguredTokens = FALSE

\* _bakeTierLimits and setTierLimits refuse limits in the wrong order.
OrderedTiers(l) == l[2] > 0 => l[1] <= l[2]

Init ==
  /\ \/ guarded = TRUE /\ GuardInit
     \/ guarded = FALSE /\ NoGuard
  /\ \E l \in {l \in TierChoices : OrderedTiers(l)} \cup {<<0, 0>>} :
       /\ tier1Limit = l[1]
       /\ tier2Limit = l[2]
       /\ tierLimitsInitialized = (l # <<0, 0>>)
  /\ tierLimitNonce = 0
  /\ approvedAlgorithms = DefaultAlgorithms
  /\ weightConfig = Unset
  /\ bundle = <<>> /\ validated = 0 /\ executed = 0 /\ bundlePolicy = Unset
  /\ slots = EmptySlots
  /\ frame = NoFrame /\ saved = NoFrame
  /\ moved = Nothing
  /\ tokenMoved = [t \in Token |-> Nothing]

Idle == bundle = <<>> /\ frame = NoFrame
Executing == bundle # <<>> /\ validated = Len(bundle)

--------------------------------------------------------------------------------
(* Tiers *)

Tiering == tier1Limit > 0 \/ tier2Limit > 0

\* requiredTier
RequiredTier(value) ==
  IF ~Tiering THEN 0
  ELSE IF value <= tier1Limit THEN 1
  ELSE IF value <= tier2Limit THEN 2
  ELSE 3

\* The tier that an execution reads from a slot.
SlotTier(c, slot) ==
  IF slot.alg = "weighted" THEN ResolvedTier(c, slot.weight) ELSE AlgTier(slot.alg)

\* Faulty variant: each call is held against the tiers on its own.
TierAllowsPerCall(value, tier) == RequiredTier(value) <= tier

\* The ETH tier check of _enforceGuard, on what the day has seen already.
TierAllows(value, tier) ==
  RequiredTier((IF guarded THEN dailySpent ELSE 0) + value) <= tier

\* _enforceGuard
EnforceGuard(call, tier) ==
  /\ TierAllows(call.eth, tier)
  /\ IF guarded
       THEN /\ RecordSpend(call.eth)
            /\ IF call.token = NoToken
                 THEN UNCHANGED tokenDailySpent
                 ELSE RecordTokenSpend(call.token, call.amount, tier)
       ELSE UNCHANGED <<dailySpent, tokenDailySpent>>
  /\ moved' = [moved EXCEPT ![tier] = @ + call.eth]
  /\ tokenMoved' = IF call.token = NoToken THEN tokenMoved
                   ELSE [tokenMoved EXCEPT ![call.token][tier] = @ + call.amount]
  /\ Total(moved') <= MaxDay
  /\ \A t \in Token : Total(tokenMoved'[t]) <= MaxDay

\* Faulty variant: open whenever no limit is set.
SetTierLimitsWhenZero(l) ==
  /\ ~Tiering
  /\ OrderedTiers(l)
  /\ tierLimitsInitialized' = TRUE
  /\ tier1Limit' = l[1] /\ tier2Limit' = l[2]
  /\ UNCHANGED tierLimitNonce

SetTierLimits(l) ==
  /\ ~tierLimitsInitialized
  /\ OrderedTiers(l)
  /\ tierLimitsInitialized' = TRUE
  /\ tier1Limit' = l[1] /\ tier2Limit' = l[2]
  /\ UNCHANGED tierLimitNonce

\* Two guardians signed the limits together with the current nonce.
ModifyTierLimits(l) ==
  /\ tierLimitNonce < MaxTierChanges
  /\ OrderedTiers(l)
  /\ tierLimitNonce' = tierLimitNonce + 1
  /\ tierLimitsInitialized' = TRUE
  /\ tier1Limit' = l[1] /\ tier2Limit' = l[2]

--------------------------------------------------------------------------------
(* Validation of a bundle *)

HandleOps(op) ==
  /\ frame = NoFrame
  /\ Len(bundle) < MaxBundle
  /\ validated = 0
  /\ bundle' = Append(bundle, op)
  /\ bundlePolicy' = weightConfig
  /\ UNCHANGED <<guardVars, guarded, tierVars, approvedAlgorithms, weightConfig,
                 validated, executed, slots, frame, saved, moved, tokenMoved>>

\* What _validateSignature, or the route to a validator module, leaves in the slot
\* of the operation.  A module proves one factor, so it may not claim more; with an
\* empty signature it claims nothing and the slot stays as it is.
Stamped(op) ==
  IF op.alg = "none" THEN slots[CallData(op)]
  ELSE IF op.alg = "weighted"
    THEN [alg |-> "weighted", weight |-> Accumulated(weightConfig, op.by)]
  ELSE [slots[CallData(op)] EXCEPT !.alg = op.alg]

\* Faulty variant: a module may claim any algorithm but the two barred ones.
SignatureAcceptedWithoutCap(op) ==
  IF op.module
    THEN op.alg \notin {"weighted", "sessionKey"}
    ELSE /\ op.alg # "none"
         /\ op.alg = "weighted" => /\ weightConfig.tier1 # 0
                                   /\ Accumulated(weightConfig, op.by) >= weightConfig.tier1

SignatureAccepted(op) ==
  IF op.module
    THEN op.alg \notin {"weighted", "sessionKey"} /\ AlgTier(op.alg) <= 1
    ELSE /\ op.alg # "none"
         /\ op.alg = "weighted" => /\ weightConfig.tier1 # 0
                                   /\ Accumulated(weightConfig, op.by) >= weightConfig.tier1

\* _validationTierOk: only a single execute carries a value that is checked here.
ValidationTierOk(op, tier) ==
  op.batch \/ op.calls = <<>> \/ RequiredTier(op.calls[1].eth) <= tier

\* validateUserOp, for the next operation of the bundle.
ValidateUserOp ==
  /\ validated < Len(bundle)
  /\ LET op == bundle[validated + 1]
         slot == Stamped(op)
     IN /\ SignatureAccepted(op)
        /\ guarded => /\ slot.alg \in approvedAlgorithms
                      /\ Tiering => ValidationTierOk(op, SlotTier(weightConfig, slot))
        /\ slots' = [slots EXCEPT ![CallData(op)] = slot]
  /\ validated' = validated + 1
  /\ UNCHANGED <<guardVars, guarded, tierVars, approvedAlgorithms, weightConfig, bundle,
                 executed, bundlePolicy, frame, saved, moved, tokenMoved>>

\* The end of a handleOps: transient storage is gone.
ClearBundle ==
  /\ bundle' = <<>> /\ validated' = 0 /\ executed' = 0 /\ bundlePolicy' = Unset
  /\ slots' = EmptySlots

\* One operation does not validate: handleOps reverts as a whole.
HandleOpsReverts ==
  /\ bundle # <<>> /\ validated < Len(bundle)
  /\ ClearBundle
  /\ UNCHANGED <<guardVars, guarded, tierVars, approvedAlgorithms, weightConfig, frame,
                 saved, moved, tokenMoved>>

--------------------------------------------------------------------------------
(* Execution *)

Revertible ==
  [dailySpent |-> dailySpent, tokenDailySpent |-> tokenDailySpent, moved |-> moved,
   tokenMoved |-> tokenMoved, tier1Limit |-> tier1Limit, tier2Limit |-> tier2Limit,
   tierLimitsInitialized |-> tierLimitsInitialized, tierLimitNonce |-> tierLimitNonce,
   weightConfig |-> weightConfig, slots |-> slots, bundlePolicy |-> bundlePolicy]

OpenFrame(tier, calls) ==
  /\ frame = NoFrame
  /\ frame' = [tier |-> tier, calls |-> calls]
  /\ saved' = Revertible

\* Faulty variant: a failed re-accumulation leaves the weight that the slot held.
RestampedKeepingWeight(op) ==
  LET slot == slots[InnerData(op)]
  IN IF op.alg = "none" THEN {slot}
     ELSE IF op.alg # "weighted" THEN {[slot EXCEPT !.alg = op.alg]}
     ELSE IF weightConfig.tier1 = 0 THEN {}
     ELSE LET w == Accumulated(weightConfig, op.by)
          IN {[alg |-> "weighted", weight |-> w2] :
                w2 \in {w3 \in {w} : w >= weightConfig.tier1}
                       \cup {w3 \in {slot.weight} : w < weightConfig.tier1 \/ executed > 0}}

\* _populateExecAlg: what executeUserOp leaves in the slot of the inner call data.
\* The weight is accumulated again, under the policy of now; it comes out as 0 when
\* it is too low or when an earlier operation has changed the keys.  Without a
\* policy the operation reverts.
Restamped(op) ==
  LET slot == slots[InnerData(op)]
  IN IF op.alg = "none" THEN {slot}
     ELSE IF op.alg # "weighted" THEN {[slot EXCEPT !.alg = op.alg]}
     ELSE IF weightConfig.tier1 = 0 THEN {}
     ELSE LET w == Accumulated(weightConfig, op.by)
          IN {[alg |-> "weighted", weight |-> w2] :
                w2 \in {w3 \in {w} : w >= weightConfig.tier1}
                       \cup {w3 \in {0} : w < weightConfig.tier1 \/ executed > 0}}

\* execute and executeBatch from the EntryPoint, by executeUserOp or directly.
ExecuteUserOp ==
  /\ Executing
  /\ LET op == bundle[executed + 1]
     IN IF op.wrapped
          THEN \E slot \in Restamped(op) :
                 /\ slots' = [slots EXCEPT ![InnerData(op)] = slot]
                 /\ OpenFrame(SlotTier(weightConfig, slot), op.calls)
          ELSE /\ OpenFrame(SlotTier(weightConfig, slots[CallData(op)]), op.calls)
               /\ UNCHANGED slots
  /\ UNCHANGED <<guardVars, guarded, tierVars, approvedAlgorithms, weightConfig,
                 bundleVars, moved, tokenMoved>>

\* The owner calls execute or executeBatch itself, at tier 1.
ExecuteByOwner(calls) ==
  /\ Idle
  /\ OpenFrame(1, calls)
  /\ UNCHANGED <<guardVars, guarded, tierVars, approvedAlgorithms, weightConfig,
                 bundleVars, slots, moved, tokenMoved>>

\* An executor module has one call, at tier 1, and never to the account itself.
ExecuteFromExecutor(calls) ==
  /\ Len(calls) = 1 /\ calls[1].self = "no"
  /\ ExecuteByOwner(calls)

\* One call of the frame: the guard, then the call.
RunCall ==
  /\ frame # NoFrame
  /\ frame.calls # <<>>
  /\ LET call == Head(frame.calls)
     IN /\ EnforceGuard(call, frame.tier)
        /\ \/ call.self = "no" /\ UNCHANGED tierVars
           \/ call.self = "setTierLimits" /\ SetTierLimits(call.tiers)
           \/ call.self = "modifyTierLimits" /\ ModifyTierLimits(call.tiers)
  /\ frame' = [frame EXCEPT !.calls = Tail(@)]
  /\ UNCHANGED <<configVars, guarded, approvedAlgorithms, weightConfig, bundleVars,
                 slots, saved>>

\* The EntryPoint goes on with the next operation, and the last one ends handleOps.
NextUserOp ==
  IF executed + 1 < Len(bundle)
    THEN executed' = executed + 1 /\ UNCHANGED <<bundle, validated>>
    ELSE bundle' = <<>> /\ validated' = 0 /\ executed' = 0

\* The slots and the history that the next operation finds.
PassOn(s, policy) ==
  IF bundle' = <<>> THEN slots' = EmptySlots /\ bundlePolicy' = Unset
                    ELSE slots' = s /\ bundlePolicy' = policy

\* The frame returns.
Return ==
  /\ frame # NoFrame
  /\ frame.calls = <<>>
  /\ frame' = NoFrame /\ saved' = NoFrame
  /\ NextUserOp
  /\ PassOn(slots, bundlePolicy)
  /\ UNCHANGED <<guardVars, guarded, tierVars, approvedAlgorithms, weightConfig,
                 moved, tokenMoved>>

\* A guard, a hook, a session scope or a callee reverts: the frame is undone.
Revert ==
  /\ frame # NoFrame
  /\ frame' = NoFrame /\ saved' = NoFrame
  /\ dailySpent' = saved.dailySpent /\ tokenDailySpent' = saved.tokenDailySpent
  /\ moved' = saved.moved /\ tokenMoved' = saved.tokenMoved
  /\ tier1Limit' = saved.tier1Limit /\ tier2Limit' = saved.tier2Limit
  /\ tierLimitsInitialized' = saved.tierLimitsInitialized
  /\ tierLimitNonce' = saved.tierLimitNonce
  /\ weightConfig' = saved.weightConfig
  /\ NextUserOp
  /\ PassOn(saved.slots, saved.bundlePolicy)
  /\ UNCHANGED <<configVars, guarded, approvedAlgorithms>>

\* The operation reverts before it opens a frame.
RevertAtEntry ==
  /\ Executing /\ frame = NoFrame
  /\ NextUserOp
  /\ PassOn(slots, bundlePolicy)
  /\ UNCHANGED <<guardVars, guarded, tierVars, approvedAlgorithms, weightConfig, frame,
                 saved, moved, tokenMoved>>

--------------------------------------------------------------------------------
(* Transactions of the owner *)

\* Faulty variant: the withdrawal is not metered.
WithdrawDepositToUnmetered(amount) ==
  /\ Idle
  /\ moved' = [moved EXCEPT ![1] = @ + amount] /\ Total(moved') <= MaxDay
  /\ UNCHANGED <<guardVars, guarded, tierVars, approvedAlgorithms, weightConfig,
                 bundleVars, slots, frame, saved, tokenMoved>>

\* withdrawDepositTo: metered like a call of the owner that carries ETH.
WithdrawDepositTo(amount) ==
  /\ Idle
  /\ EnforceGuard([eth |-> amount, token |-> NoToken], 1)
  /\ UNCHANGED <<configVars, guarded, tierVars, approvedAlgorithms, weightConfig,
                 bundleVars, slots, frame, saved>>

ChangeTierLimits(l) ==
  /\ Idle
  /\ SetTierLimits(l) \/ ModifyTierLimits(l)
  /\ UNCHANGED <<guardVars, guarded, approvedAlgorithms, weightConfig, bundleVars,
                 slots, frame, saved, moved, tokenMoved>>

GuardApproveAlgorithm(a) ==
  /\ Idle
  /\ approvedAlgorithms' = approvedAlgorithms \cup {a}
  /\ UNCHANGED <<guardVars, guarded, tierVars, weightConfig, bundleVars, slots, frame,
                 saved, moved, tokenMoved>>

\* The guard wrappers; without a guard they revert.
ConfigureGuard(step) ==
  /\ Idle /\ guarded
  /\ step
  /\ UNCHANGED <<guarded, tierVars, approvedAlgorithms, weightConfig, bundleVars, slots,
                 frame, saved, moved>>

GuardAddTokenConfig(t, c) ==
  /\ ConfigureGuard(AddTokenConfig(t, c))
  /\ tokenMoved' = [tokenMoved EXCEPT ![t] = Nothing]

GuardDecreaseDailyLimit(limit) ==
  ConfigureGuard(DecreaseDailyLimit(limit)) /\ UNCHANGED tokenMoved
GuardDecreaseTokenDailyLimit(t, limit) ==
  ConfigureGuard(DecreaseTokenDailyLimit(t, limit)) /\ UNCHANGED tokenMoved
GuardSetStrictMode(b) == ConfigureGuard(SetStrictMode(b)) /\ UNCHANGED tokenMoved

\* setWeightConfig, or anybody's executeWeightChange, alone or under a running call.
\* Which change needs what consent is the subject of GuardianGovernance.
ChangePolicy(c) ==
  /\ Idle \/ frame # NoFrame
  /\ weightConfig' = c
  /\ bundlePolicy' = IF c = weightConfig THEN bundlePolicy ELSE Unset
  /\ UNCHANGED <<guardVars, guarded, tierVars, approvedAlgorithms, bundle, validated,
                 executed, slots, frame, saved, moved, tokenMoved>>

\* Midnight; a transaction sees one timestamp.
Midnight ==
  /\ Idle
  /\ NewDay
  /\ moved' = Nothing /\ tokenMoved' = [t \in Token |-> Nothing]
  /\ UNCHANGED <<guarded, tierVars, approvedAlgorithms, weightConfig, bundleVars, slots,
                 frame, saved>>

Next ==
  \/ \E op \in UserOps : HandleOps(op)
  \/ ValidateUserOp \/ HandleOpsReverts
  \/ ExecuteUserOp \/ RunCall \/ Return \/ Revert \/ RevertAtEntry
  \/ \E calls \in DirectCalls : ExecuteByOwner(calls) \/ ExecuteFromExecutor(calls)
  \/ \E amount \in EthLimits : WithdrawDepositTo(amount)
  \/ \E l \in TierChoices : ChangeTierLimits(l)
  \/ \E a \in MoreAlgorithms : GuardApproveAlgorithm(a)
  \/ \E limit \in EthLimits : GuardDecreaseDailyLimit(limit)
  \/ \E t \in Token, c \in TokenSettings :
       GuardAddTokenConfig(t, c) \/ GuardDecreaseTokenDailyLimit(t, c.dailyLimit)
  \/ \E b \in BOOLEAN : GuardSetStrictMode(b)
  \/ \E c \in Policies : ChangePolicy(c)
  \/ Midnight

Spec == Init /\ [][Next]_vars

--------------------------------------------------------------------------------
(* Properties *)

\* Types, with the one fact about stored token configurations that metering needs:
\* a token with tiers has a daily cap, for what is not capped is not recorded.
TypeOK ==
  /\ dailyLimit \in Nat /\ minDailyLimit \in Nat /\ dailySpent \in Nat
  /\ tokenConfigs \in [Token -> {c \in TokenConfig : HasTiers(c) => c.dailyLimit > 0}]
  /\ tokenDailySpent \in [Token -> Nat] /\ blockUnconfiguredTokens \in BOOLEAN
  /\ guarded \in BOOLEAN
  /\ tier1Limit \in Nat /\ tier2Limit \in Nat /\ tierLimitsInitialized \in BOOLEAN
  /\ tierLimitNonce \in 0 .. MaxTierChanges
  /\ approvedAlgorithms \subseteq Alg
  /\ weightConfig \in Policies \cup {Unset} /\ bundlePolicy \in Policies \cup {Unset}
  /\ bundle \in Seq(UserOps) /\ validated \in 0 .. Len(bundle) /\ executed \in 0 .. validated
  /\ slots \in [Keys -> [alg : Alg, weight : UInt8]]
  /\ frame = NoFrame \/ frame \in [tier : Tier, calls : Seq(Call)]
  /\ moved \in [Tier -> Nat] /\ tokenMoved \in [Token -> [Tier -> Nat]]

\* While ETH is capped, the guard's record of the day is what really left the
\* account, through batches, failed operations, owner transactions and executors
\* alike: recordSpend runs before every call and a revert takes both back.
MeterIsExact == guarded /\ dailyLimit > 0 => dailySpent = Total(moved)

\* On a day, ETH that leaves under tier k keeps the whole day's total within the
\* reach of tier k: neither a batch, nor several operations, nor a mix of tiers
\* gets one factor past tier1Limit (_enforceGuard, AAStarAirAccountBase.sol:1598).
TierBoundsTheDay ==
  [][\A k \in Tier :
       guarded /\ dailyLimit > 0 /\ moved'[k] > moved[k] => RequiredTier(Total(moved')) <= k]_vars

\* No movement of ETH leaves the day above its cap (recordSpend).
DailyCap ==
  [][guarded /\ dailyLimit > 0 /\ Total(moved') > Total(moved) => Total(moved') <= dailyLimit]_vars

\* The same for a token, from when it was configured: its tiers and its cap hold
\* for the sum of a day (recordTokenSpend).
TokenDayWithinTier ==
  [][\A t \in Token, k \in Tier :
       LET c == tokenConfigs[t]
           day == Total(tokenMoved'[t])
       IN guarded /\ tokenMoved'[t][k] > tokenMoved[t][k] =>
            /\ HasTiers(c) => RequiredTokenTier(c, day) <= k
            /\ c.dailyLimit > 0 => day <= c.dailyLimit]_vars

\* Limits that were ever set change only with guardians: not through a reset to
\* <<0, 0>>, and not through a call of the account to itself (setTierLimits).
SetOnceThenGuardians ==
  [][tierLimitsInitialized /\ tierLimitsInitialized' /\ <<tier1Limit, tier2Limit>>' # <<tier1Limit, tier2Limit>>
       => tierLimitNonce' # tierLimitNonce]_vars

\* What the signature of an operation proves under policy c; a validator module
\* vouches for one factor, whatever algorithm the signature names.
ProvenTier(c, op) ==
  IF op.module THEN (IF AlgTier(op.alg) > 0 THEN 1 ELSE 0)
  ELSE IF op.alg = "weighted" THEN TierOf(c, op.by)
  ELSE AlgTier(op.alg)

SameCalls(op1, op2) == op1.batch = op2.batch /\ op1.calls = op2.calls

OpensFor(op) == Executing /\ frame = NoFrame /\ frame' # NoFrame /\ op = bundle[executed + 1]

\* An operation that goes through executeUserOp with a signature runs at the tier
\* which that signature proves under the policy of now, or at none: never on an
\* algorithm or a weight that another operation left behind (_populateExecAlg).
WrappedOpsUseOwnTier ==
  [][\A op \in UserOps : OpensFor(op) /\ op.wrapped /\ op.alg # "none"
       => frame'.tier \in {0, ProvenTier(weightConfig, op)}]_vars

\* While the policy stands still, an operation runs at a tier above what it proved
\* only when another operation of the bundle, making the same calls, proved it.  A
\* policy that was away and is back does not count: a weight of the time between is
\* in the slots.
SharesOnlyWithSameCall ==
  [][\A op \in UserOps : OpensFor(op) /\ weightConfig = bundlePolicy
       => \/ frame'.tier = 0
          \/ \E i \in DOMAIN bundle : /\ SameCalls(bundle[i], op)
                                      /\ frame'.tier <= ProvenTier(bundlePolicy, bundle[i])]_vars

=================================================================================
