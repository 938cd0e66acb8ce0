------------------------- MODULE TieredExecutionTheorems -------------------------
(***************************************************************************)
(* What holds of the meter of an account, of its tiers and of the slots    *)
(* that carry the authentication of a bundle, for any calls, bundles of    *)
(* any length, limits and policies.  Amounts only matter by what a frame   *)
(* adds and what its failure takes back, slots by what operations prove.   *)
(***************************************************************************)
EXTENDS TieredExecution, WeightPolicyTheorems, TLAPS

(***************************************************************************)
(* Frames.                                                                 *)
(***************************************************************************)
\* The operation that is executed next is one of the bundle.
BundleIsTyped ==
  /\ bundle \in Seq(UserOps)
  /\ executed \in Nat
  /\ executed = 0 \/ executed < Len(bundle)

\* A frame has a tier and runs calls.
FrameIsTyped ==
  frame # NoFrame =>
    /\ frame = [tier |-> frame.tier, calls |-> frame.calls]
    /\ frame.tier \in Tier
    /\ frame.calls \in Seq(Call)

\* Every slot resolves to a tier.
LEMMA SlotTierIsTier ==
  ASSUME NEW c, NEW slot
  PROVE  SlotTier(c, slot) \in Tier
<1>1. AlgTier(slot.alg) \in Tier BY DEF AlgTier, Tier
<1>2. ResolvedTier(c, slot.weight) \in Tier BY DEF ResolvedTier, Tier
<1> QED BY <1>1, <1>2 DEF SlotTier

\* A frame opens at a tier, for calls.
Opens == \E tier \in Tier : \E calls \in Seq(Call) : OpenFrame(tier, calls)

\* An operation of a bundle opens a frame.
LEMMA UserOpsOpenFrames ==
  ASSUME BundleIsTyped, ExecuteUserOp
  PROVE  Opens
<1> DEFINE op == bundle[executed + 1]
<1>1. op.calls \in Seq(Call)
  <2>1. executed + 1 \in 1 .. Len(bundle) BY DEF BundleIsTyped, ExecuteUserOp, Executing
  <2>2. op \in UserOp BY <2>1, OpsAreUserOps DEF BundleIsTyped
  <2> QED BY <2>2 DEF UserOp
<1>2. \E slot : OpenFrame(SlotTier(weightConfig, slot), op.calls)
  BY DEF ExecuteUserOp
<1> QED BY <1>1, <1>2, SlotTierIsTier DEF Opens

\* So do the owner and executor modules.
LEMMA OwnerOpensFrames ==
  ASSUME NEW calls \in DirectCalls, ExecuteByOwner(calls) \/ ExecuteFromExecutor(calls)
  PROVE  Opens
<1>1. calls \in Seq(Call) BY OpsAreUserOps
<1>2. OpenFrame(1, calls) BY DEF ExecuteByOwner, ExecuteFromExecutor
<1> QED BY <1>1, <1>2 DEF Opens, Tier

\* The next operation stays one of the bundle.
LEMMA BundleStaysTyped == BundleIsTyped /\ [Next]_vars => BundleIsTyped'
<1> SUFFICES ASSUME BundleIsTyped, [Next]_vars PROVE BundleIsTyped' OBVIOUS
<1>1. CASE UNCHANGED <<bundle, executed>> BY <1>1 DEF BundleIsTyped
<1>2. CASE bundle' = <<>> /\ executed' = 0 BY <1>2 DEF BundleIsTyped
<1>3. CASE NextUserOp BY <1>2, <1>3 DEF NextUserOp, BundleIsTyped
<1>4. ASSUME NEW op \in UserOps, HandleOps(op) PROVE BundleIsTyped'
  BY <1>4 DEF HandleOps, BundleIsTyped
<1>5. CASE ValidateUserOp BY <1>1, <1>5 DEF ValidateUserOp
<1>6. CASE HandleOpsReverts BY <1>2, <1>6 DEF HandleOpsReverts, ClearBundle
<1>7. CASE Return \/ Revert \/ RevertAtEntry BY <1>3, <1>7 DEF Return, Revert, RevertAtEntry
<1>8. CASE ExecuteUserOp \/ RunCall \/ Midnight \/ UNCHANGED vars
  BY <1>1, <1>8 DEF ExecuteUserOp, RunCall, Midnight, vars, bundleVars
<1>9. ASSUME NEW calls, ExecuteByOwner(calls) \/ ExecuteFromExecutor(calls) PROVE BundleIsTyped'
  BY <1>1, <1>9 DEF ExecuteByOwner, ExecuteFromExecutor, bundleVars
<1>10. ASSUME NEW amount, WithdrawDepositTo(amount) PROVE BundleIsTyped'
  BY <1>1, <1>10 DEF WithdrawDepositTo, bundleVars
<1>11. ASSUME NEW l, ChangeTierLimits(l) PROVE BundleIsTyped'
  BY <1>1, <1>11 DEF ChangeTierLimits, bundleVars
<1>12. ASSUME NEW x, GuardApproveAlgorithm(x) \/ GuardDecreaseDailyLimit(x)
                     \/ GuardSetStrictMode(x) \/ ChangePolicy(x)
       PROVE  BundleIsTyped'
  BY <1>1, <1>12 DEF GuardApproveAlgorithm, GuardDecreaseDailyLimit, GuardSetStrictMode,
       ConfigureGuard, ChangePolicy, bundleVars
<1>13. ASSUME NEW t, NEW c, GuardAddTokenConfig(t, c) \/ GuardDecreaseTokenDailyLimit(t, c.dailyLimit)
       PROVE  BundleIsTyped'
  BY <1>1, <1>13 DEF GuardAddTokenConfig, GuardDecreaseTokenDailyLimit, ConfigureGuard, bundleVars
<1> QED BY <1>4, <1>5, <1>6, <1>7, <1>8, <1>9, <1>10, <1>11, <1>12, <1>13 DEF Next

(***************************************************************************)
(* The steps, by what they do to frames and to the meter.                  *)
(***************************************************************************)
\* Steps that leave frames and the meter alone, the configuration of tokens aside.
Unmetered ==
  UNCHANGED <<ethVars, guarded, moved, frame, saved>>

\* Every step is of one of these kinds.
LEMMA StepKinds ==
  ASSUME BundleIsTyped, [Next]_vars
  PROVE  \/ Unmetered
         \/ Opens /\ UNCHANGED <<ethVars, guarded, moved>>
         \/ RunCall
         \/ Return
         \/ Revert
         \/ \E amount \in EthLimits : WithdrawDepositTo(amount)
         \/ \E limit \in EthLimits : GuardDecreaseDailyLimit(limit)
         \/ Midnight
<1> USE DEF Unmetered, guardVars
<1>1. CASE UNCHANGED vars BY <1>1 DEF vars
<1>2. ASSUME NEW op, HandleOps(op) PROVE Unmetered BY <1>2 DEF HandleOps
<1>3. CASE ValidateUserOp \/ HandleOpsReverts \/ RevertAtEntry
  BY <1>3 DEF ValidateUserOp, HandleOpsReverts, RevertAtEntry
<1>4. CASE ExecuteUserOp BY <1>4, UserOpsOpenFrames DEF ExecuteUserOp
<1>5. ASSUME NEW calls \in DirectCalls, ExecuteByOwner(calls) \/ ExecuteFromExecutor(calls)
      PROVE  Opens /\ UNCHANGED <<ethVars, guarded, moved>>
  BY <1>5, OwnerOpensFrames DEF ExecuteByOwner, ExecuteFromExecutor
<1>6. ASSUME NEW l, ChangeTierLimits(l) PROVE Unmetered BY <1>6 DEF ChangeTierLimits
<1>7. ASSUME NEW x, GuardApproveAlgorithm(x) \/ ChangePolicy(x) PROVE Unmetered
  BY <1>7 DEF GuardApproveAlgorithm, ChangePolicy
<1>8. ASSUME NEW x, GuardSetStrictMode(x) PROVE Unmetered
  BY <1>8 DEF GuardSetStrictMode, ConfigureGuard, SetStrictMode
<1>9. ASSUME NEW t, NEW c, GuardAddTokenConfig(t, c) \/ GuardDecreaseTokenDailyLimit(t, c.dailyLimit)
      PROVE  Unmetered
  BY <1>9 DEF GuardAddTokenConfig, GuardDecreaseTokenDailyLimit, ConfigureGuard,
       AddTokenConfig, DecreaseTokenDailyLimit
<1> QED BY <1>1, <1>2, <1>3, <1>4, <1>5, <1>6, <1>7, <1>8, <1>9 DEF Next

\* Frames stay typed.
LEMMA FrameStaysTyped == BundleIsTyped /\ FrameIsTyped /\ [Next]_vars => FrameIsTyped'
<1> SUFFICES ASSUME BundleIsTyped, FrameIsTyped, [Next]_vars PROVE FrameIsTyped' OBVIOUS
<1>1. CASE UNCHANGED frame BY <1>1 DEF FrameIsTyped
<1>2. CASE frame' = NoFrame BY <1>2 DEF FrameIsTyped
<1>3. CASE Opens BY <1>3 DEF Opens, OpenFrame, FrameIsTyped
<1>4. CASE RunCall
  <2>1. frame # NoFrame /\ frame.calls # <<>> /\ frame' = [frame EXCEPT !.calls = Tail(@)]
    BY <1>4 DEF RunCall
  <2>2. frame' = [tier |-> frame.tier, calls |-> Tail(frame.calls)] BY <2>1 DEF FrameIsTyped
  <2>3. Tail(frame.calls) \in Seq(Call) BY <2>1 DEF FrameIsTyped
  <2> QED BY <2>1, <2>2, <2>3 DEF FrameIsTyped
<1>5. CASE Return \/ Revert BY <1>2, <1>5 DEF Return, Revert
<1>6. ASSUME NEW x, WithdrawDepositTo(x) \/ GuardDecreaseDailyLimit(x) PROVE UNCHANGED frame
  BY <1>6 DEF WithdrawDepositTo, GuardDecreaseDailyLimit, ConfigureGuard
<1>7. CASE Midnight BY <1>1, <1>7 DEF Midnight
<1> QED BY <1>1, <1>3, <1>4, <1>5, <1>6, <1>7, StepKinds DEF Unmetered

(***************************************************************************)
(* The meter.                                                              *)
(***************************************************************************)
AmountsAreNatural ==
  /\ dailyLimit \in Nat /\ dailySpent \in Nat
  /\ moved \in [Tier -> Nat]

\* What a failed frame goes back to: an earlier moment of the same day, when the meter
\* was exact as well.
SavedIsEarlier ==
  frame # NoFrame =>
    /\ saved.dailySpent \in Nat
    /\ saved.moved \in [Tier -> Nat]
    /\ \A k \in Tier : saved.moved[k] <= moved[k]
    /\ guarded /\ dailyLimit > 0 => saved.dailySpent = Total(saved.moved)

MeterInv ==
  BundleIsTyped /\ FrameIsTyped /\ AmountsAreNatural /\ SavedIsEarlier /\ MeterIsExact

\* What a payment does: it is recorded as what it is, and it fits the tier and the cap.
LEMMA PaymentsAreMetered ==
  ASSUME AmountsAreNatural, MeterIsExact,
         NEW call, call.eth \in Nat, NEW tier \in Tier, EnforceGuard(call, tier),
         UNCHANGED <<dailyLimit, guarded>>
  PROVE  /\ AmountsAreNatural' /\ MeterIsExact'
         /\ \A k \in Tier : moved[k] <= moved'[k]
         /\ \A k \in Tier : moved'[k] > moved[k] => k = tier
         /\ guarded /\ dailyLimit > 0 =>
              /\ RequiredTier(Total(moved')) <= tier
              /\ Total(moved') > Total(moved) => Total(moved') <= dailyLimit
<1> DEFINE value == call.eth
<1>1. moved' = [moved EXCEPT ![tier] = @ + value] BY DEF EnforceGuard
<1>2. moved' \in [Tier -> Nat] /\ Total(moved') = Total(moved) + value
  <2>1. moved' \in [Tier -> Nat] BY <1>1 DEF AmountsAreNatural
  <2>2. \A k \in Tier : moved[k] \in Nat /\ moved'[k] = IF k = tier THEN moved[k] + value ELSE moved[k]
    BY <1>1 DEF AmountsAreNatural
  <2>3. tier \in {0, 1, 2, 3} /\ Tier = {0, 1, 2, 3} BY DEF Tier
  <2> QED BY <2>1, <2>2, <2>3 DEF Total
<1>3. \A k \in Tier : moved[k] <= moved'[k] /\ (moved'[k] > moved[k] => k = tier)
  BY <1>1 DEF AmountsAreNatural
<1>4. dailySpent' \in Nat
  <2>1. dailySpent' = dailySpent \/ dailySpent' = dailySpent + value
    BY DEF EnforceGuard, RecordSpend
  <2> QED BY <2>1 DEF AmountsAreNatural
<1>5. ASSUME guarded, dailyLimit > 0
      PROVE  /\ dailySpent' = Total(moved')
             /\ RequiredTier(Total(moved')) <= tier
             /\ Total(moved') > Total(moved) => Total(moved') <= dailyLimit
  <2>1. dailySpent = Total(moved) /\ dailySpent \in Nat /\ dailyLimit \in Nat
    BY <1>5 DEF MeterIsExact, AmountsAreNatural
  <2>2. RequiredTier(dailySpent + value) <= tier BY <1>5 DEF EnforceGuard, TierAllows
  <2>3. RecordSpend(value) BY <1>5 DEF EnforceGuard
  <2>4. CASE value > 0
    <3>1. value <= Remaining(dailyLimit, dailySpent) /\ dailySpent' = dailySpent + value
      BY <1>5, <2>3, <2>4 DEF RecordSpend
    <3>2. dailySpent + value <= dailyLimit BY <2>1, <2>4, <3>1 DEF Remaining
    <3> HIDE DEF value
    <3> QED BY <1>2, <2>1, <2>2, <3>1, <3>2
  <2>5. CASE value = 0
    <3>1. dailySpent' = dailySpent BY <2>3, <2>5 DEF RecordSpend
    <3>2. Total(moved') = Total(moved) BY <1>2, <2>1, <2>5
    <3>3. dailySpent + value = Total(moved') BY <2>1, <2>5, <3>2
    <3> QED BY <2>1, <2>2, <3>1, <3>2, <3>3
  <2> QED BY <2>4, <2>5
<1>6. MeterIsExact' BY <1>5 DEF MeterIsExact
<1> QED BY <1>2, <1>3, <1>4, <1>5, <1>6 DEF AmountsAreNatural

\* A call of a frame is a payment at its tier; a withdrawal is one at tier 1.
LEMMA CallsArePayments ==
  ASSUME FrameIsTyped, RunCall
  PROVE  /\ \E call : call.eth \in Nat /\ EnforceGuard(call, frame.tier)
         /\ frame.tier \in Tier
         /\ UNCHANGED <<dailyLimit, guarded, saved>>
<1>1. frame # NoFrame /\ frame.calls # <<>> /\ EnforceGuard(Head(frame.calls), frame.tier)
  BY DEF RunCall
<1>2. Head(frame.calls) \in Call BY <1>1 DEF FrameIsTyped
<1>3. Head(frame.calls).eth \in Nat BY <1>2 DEF Call
<1>4. UNCHANGED <<dailyLimit, guarded, saved>> BY DEF RunCall, configVars
<1> QED BY <1>1, <1>3, <1>4 DEF FrameIsTyped

\* A withdrawal of the deposit is a payment at tier 1.
LEMMA WithdrawalsArePayments ==
  ASSUME NEW amount \in EthLimits, WithdrawDepositTo(amount)
  PROVE  /\ \E call : call.eth \in Nat /\ EnforceGuard(call, 1)
         /\ 1 \in Tier
         /\ frame = NoFrame /\ frame' = NoFrame
         /\ UNCHANGED <<dailyLimit, guarded>>
<1> DEFINE call == [eth |-> amount, token |-> NoToken]
<1>1. EnforceGuard(call, 1) BY DEF WithdrawDepositTo
<1>2. call.eth \in Nat BY LimitsAreAmounts
<1> HIDE DEF call
<1> QED BY <1>1, <1>2 DEF WithdrawDepositTo, Idle, configVars, Tier

\* A new account has moved nothing.
LEMMA InitIsMetered == Init => MeterInv
<1> SUFFICES ASSUME Init PROVE MeterInv OBVIOUS
<1>1. dailyLimit \in Nat /\ dailySpent = 0
  <2>1. CASE GuardInit BY <2>1, LimitsAreAmounts DEF GuardInit
  <2>2. CASE NoGuard BY <2>2 DEF NoGuard
  <2> QED BY <2>1, <2>2 DEF Init
<1>2. moved \in [Tier -> Nat] /\ Total(moved) = 0 BY DEF Init, Nothing, Total, Tier
<1>3. BundleIsTyped BY DEF Init, BundleIsTyped
<1>4. frame = NoFrame BY DEF Init
<1> QED BY <1>1, <1>2, <1>3, <1>4
     DEF MeterInv, FrameIsTyped, AmountsAreNatural, SavedIsEarlier, MeterIsExact

\* Every step keeps the meter exact, a reverted frame included.
LEMMA NextIsMetered == MeterInv /\ [Next]_vars => MeterInv'
<1> SUFFICES ASSUME MeterInv, [Next]_vars
             PROVE  AmountsAreNatural' /\ SavedIsEarlier' /\ MeterIsExact'
  BY BundleStaysTyped, FrameStaysTyped DEF MeterInv
<1> USE DEF MeterInv
<1>1. CASE Unmetered
  BY <1>1 DEF Unmetered, ethVars, AmountsAreNatural, SavedIsEarlier, MeterIsExact
<1>2. CASE Opens /\ UNCHANGED <<ethVars, guarded, moved>>
  <2>1. saved' = Revertible BY <1>2 DEF Opens, OpenFrame
  <2>2. saved'.dailySpent = dailySpent /\ saved'.moved = moved BY <2>1 DEF Revertible
  <2>3. AmountsAreNatural' /\ MeterIsExact' BY <1>2 DEF ethVars, AmountsAreNatural, MeterIsExact
  <2>4. \A k \in Tier : moved'[k] <= moved'[k] BY <2>3 DEF AmountsAreNatural
  <2> QED BY <1>2, <2>2, <2>3, <2>4 DEF ethVars, AmountsAreNatural, SavedIsEarlier, MeterIsExact
<1>3. CASE RunCall
  <2>1. PICK call : call.eth \in Nat /\ EnforceGuard(call, frame.tier) BY <1>3, CallsArePayments
  <2>2. frame # NoFrame /\ frame.tier \in Tier /\ UNCHANGED <<dailyLimit, guarded, saved>>
    BY <1>3, CallsArePayments DEF RunCall
  <2>3. AmountsAreNatural' /\ MeterIsExact' /\ \A k \in Tier : moved[k] <= moved'[k]
    BY <2>1, <2>2, PaymentsAreMetered
  <2>4. ASSUME NEW k \in Tier PROVE saved'.moved[k] <= moved'[k]
    BY <2>2, <2>3 DEF SavedIsEarlier, AmountsAreNatural
  <2> QED BY <2>2, <2>3, <2>4 DEF SavedIsEarlier
<1>4. CASE Return
  BY <1>4 DEF Return, guardVars, ethVars, AmountsAreNatural, SavedIsEarlier, MeterIsExact
<1>5. CASE Revert
  BY <1>5 DEF Revert, configVars, AmountsAreNatural, SavedIsEarlier, MeterIsExact
<1>6. ASSUME NEW amount \in EthLimits, WithdrawDepositTo(amount)
      PROVE  AmountsAreNatural' /\ SavedIsEarlier' /\ MeterIsExact'
  BY <1>6, WithdrawalsArePayments, PaymentsAreMetered DEF SavedIsEarlier
<1>7. ASSUME NEW limit \in EthLimits, GuardDecreaseDailyLimit(limit)
      PROVE  AmountsAreNatural' /\ SavedIsEarlier' /\ MeterIsExact'
  <2>1. /\ limit < dailyLimit /\ dailyLimit' = limit /\ frame' = NoFrame
        /\ UNCHANGED <<dailySpent, guarded, moved>>
    BY <1>7 DEF GuardDecreaseDailyLimit, ConfigureGuard, DecreaseDailyLimit, Idle
  <2>2. limit \in Nat BY LimitsAreAmounts
  <2>3. dailyLimit' > 0 => dailyLimit > 0 BY <2>1, <2>2 DEF AmountsAreNatural
  <2> QED BY <2>1, <2>2, <2>3 DEF AmountsAreNatural, SavedIsEarlier, MeterIsExact
<1>8. CASE Midnight
  <2>1. moved' = Nothing /\ dailySpent' = 0 /\ frame' = NoFrame /\ dailyLimit' = dailyLimit
    BY <1>8 DEF Midnight, NewDay, Idle
  <2>2. moved' \in [Tier -> Nat] /\ Total(moved') = 0 BY <2>1 DEF Nothing, Total, Tier
  <2> QED BY <2>1, <2>2 DEF AmountsAreNatural, SavedIsEarlier, MeterIsExact
<1> QED BY <1>1, <1>2, <1>3, <1>4, <1>5, <1>6, <1>7, <1>8, StepKinds

\* Totals grow with what they are made of.
LEMMA TotalsGrow ==
  ASSUME NEW f \in [Tier -> Nat], NEW g \in [Tier -> Nat], \A k \in Tier : f[k] <= g[k]
  PROVE  Total(f) <= Total(g)
<1>1. \A k \in {0, 1, 2, 3} : f[k] \in Nat /\ g[k] \in Nat /\ f[k] <= g[k] BY DEF Tier
<1> QED BY <1>1 DEF Total

\* A step pays within the tier and the cap, or what has left today does not grow.
LEMMA PaymentOrNone ==
  ASSUME MeterInv, [Next]_vars
  PROVE  \/ \A k \in Tier : moved'[k] <= moved[k]
         \/ \E tier \in Tier :
              /\ \A k \in Tier : moved'[k] > moved[k] => k = tier
              /\ guarded /\ dailyLimit > 0 =>
                   /\ RequiredTier(Total(moved')) <= tier
                   /\ Total(moved') > Total(moved) => Total(moved') <= dailyLimit
<1> USE DEF MeterInv
<1>1. CASE UNCHANGED moved BY <1>1 DEF AmountsAreNatural
<1>2. CASE RunCall
  <2>1. PICK call : call.eth \in Nat /\ EnforceGuard(call, frame.tier) BY <1>2, CallsArePayments
  <2>2. frame.tier \in Tier /\ UNCHANGED <<dailyLimit, guarded>> BY <1>2, CallsArePayments
  <2> QED BY <2>1, <2>2, PaymentsAreMetered
<1>3. ASSUME NEW amount \in EthLimits, WithdrawDepositTo(amount)
      PROVE  \E tier \in Tier :
               /\ \A k \in Tier : moved'[k] > moved[k] => k = tier
               /\ guarded /\ dailyLimit > 0 =>
                    /\ RequiredTier(Total(moved')) <= tier
                    /\ Total(moved') > Total(moved) => Total(moved') <= dailyLimit
  BY <1>3, WithdrawalsArePayments, PaymentsAreMetered
<1>4. CASE Revert BY <1>4 DEF Revert, SavedIsEarlier
<1>5. CASE Midnight
  <2>1. \A k \in Tier : moved'[k] = 0 BY <1>5 DEF Midnight, Nothing
  <2> QED BY <2>1 DEF AmountsAreNatural
<1>6. CASE Return BY <1>1, <1>6 DEF Return
<1>7. ASSUME NEW limit, GuardDecreaseDailyLimit(limit) PROVE UNCHANGED moved
  BY <1>7 DEF GuardDecreaseDailyLimit, ConfigureGuard
<1> QED BY <1>1, <1>2, <1>3, <1>4, <1>5, <1>6, <1>7, StepKinds DEF Unmetered

(***************************************************************************)
(* The tier limits.                                                        *)
(***************************************************************************)
\* What a failed frame goes back to: limits that were set before the frame opened are
\* the limits of now, unless guardians have changed them inside the frame.
LimitsInv ==
  /\ BundleIsTyped
  /\ tierLimitNonce \in Nat
  /\ frame # NoFrame =>
       /\ saved.tierLimitNonce \in Nat /\ saved.tierLimitNonce <= tierLimitNonce
       /\ saved.tierLimitsInitialized => tierLimitsInitialized
       /\ saved.tierLimitsInitialized /\ saved.tierLimitNonce = tierLimitNonce =>
            saved.tier1Limit = tier1Limit /\ saved.tier2Limit = tier2Limit

\* The steps, by what they do to the limits.
LEMMA LimitStepKinds ==
  ASSUME BundleIsTyped, [Next]_vars
  PROVE  \/ UNCHANGED <<tierVars, frame, saved>>
         \/ Opens /\ UNCHANGED tierVars
         \/ RunCall
         \/ frame' = NoFrame /\ UNCHANGED tierVars
         \/ Revert
         \/ frame' = NoFrame /\ \E l \in TierChoices : SetTierLimits(l) \/ ModifyTierLimits(l)
<1>1. CASE UNCHANGED vars BY <1>1 DEF vars
<1>2. ASSUME NEW op, HandleOps(op) PROVE UNCHANGED <<tierVars, frame, saved>> BY <1>2 DEF HandleOps
<1>3. CASE ValidateUserOp \/ HandleOpsReverts \/ RevertAtEntry
  BY <1>3 DEF ValidateUserOp, HandleOpsReverts, RevertAtEntry
<1>4. CASE ExecuteUserOp BY <1>4, UserOpsOpenFrames DEF ExecuteUserOp
<1>5. ASSUME NEW calls \in DirectCalls, ExecuteByOwner(calls) \/ ExecuteFromExecutor(calls)
      PROVE  Opens /\ UNCHANGED tierVars
  BY <1>5, OwnerOpensFrames DEF ExecuteByOwner, ExecuteFromExecutor
<1>6. ASSUME NEW l \in TierChoices, ChangeTierLimits(l)
      PROVE  frame' = NoFrame /\ (SetTierLimits(l) \/ ModifyTierLimits(l))
  BY <1>6 DEF ChangeTierLimits, Idle
<1>7. ASSUME NEW x, GuardApproveAlgorithm(x) \/ ChangePolicy(x) \/ WithdrawDepositTo(x)
      PROVE  UNCHANGED <<tierVars, frame, saved>>
  BY <1>7 DEF GuardApproveAlgorithm, ChangePolicy, WithdrawDepositTo
<1>8. ASSUME NEW x, GuardSetStrictMode(x) \/ GuardDecreaseDailyLimit(x)
      PROVE  UNCHANGED <<tierVars, frame, saved>>
  BY <1>8 DEF GuardSetStrictMode, GuardDecreaseDailyLimit, ConfigureGuard
<1>9. ASSUME NEW t, NEW c, GuardAddTokenConfig(t, c) \/ GuardDecreaseTokenDailyLimit(t, c.dailyLimit)
      PROVE  UNCHANGED <<tierVars, frame, saved>>
  BY <1>9 DEF GuardAddTokenConfig, GuardDecreaseTokenDailyLimit, ConfigureGuard
<1>10. CASE Return BY <1>10 DEF Return
<1>11. CASE Midnight BY <1>11 DEF Midnight
<1> QED BY <1>1, <1>2, <1>3, <1>4, <1>5, <1>6, <1>7, <1>8, <1>9, <1>10, <1>11 DEF Next

\* Setting the limits needs that they were never set, and modifying them uses up a nonce.
LEMMA LimitChanges ==
  ASSUME tierLimitNonce \in Nat,
         NEW l, SetTierLimits(l) \/ ModifyTierLimits(l)
  PROVE  /\ tierLimitsInitialized'
         /\ \/ ~tierLimitsInitialized /\ tierLimitNonce' = tierLimitNonce
            \/ tierLimitNonce' = tierLimitNonce + 1
         /\ tierLimitNonce' \in Nat
  BY DEF SetTierLimits, ModifyTierLimits

\* What a call of the account to itself does to the limits.
LEMMA CallsChangeLimits ==
  ASSUME RunCall
  PROVE  /\ frame # NoFrame /\ UNCHANGED saved
         /\ UNCHANGED tierVars \/ \E l : SetTierLimits(l) \/ ModifyTierLimits(l)
  BY DEF RunCall

\* Every step keeps what a reverted frame goes back to.
LEMMA NextKeepsLimits == LimitsInv /\ [Next]_vars => LimitsInv'
<1> SUFFICES ASSUME LimitsInv, [Next]_vars PROVE LimitsInv' OBVIOUS
<1>1. BundleIsTyped' BY BundleStaysTyped DEF LimitsInv
<1>2. CASE UNCHANGED <<tierVars, frame, saved>> BY <1>1, <1>2 DEF LimitsInv, tierVars
<1>3. CASE Opens /\ UNCHANGED tierVars
  <2>1. saved' = Revertible BY <1>3 DEF Opens, OpenFrame
  <2>2. /\ saved'.tierLimitNonce = tierLimitNonce
        /\ saved'.tierLimitsInitialized = tierLimitsInitialized
        /\ saved'.tier1Limit = tier1Limit /\ saved'.tier2Limit = tier2Limit
    BY <2>1 DEF Revertible
  <2> QED BY <1>1, <1>3, <2>2 DEF LimitsInv, tierVars
<1>4. CASE RunCall
  <2>1. CASE UNCHANGED tierVars
    BY <1>1, <1>4, <2>1, CallsChangeLimits DEF LimitsInv, tierVars
  <2>2. ASSUME NEW l, SetTierLimits(l) \/ ModifyTierLimits(l) PROVE LimitsInv'
    BY <1>1, <1>4, <2>2, CallsChangeLimits, LimitChanges DEF LimitsInv
  <2> QED BY <1>4, <2>1, <2>2, CallsChangeLimits
<1>5. CASE frame' = NoFrame /\ UNCHANGED tierVars BY <1>1, <1>5 DEF LimitsInv, tierVars
<1>6. CASE Revert
  <2>1. frame # NoFrame /\ frame' = NoFrame /\ tierLimitNonce' = saved.tierLimitNonce
    BY <1>6 DEF Revert
  <2> QED BY <1>1, <2>1 DEF LimitsInv
<1>7. ASSUME frame' = NoFrame, NEW l, SetTierLimits(l) \/ ModifyTierLimits(l) PROVE LimitsInv'
  BY <1>1, <1>7, LimitChanges DEF LimitsInv
<1> QED BY <1>2, <1>3, <1>4, <1>5, <1>6, <1>7, LimitStepKinds DEF LimitsInv

\* Limits that were set move only with a nonce.
LEMMA LimitsNeedGuardians ==
  ASSUME LimitsInv, [Next]_vars, tierLimitsInitialized, tierLimitsInitialized',
         <<tier1Limit, tier2Limit>>' # <<tier1Limit, tier2Limit>>
  PROVE  tierLimitNonce' # tierLimitNonce
<1>1. ASSUME NEW l, SetTierLimits(l) \/ ModifyTierLimits(l) PROVE tierLimitNonce' # tierLimitNonce
  BY <1>1, LimitChanges DEF LimitsInv
<1>2. ~UNCHANGED tierVars BY DEF tierVars
<1>3. CASE Revert
  <2>1. /\ frame # NoFrame /\ saved.tierLimitsInitialized
        /\ tierLimitNonce' = saved.tierLimitNonce
        /\ tier1Limit' = saved.tier1Limit /\ tier2Limit' = saved.tier2Limit
    BY <1>3 DEF Revert
  <2> QED BY <2>1 DEF LimitsInv
<1> QED BY <1>1, <1>2, <1>3, LimitStepKinds, CallsChangeLimits DEF LimitsInv

(***************************************************************************)
(* Tokens.                                                                 *)
(***************************************************************************)
TokensAreTyped ==
  /\ tokenConfigs \in [Token -> TokenConfig]
  /\ tokenDailySpent \in [Token -> Nat]
  /\ tokenMoved \in [Token -> [Tier -> Nat]]

\* Tiers of a token are counted against a daily cap.
TiersAreCapped == \A t \in Token : HasTiers(tokenConfigs[t]) => tokenConfigs[t].dailyLimit > 0

\* Of a configured token at least what moved is recorded.  More is, when it had another
\* configuration before on the same day.
TokensAreRecorded ==
  guarded => \A t \in Token :
    tokenConfigs[t] # Unconfigured => Total(tokenMoved[t]) <= tokenDailySpent[t]

SavedTokensAreEarlier ==
  frame # NoFrame =>
    /\ saved.tokenDailySpent \in [Token -> Nat]
    /\ saved.tokenMoved \in [Token -> [Tier -> Nat]]
    /\ \A t \in Token, k \in Tier : saved.tokenMoved[t][k] <= tokenMoved[t][k]
    /\ guarded => \A t \in Token :
         tokenConfigs[t] # Unconfigured => Total(saved.tokenMoved[t]) <= saved.tokenDailySpent[t]

TokenFacts == TokensAreTyped /\ TiersAreCapped /\ TokensAreRecorded /\ SavedTokensAreEarlier
TokenInv == BundleIsTyped /\ FrameIsTyped /\ TokenFacts

tokenFrame == <<tokenConfigs, tokenDailySpent, tokenMoved, guarded, frame, saved>>

\* The steps, by what they do to tokens.
LEMMA TokenStepKinds ==
  ASSUME BundleIsTyped, [Next]_vars
  PROVE  \/ UNCHANGED tokenFrame
         \/ Opens /\ UNCHANGED <<tokenConfigs, tokenDailySpent, tokenMoved, guarded>>
         \/ RunCall
         \/ frame' = NoFrame /\ UNCHANGED <<tokenConfigs, tokenDailySpent, tokenMoved, guarded>>
         \/ Revert
         \/ \E t \in Token, c \in TokenSettings :
              GuardAddTokenConfig(t, c) \/ GuardDecreaseTokenDailyLimit(t, c.dailyLimit)
         \/ Midnight
<1> USE DEF tokenFrame, guardVars, tokenVars
<1>1. CASE UNCHANGED vars BY <1>1 DEF vars
<1>2. ASSUME NEW op, HandleOps(op) PROVE UNCHANGED tokenFrame BY <1>2 DEF HandleOps
<1>3. CASE ValidateUserOp \/ HandleOpsReverts \/ RevertAtEntry
  BY <1>3 DEF ValidateUserOp, HandleOpsReverts, RevertAtEntry
<1>4. CASE ExecuteUserOp BY <1>4, UserOpsOpenFrames DEF ExecuteUserOp
<1>5. ASSUME NEW calls \in DirectCalls, ExecuteByOwner(calls) \/ ExecuteFromExecutor(calls)
      PROVE  Opens /\ UNCHANGED <<tokenConfigs, tokenDailySpent, tokenMoved, guarded>>
  BY <1>5, OwnerOpensFrames DEF ExecuteByOwner, ExecuteFromExecutor
<1>6. ASSUME NEW l, ChangeTierLimits(l) PROVE UNCHANGED tokenFrame BY <1>6 DEF ChangeTierLimits
<1>7. ASSUME NEW x, GuardApproveAlgorithm(x) \/ ChangePolicy(x) PROVE UNCHANGED tokenFrame
  BY <1>7 DEF GuardApproveAlgorithm, ChangePolicy
<1>8. ASSUME NEW x, GuardSetStrictMode(x) \/ GuardDecreaseDailyLimit(x) PROVE UNCHANGED tokenFrame
  BY <1>8 DEF GuardSetStrictMode, GuardDecreaseDailyLimit, ConfigureGuard, SetStrictMode,
       DecreaseDailyLimit
<1>9. ASSUME NEW amount, WithdrawDepositTo(amount) PROVE UNCHANGED tokenFrame
  <2> DEFINE call == [eth |-> amount, token |-> NoToken]
  <2>1. EnforceGuard(call, 1) /\ UNCHANGED <<configVars, guarded, frame, saved>>
    BY <1>9 DEF WithdrawDepositTo
  <2>2. call.token = NoToken OBVIOUS
  <2> HIDE DEF call
  <2>3. UNCHANGED <<tokenDailySpent, tokenMoved>> BY <2>1, <2>2 DEF EnforceGuard
  <2> QED BY <2>1, <2>3 DEF configVars
<1>10. CASE Return BY <1>10 DEF Return
<1> QED BY <1>1, <1>2, <1>3, <1>4, <1>5, <1>6, <1>7, <1>8, <1>9, <1>10 DEF Next

\* What a payment in a token does.
LEMMA TokenPayments ==
  ASSUME TokensAreTyped, TiersAreCapped, TokensAreRecorded,
         NEW call, call.token \in Token, call.amount \in Nat,
         NEW tier \in Tier, EnforceGuard(call, tier), UNCHANGED <<tokenConfigs, guarded>>
  PROVE  /\ TokensAreTyped' /\ TokensAreRecorded'
         /\ \A t \in Token, k \in Tier :
              /\ tokenMoved[t][k] <= tokenMoved'[t][k]
              /\ guarded /\ tokenMoved'[t][k] > tokenMoved[t][k] =>
                   /\ HasTiers(tokenConfigs[t]) =>
                        RequiredTokenTier(tokenConfigs[t], Total(tokenMoved'[t])) <= k
                   /\ tokenConfigs[t].dailyLimit > 0 =>
                        Total(tokenMoved'[t]) <= tokenConfigs[t].dailyLimit
<1> DEFINE token == call.token
           amount == call.amount
           c == tokenConfigs[token]
           spent == tokenDailySpent[token]
           day == Total(tokenMoved'[token])
<1>1. /\ guarded => RecordTokenSpend(token, amount, tier) \/ UNCHANGED tokenDailySpent
      /\ ~guarded => UNCHANGED tokenDailySpent
      /\ \/ UNCHANGED tokenMoved /\ UNCHANGED tokenDailySpent
         \/ /\ tokenMoved' = [tokenMoved EXCEPT ![token][tier] = @ + amount]
            /\ guarded => RecordTokenSpend(token, amount, tier)
  BY DEF EnforceGuard
<1>2. CASE UNCHANGED <<tokenMoved, tokenDailySpent>>
  BY <1>2 DEF TokensAreTyped, TokensAreRecorded
<1>3. CASE /\ tokenMoved' = [tokenMoved EXCEPT ![token][tier] = @ + amount]
           /\ guarded => RecordTokenSpend(token, amount, tier)
  <2>1. /\ token \in Token /\ amount \in Nat /\ c \in TokenConfig /\ spent \in Nat
        /\ tokenMoved[token] \in [Tier -> Nat]
    BY DEF TokensAreTyped
  <2>2. tokenMoved' \in [Token -> [Tier -> Nat]] BY <1>3, <2>1 DEF TokensAreTyped
  <2>3. /\ tokenMoved'[token] = [tokenMoved[token] EXCEPT ![tier] = @ + amount]
        /\ \A t \in Token : t # token => tokenMoved'[t] = tokenMoved[t]
    BY <1>3, <2>1 DEF TokensAreTyped
  <2>4. day = Total(tokenMoved[token]) + amount /\ Total(tokenMoved[token]) \in Nat
    <3>1. \A k \in Tier : /\ tokenMoved[token][k] \in Nat
                          /\ tokenMoved'[token][k] = IF k = tier THEN tokenMoved[token][k] + amount
                                                     ELSE tokenMoved[token][k]
      BY <2>1, <2>3
    <3>2. Tier = {0, 1, 2, 3} BY DEF Tier
    <3> QED BY <2>1, <3>1, <3>2 DEF Total
  <2> HIDE DEF token, amount, c, spent, day
  <2>5. \A t \in Token, k \in Tier :
          /\ tokenMoved[t][k] <= tokenMoved'[t][k]
          /\ tokenMoved'[t][k] > tokenMoved[t][k] => t = token /\ k = tier /\ amount > 0
    <3> SUFFICES ASSUME NEW t \in Token, NEW k \in Tier
                 PROVE  /\ tokenMoved[t][k] <= tokenMoved'[t][k]
                        /\ tokenMoved'[t][k] > tokenMoved[t][k] =>
                             t = token /\ k = tier /\ amount > 0
      OBVIOUS
    <3>1. tokenMoved[t][k] \in Nat BY DEF TokensAreTyped
    <3>2. CASE t # token BY <2>3, <3>1, <3>2
    <3>3. CASE t = token
      <4>1. tokenMoved'[t][k] = IF k = tier THEN tokenMoved[t][k] + amount ELSE tokenMoved[t][k]
        BY <2>1, <2>3, <3>3
      <4> QED BY <2>1, <3>1, <3>3, <4>1
    <3> QED BY <3>2, <3>3
  <2>6. ASSUME guarded, c # Unconfigured
        PROVE  /\ tokenDailySpent' \in [Token -> Nat]
               /\ day <= tokenDailySpent'[token]
               /\ \A t \in Token : t # token => tokenDailySpent'[t] = tokenDailySpent[t]
               /\ amount > 0 =>
                    /\ HasTiers(c) => RequiredTokenTier(c, day) <= tier
                    /\ c.dailyLimit > 0 => day <= c.dailyLimit
    <3>1. Total(tokenMoved[token]) <= spent
      BY <2>1, <2>6 DEF TokensAreRecorded, c, spent
    <3>2. c.dailyLimit \in Nat /\ c.tier1Limit \in Nat /\ c.tier2Limit \in Nat /\ c.dailyLimit > 0
      <4>1. /\ c = [tier1Limit |-> c.tier1Limit, tier2Limit |-> c.tier2Limit,
                    dailyLimit |-> c.dailyLimit]
            /\ c.dailyLimit \in Nat /\ c.tier1Limit \in Nat /\ c.tier2Limit \in Nat
        BY <2>1 DEF TokenConfig
      <4>2. HasTiers(c) => c.dailyLimit > 0 BY <2>1 DEF TiersAreCapped, c
      <4>3. CASE c.dailyLimit = 0
        <5>1. c.tier1Limit = 0 /\ c.tier2Limit = 0 BY <4>1, <4>2, <4>3 DEF HasTiers
        <5> QED BY <2>6, <4>1, <4>3, <5>1 DEF Unconfigured
      <4> QED BY <4>1, <4>3
    <3>3. /\ HasTiers(c) => RequiredTokenTier(c, spent + amount) <= tier
          /\ IF amount > 0
               THEN /\ amount <= Remaining(c.dailyLimit, spent)
                    /\ tokenDailySpent' = [tokenDailySpent EXCEPT ![token] = spent + amount]
               ELSE UNCHANGED tokenDailySpent
      BY <1>3, <2>6, <3>2 DEF RecordTokenSpend, c, spent
    <3>4. CASE amount > 0
      <4>1. /\ tokenDailySpent' \in [Token -> Nat] /\ tokenDailySpent'[token] = spent + amount
            /\ \A t \in Token : t # token => tokenDailySpent'[t] = tokenDailySpent[t]
        BY <2>1, <3>3, <3>4 DEF TokensAreTyped
      <4>2. day <= spent + amount BY <2>1, <2>4, <3>1
      <4>3. spent + amount <= c.dailyLimit BY <2>1, <3>2, <3>3, <3>4 DEF Remaining
      <4>4. day <= c.dailyLimit BY <2>1, <2>4, <3>2, <4>2, <4>3
      <4>5. RequiredTokenTier(c, day) <= RequiredTokenTier(c, spent + amount)
            /\ RequiredTokenTier(c, day) \in Nat /\ RequiredTokenTier(c, spent + amount) \in Nat
        BY <2>1, <2>4, <3>2, <4>2 DEF RequiredTokenTier
      <4>6. HasTiers(c) => RequiredTokenTier(c, day) <= tier BY <3>3, <4>5 DEF Tier
      <4> QED BY <4>1, <4>2, <4>4, <4>6
    <3>5. CASE amount = 0
      <4>1. tokenDailySpent' = tokenDailySpent BY <3>3, <3>5
      <4>2. day <= spent BY <2>4, <3>1, <3>5
      <4> QED BY <3>5, <4>1, <4>2 DEF TokensAreTyped, spent
    <3> QED BY <2>1, <3>4, <3>5
  <2>7. ASSUME ~(guarded /\ c # Unconfigured)
        PROVE  UNCHANGED tokenDailySpent
    BY <1>1, <1>3, <2>7 DEF RecordTokenSpend, c
  <2>8. TokensAreTyped' BY <2>2, <2>6, <2>7 DEF TokensAreTyped
  <2>9. TokensAreRecorded'
    <3> SUFFICES ASSUME guarded, NEW t \in Token, tokenConfigs[t] # Unconfigured
                 PROVE  Total(tokenMoved'[t]) <= tokenDailySpent'[t]
      BY DEF TokensAreRecorded
    <3>1. CASE t = token BY <2>6, <3>1 DEF c, day
    <3>2. CASE t # token
      <4>1. tokenMoved'[t] = tokenMoved[t] /\ tokenDailySpent'[t] = tokenDailySpent[t]
        BY <2>3, <2>6, <2>7, <3>2
      <4> QED BY <4>1 DEF TokensAreRecorded
    <3> QED BY <3>1, <3>2
  <2>10. Unconfigured.dailyLimit = 0 /\ ~HasTiers(Unconfigured) BY DEF Unconfigured, HasTiers
  <2>11. ASSUME NEW t \in Token, NEW k \in Tier, guarded, tokenMoved'[t][k] > tokenMoved[t][k]
         PROVE  /\ HasTiers(tokenConfigs[t]) =>
                     RequiredTokenTier(tokenConfigs[t], Total(tokenMoved'[t])) <= k
                /\ tokenConfigs[t].dailyLimit > 0 =>
                     Total(tokenMoved'[t]) <= tokenConfigs[t].dailyLimit
    <3>1. t = token /\ k = tier /\ amount > 0 BY <2>5, <2>11
    <3>2. CASE c = Unconfigured BY <2>10, <3>1, <3>2 DEF c
    <3>3. CASE c # Unconfigured BY <2>6, <2>11, <3>1, <3>3 DEF c, day
    <3> QED BY <3>2, <3>3
  <2> QED BY <2>5, <2>8, <2>9, <2>11
<1> QED BY <1>1, <1>2, <1>3

\* A call of a frame moves a token, or none.
LEMMA CallsMoveTokens ==
  ASSUME FrameIsTyped, RunCall
  PROVE  /\ frame # NoFrame /\ UNCHANGED <<tokenConfigs, guarded, saved>>
         /\ frame.tier \in Tier
         /\ \/ UNCHANGED <<tokenMoved, tokenDailySpent>>
            \/ \E call : call.token \in Token /\ call.amount \in Nat /\ EnforceGuard(call, frame.tier)
<1> DEFINE call == Head(frame.calls)
<1>1. frame # NoFrame /\ frame.calls # <<>> /\ EnforceGuard(call, frame.tier)
  BY DEF RunCall
<1>2. UNCHANGED <<tokenConfigs, guarded, saved>> BY DEF RunCall, configVars
<1>3. call \in Call BY <1>1 DEF FrameIsTyped
<1>4. call.token \in Token \cup {NoToken} /\ call.amount \in Nat BY <1>3 DEF Call
<1> HIDE DEF call
<1>5. CASE call.token = NoToken
  <2>1. UNCHANGED <<tokenMoved, tokenDailySpent>> BY <1>1, <1>5 DEF EnforceGuard
  <2> QED BY <1>1, <1>2, <2>1 DEF FrameIsTyped
<1>6. CASE call.token \in Token BY <1>1, <1>2, <1>4, <1>6 DEF FrameIsTyped
<1> QED BY <1>4, <1>5, <1>6

\* A new account has moved no token, and its tokens are configured coherently.
LEMMA InitTokens == Init => TokenInv
<1> SUFFICES ASSUME Init PROVE TokenInv OBVIOUS
<1>1. Unconfigured \in TokenConfig /\ ~HasTiers(Unconfigured) BY DEF Unconfigured, TokenConfig, HasTiers
<1>2. /\ \A t \in Token : /\ tokenConfigs[t] \in TokenConfig
                          /\ HasTiers(tokenConfigs[t]) => tokenConfigs[t].dailyLimit > 0
      /\ tokenConfigs \in [Token -> TokenConfig]
      /\ tokenDailySpent = [t \in Token |-> 0]
  <2>1. CASE GuardInit
    <3>1. tokenConfigs \in [Token -> {c \in TokenSettings : CoherentTokenConfig(c)} \cup {Unconfigured}]
      BY <2>1 DEF GuardInit
    <3>2. \A c \in TokenSettings : c \in TokenConfig BY SettingsAreConfigs
    <3>3. ASSUME NEW t \in Token
          PROVE  /\ tokenConfigs[t] \in TokenConfig
                 /\ HasTiers(tokenConfigs[t]) => tokenConfigs[t].dailyLimit > 0
      BY <1>1, <3>1, <3>2 DEF CoherentTokenConfig
    <3>4. tokenConfigs \in [Token -> TokenConfig] BY <3>1, <3>3
    <3> QED BY <2>1, <3>3, <3>4 DEF GuardInit
  <2>2. CASE NoGuard BY <1>1, <2>2 DEF NoGuard
  <2> QED BY <2>1, <2>2 DEF Init
<1>3. tokenMoved = [t \in Token |-> Nothing] BY DEF Init
<1>4. Nothing \in [Tier -> Nat] /\ Total(Nothing) = 0 BY DEF Nothing, Total, Tier
<1>5. TokensAreTyped BY <1>2, <1>3, <1>4 DEF TokensAreTyped
<1>6. TokensAreRecorded BY <1>2, <1>3, <1>4 DEF TokensAreRecorded
<1>7. frame = NoFrame /\ BundleIsTyped BY DEF Init, BundleIsTyped
<1> QED BY <1>2, <1>5, <1>6, <1>7
     DEF TokenInv, TokenFacts, TiersAreCapped, FrameIsTyped, SavedTokensAreEarlier

\* A token gets its configuration, or a lower cap, between transactions.
LEMMA ConfiguringKeepsTokenFacts ==
  ASSUME TokenFacts, NEW t \in Token, NEW c \in TokenSettings,
         GuardAddTokenConfig(t, c) \/ GuardDecreaseTokenDailyLimit(t, c.dailyLimit)
  PROVE  TokenFacts'
<1> USE DEF TokenFacts
<1>1. frame' = NoFrame /\ guarded' = guarded /\ tokenDailySpent' = tokenDailySpent
  BY DEF GuardAddTokenConfig, GuardDecreaseTokenDailyLimit, ConfigureGuard, AddTokenConfig,
     DecreaseTokenDailyLimit, Idle
<1>2. c \in TokenConfig /\ c.dailyLimit \in Nat
  <2>1. c \in TokenConfig BY SettingsAreConfigs
  <2> QED BY <2>1 DEF TokenConfig
<1>3. CASE GuardAddTokenConfig(t, c)
  <2>1. /\ tokenConfigs' = [tokenConfigs EXCEPT ![t] = c]
        /\ tokenMoved' = [tokenMoved EXCEPT ![t] = Nothing]
        /\ CoherentTokenConfig(c)
    BY <1>3 DEF GuardAddTokenConfig, ConfigureGuard, AddTokenConfig
  <2>2. Nothing \in [Tier -> Nat] /\ Total(Nothing) = 0 BY DEF Nothing, Total, Tier
  <2>3. TokensAreTyped' BY <1>1, <1>2, <2>1, <2>2 DEF TokensAreTyped
  <2>4. TiersAreCapped' BY <2>1 DEF TiersAreCapped, TokensAreTyped, CoherentTokenConfig
  <2>5. TokensAreRecorded'
    <3> SUFFICES ASSUME guarded, NEW u \in Token, tokenConfigs'[u] # Unconfigured
                 PROVE  Total(tokenMoved'[u]) <= tokenDailySpent[u]
      BY <1>1 DEF TokensAreRecorded
    <3>1. CASE u = t BY <2>1, <2>2, <3>1 DEF TokensAreTyped
    <3>2. CASE u # t
      <4>1. tokenMoved'[u] = tokenMoved[u] /\ tokenConfigs'[u] = tokenConfigs[u]
        BY <2>1, <3>2 DEF TokensAreTyped
      <4> QED BY <4>1 DEF TokensAreRecorded
    <3> QED BY <3>1, <3>2
  <2> QED BY <1>1, <2>3, <2>4, <2>5 DEF SavedTokensAreEarlier
<1>4. CASE GuardDecreaseTokenDailyLimit(t, c.dailyLimit)
  <2> DEFINE old == tokenConfigs[t]
             limit == c.dailyLimit
             new == [tier1Limit |-> old.tier1Limit, tier2Limit |-> old.tier2Limit,
                     dailyLimit |-> limit]
  <2>1. /\ tokenConfigs' = [tokenConfigs EXCEPT ![t].dailyLimit = limit]
        /\ tokenMoved' = tokenMoved
        /\ limit < old.dailyLimit
        /\ limit = 0 => ~HasTiers(old)
    BY <1>4 DEF GuardDecreaseTokenDailyLimit, ConfigureGuard, DecreaseTokenDailyLimit
  <2>2. old \in TokenConfig BY DEF TokensAreTyped
  <2>3. /\ tokenConfigs' = [tokenConfigs EXCEPT ![t] = new]
        /\ new \in TokenConfig
    <3>1. new \in TokenConfig BY <1>2, <2>2 DEF TokenConfig
    <3>2. [old EXCEPT !.dailyLimit = limit] = new BY <2>2 DEF TokenConfig
    <3>3. tokenConfigs' = [tokenConfigs EXCEPT ![t] = [old EXCEPT !.dailyLimit = limit]]
      BY <2>1
    <3> QED BY <3>1, <3>2, <3>3
  <2>4. HasTiers(new) => limit > 0
    <3>1. new.tier1Limit = old.tier1Limit /\ new.tier2Limit = old.tier2Limit OBVIOUS
    <3>2. HasTiers(new) <=> HasTiers(old) BY <3>1 DEF HasTiers
    <3> QED BY <1>2, <2>1, <3>2
  <2>5. old # Unconfigured BY <1>2, <2>1 DEF Unconfigured
  <2>6. new.dailyLimit = limit OBVIOUS
  <2> HIDE DEF new
  <2>7. TokensAreTyped' BY <1>1, <2>1, <2>3 DEF TokensAreTyped
  <2>8. TiersAreCapped' BY <2>3, <2>4, <2>6 DEF TiersAreCapped, TokensAreTyped
  <2>9. TokensAreRecorded' BY <1>1, <2>1, <2>3, <2>5 DEF TokensAreRecorded, TokensAreTyped
  <2> QED BY <1>1, <2>7, <2>8, <2>9 DEF SavedTokensAreEarlier
<1> QED BY <1>3, <1>4

\* Every step keeps the record of a token at least as large as what moved.
LEMMA NextKeepsTokens == TokenInv /\ [Next]_vars => TokenInv'
<1> SUFFICES ASSUME TokenInv, [Next]_vars PROVE TokenFacts'
  BY BundleStaysTyped, FrameStaysTyped DEF TokenInv
<1> USE DEF TokenInv, TokenFacts
<1>1. CASE UNCHANGED tokenFrame
  BY <1>1 DEF tokenFrame, TokensAreTyped, TiersAreCapped, TokensAreRecorded, SavedTokensAreEarlier
<1>2. CASE Opens /\ UNCHANGED <<tokenConfigs, tokenDailySpent, tokenMoved, guarded>>
  <2>1. saved' = Revertible BY <1>2 DEF Opens, OpenFrame
  <2>2. saved'.tokenDailySpent = tokenDailySpent /\ saved'.tokenMoved = tokenMoved
    BY <2>1 DEF Revertible
  <2>3. TokensAreTyped' /\ TiersAreCapped' /\ TokensAreRecorded'
    BY <1>2 DEF TokensAreTyped, TiersAreCapped, TokensAreRecorded
  <2>4. \A t \in Token, k \in Tier : tokenMoved[t][k] <= tokenMoved[t][k]
    BY DEF TokensAreTyped
  <2>5. SavedTokensAreEarlier'
    BY <1>2, <2>2, <2>3, <2>4 DEF SavedTokensAreEarlier, TokensAreTyped, TokensAreRecorded
  <2> QED BY <2>3, <2>5
<1>3. CASE RunCall
  <2>1. frame # NoFrame /\ UNCHANGED <<tokenConfigs, guarded, saved>> /\ frame.tier \in Tier
    BY <1>3, CallsMoveTokens
  <2>2. TiersAreCapped' BY <2>1 DEF TiersAreCapped
  <2>3. CASE UNCHANGED <<tokenMoved, tokenDailySpent>>
    BY <2>1, <2>2, <2>3 DEF TokensAreTyped, TokensAreRecorded, SavedTokensAreEarlier
  <2>4. ASSUME NEW call, call.token \in Token, call.amount \in Nat, EnforceGuard(call, frame.tier)
        PROVE  TokenFacts'
    <3>1. /\ TokensAreTyped' /\ TokensAreRecorded'
          /\ \A t \in Token, k \in Tier : tokenMoved[t][k] <= tokenMoved'[t][k]
      BY <2>1, <2>4, TokenPayments
    <3>2. ASSUME NEW t \in Token, NEW k \in Tier PROVE saved.tokenMoved[t][k] <= tokenMoved'[t][k]
      <4>1. /\ saved.tokenMoved[t][k] \in Nat /\ tokenMoved[t][k] \in Nat
            /\ tokenMoved'[t][k] \in Nat
        BY <2>1, <3>1 DEF SavedTokensAreEarlier, TokensAreTyped
      <4>2. saved.tokenMoved[t][k] <= tokenMoved[t][k] BY <2>1 DEF SavedTokensAreEarlier
      <4>3. tokenMoved[t][k] <= tokenMoved'[t][k] BY <3>1
      <4> QED BY <4>1, <4>2, <4>3
    <3> QED BY <2>1, <2>2, <3>1, <3>2 DEF SavedTokensAreEarlier
  <2> QED BY <1>3, <2>3, <2>4, CallsMoveTokens
<1>4. CASE frame' = NoFrame /\ UNCHANGED <<tokenConfigs, tokenDailySpent, tokenMoved, guarded>>
  BY <1>4 DEF TokensAreTyped, TiersAreCapped, TokensAreRecorded, SavedTokensAreEarlier
<1>5. CASE Revert
  <2>1. /\ frame # NoFrame /\ frame' = NoFrame /\ UNCHANGED <<tokenConfigs, guarded>>
        /\ tokenDailySpent' = saved.tokenDailySpent /\ tokenMoved' = saved.tokenMoved
    BY <1>5 DEF Revert, configVars
  <2> QED BY <2>1 DEF TokensAreTyped, TiersAreCapped, TokensAreRecorded, SavedTokensAreEarlier
<1>6. CASE Midnight
  <2>1. /\ tokenMoved' = [t \in Token |-> Nothing] /\ tokenDailySpent' = [t \in Token |-> 0]
        /\ frame' = NoFrame /\ tokenConfigs' = tokenConfigs /\ guarded' = guarded
    BY <1>6 DEF Midnight, NewDay, Idle
  <2>2. Nothing \in [Tier -> Nat] /\ Total(Nothing) = 0 BY DEF Nothing, Total, Tier
  <2> QED BY <2>1, <2>2 DEF TokensAreTyped, TiersAreCapped, TokensAreRecorded, SavedTokensAreEarlier
<1> QED BY <1>1, <1>2, <1>3, <1>4, <1>5, <1>6, TokenStepKinds, ConfiguringKeepsTokenFacts

\* A step that moves a token stays within what the token's tier and cap allow.
LEMMA TokensStayInTheirTier ==
  ASSUME TokenInv, [Next]_vars, NEW t \in Token, NEW k \in Tier, guarded,
         tokenMoved'[t][k] > tokenMoved[t][k]
  PROVE  /\ HasTiers(tokenConfigs[t]) =>
              RequiredTokenTier(tokenConfigs[t], Total(tokenMoved'[t])) <= k
         /\ tokenConfigs[t].dailyLimit > 0 =>
              Total(tokenMoved'[t]) <= tokenConfigs[t].dailyLimit
<1> USE DEF TokenInv, TokenFacts
<1>1. tokenMoved[t][k] \in Nat /\ tokenMoved'[t][k] \in Nat
  BY NextKeepsTokens DEF TokensAreTyped
<1>2. ~(tokenMoved'[t][k] <= tokenMoved[t][k]) BY <1>1
<1>3. tokenMoved' # tokenMoved BY <1>1
<1>4. ~Revert
  <2> SUFFICES ASSUME Revert PROVE FALSE OBVIOUS
  <2>1. frame # NoFrame /\ tokenMoved' = saved.tokenMoved BY DEF Revert
  <2> QED BY <1>2, <2>1 DEF SavedTokensAreEarlier
<1>5. ~Midnight
  <2> SUFFICES ASSUME Midnight PROVE FALSE OBVIOUS
  <2>1. tokenMoved'[t][k] = 0 BY DEF Midnight, Nothing
  <2> QED BY <1>1, <1>2, <2>1
<1>6. ASSUME NEW u \in Token, NEW c,
             GuardAddTokenConfig(u, c) \/ GuardDecreaseTokenDailyLimit(u, c.dailyLimit)
      PROVE  FALSE
  <2>1. tokenMoved' = tokenMoved \/ tokenMoved' = [tokenMoved EXCEPT ![u] = Nothing]
    BY <1>6 DEF GuardAddTokenConfig, GuardDecreaseTokenDailyLimit
  <2>2. tokenMoved'[t] = tokenMoved[t] \/ tokenMoved'[t] = Nothing BY <2>1 DEF TokensAreTyped
  <2>3. Nothing[k] = 0 BY DEF Nothing
  <2> QED BY <1>1, <1>2, <2>2, <2>3
<1>7. RunCall BY <1>3, <1>4, <1>5, <1>6, TokenStepKinds DEF tokenFrame
<1>8. UNCHANGED <<tokenConfigs, guarded>> /\ frame.tier \in Tier BY <1>7, CallsMoveTokens
<1>9. PICK call : call.token \in Token /\ call.amount \in Nat /\ EnforceGuard(call, frame.tier)
  BY <1>3, <1>7, CallsMoveTokens
<1> QED BY <1>8, <1>9, TokenPayments

(***************************************************************************)
(* Slots: the authentication of an operation, from its validation to its   *)
(* execution.                                                              *)
(***************************************************************************)
Slot == [alg : Alg, weight : UInt8]
StoredPolicy == Policies \cup {Unset}

BundleFacts ==
  /\ bundle \in Seq(UserOps)
  /\ validated \in 0 .. Len(bundle) /\ executed \in 0 .. validated
  /\ weightConfig \in StoredPolicy /\ bundlePolicy \in StoredPolicy
  /\ slots \in [Keys -> Slot]
  /\ frame # NoFrame =>
       /\ validated = Len(bundle)
       /\ saved.weightConfig \in StoredPolicy /\ saved.bundlePolicy \in StoredPolicy
       /\ saved.slots \in [Keys -> Slot]

\* What a validated operation with a validator module may claim.
Capped(op) == op.module => op.alg # "weighted" /\ AlgTier(op.alg) <= 1
ModulesAreCapped == \A i \in 1 .. validated : Capped(bundle[i])

\* No call runs between two validations, so the policy stands still.
ValidatedUnderOnePolicy == validated < Len(bundle) => weightConfig = bundlePolicy

\* Nothing is stamped before the first validation.
FreshSlots ==
  validated = 0 => slots = EmptySlots /\ (frame # NoFrame => saved.slots = EmptySlots)

\* What a slot is worth is no more than what an operation with its calls has proved.
Earned(b, policy, k, slot) ==
  \/ SlotTier(policy, slot) = 0
  \/ \E i \in DOMAIN b : SameCalls(b[i], k) /\ SlotTier(policy, slot) <= ProvenTier(policy, b[i])
AllEarned(b, policy, s) == \A k \in Keys : ~k.wrapped => Earned(b, policy, k, s[k])

\* So it is as long as the policy stands still, also where a revert goes back to.
SlotsAreEarned ==
  /\ weightConfig = bundlePolicy => AllEarned(bundle, bundlePolicy, slots)
  /\ frame # NoFrame /\ saved.weightConfig = saved.bundlePolicy =>
       AllEarned(bundle, saved.bundlePolicy, saved.slots)

SlotInv ==
  BundleFacts /\ ModulesAreCapped /\ ValidatedUnderOnePolicy /\ FreshSlots /\ SlotsAreEarned

\* An operation is a record of its fields, and has two keys.
LEMMA OpsHaveKeys ==
  ASSUME NEW op \in UserOps
  PROVE  /\ op \in UserOp
         /\ CallData(op) \in Keys /\ InnerData(op) \in Keys
         /\ ~InnerData(op).wrapped
         /\ ~op.wrapped => CallData(op) = InnerData(op)
         /\ CallData(op).wrapped = op.wrapped
         /\ SameCalls(op, CallData(op)) /\ SameCalls(op, InnerData(op))
<1>1. op \in UserOp BY OpsAreUserOps
<1>2. CallData(op) \in Keys /\ InnerData(op) \in Keys BY DEF Keys
<1>3. CallData(op) = [wrapped |-> op.wrapped, batch |-> op.batch, calls |-> op.calls]
  BY DEF CallData
<1>4. InnerData(op) = [wrapped |-> FALSE, batch |-> op.batch, calls |-> op.calls]
  <2>1. ASSUME NEW w, NEW b, NEW c, NEW v
        PROVE  [[wrapped |-> w, batch |-> b, calls |-> c] EXCEPT !.wrapped = v]
                 = [wrapped |-> v, batch |-> b, calls |-> c]
    OBVIOUS
  <2>2. InnerData(op) = [[wrapped |-> op.wrapped, batch |-> op.batch, calls |-> op.calls]
                           EXCEPT !.wrapped = FALSE]
    BY <1>3, Zenon DEF InnerData
  <2> QED BY <2>1, <2>2, Zenon
<1>5. op.wrapped \in BOOLEAN BY <1>1 DEF UserOp
<1>6. SameCalls(op, CallData(op)) BY <1>3 DEF SameCalls
<1>7. SameCalls(op, InnerData(op)) /\ ~InnerData(op).wrapped BY <1>4 DEF SameCalls
<1>8. ~op.wrapped => CallData(op) = InnerData(op)
  <2> SUFFICES ASSUME ~op.wrapped PROVE CallData(op) = InnerData(op) OBVIOUS
  <2>1. op.wrapped = FALSE BY <1>5
  <2> QED BY <1>3, <1>4, <2>1
<1>9. CallData(op).wrapped = op.wrapped BY <1>3
<1> QED BY <1>1, <1>2, <1>6, <1>7, <1>8, <1>9

\* A stored policy is a weight configuration that no set of sources overflows.
LEMMA StoredPolicies ==
  ASSUME NEW c \in StoredPolicy, NEW B
  PROVE  c \in WeightConfig /\ Accumulated(c, B) \in UInt8 /\ ResolvedTier(c, 0) = 0
<1>1. c \in WeightConfig /\ Accumulated(c, Source) <= 255
  <2>1. CASE c \in Policies BY <2>1, PoliciesAreValid DEF ValidConfig
  <2>2. CASE c = Unset
    <3>1. Accumulated(Unset, Source) \in UInt8 BY UnsetSeparates DEF SeparatesFactors
    <3> QED BY <2>2, <3>1, UnsetSeparates DEF UInt8
  <2> QED BY <2>1, <2>2 DEF StoredPolicy
<1>2. Accumulated(c, B) \in UInt8 BY <1>1, AccumulatedFits
<1>3. ResolvedTier(c, 0) = 0 BY <1>1, ConfigFields DEF ResolvedTier
<1> QED BY <1>1, <1>2, <1>3

\* What a signature is worth as an algorithm is what it proves.
LEMMA AlgorithmsAreProven ==
  ASSUME NEW op, Capped(op), op.alg # "weighted", NEW c
  PROVE  ProvenTier(c, op) = AlgTier(op.alg)
<1>1. AlgTier(op.alg) \in 0 .. 3 BY DEF AlgTier
<1> QED BY <1>1 DEF ProvenTier, Capped

\* Validation stamps what the operation proves, or leaves the slot as it is.
LEMMA StampIsEarned ==
  ASSUME weightConfig \in StoredPolicy, slots \in [Keys -> Slot],
         NEW op \in UserOps, SignatureAccepted(op)
  PROVE  /\ Capped(op)
         /\ Stamped(op) \in Slot
         /\ IF op.alg = "none" THEN Stamped(op) = slots[CallData(op)]
            ELSE SlotTier(weightConfig, Stamped(op)) = ProvenTier(weightConfig, op)
<1>1. op.alg \in Alg /\ slots[CallData(op)] \in Slot BY OpsHaveKeys DEF UserOp
<1>2. Capped(op) BY DEF SignatureAccepted, Capped
<1>3. CASE op.alg = "none" BY <1>1, <1>2, <1>3 DEF Stamped
<1>4. CASE op.alg = "weighted"
  <2>1. Stamped(op) = [alg |-> "weighted", weight |-> Accumulated(weightConfig, op.by)]
    BY <1>4 DEF Stamped
  <2>2. Accumulated(weightConfig, op.by) \in UInt8 BY StoredPolicies
  <2>3. Stamped(op) \in Slot BY <1>1, <1>4, <2>1, <2>2 DEF Slot
  <2>4. ~op.module BY <1>2, <1>4 DEF Capped
  <2> QED BY <1>2, <1>4, <2>1, <2>3, <2>4 DEF SlotTier, ProvenTier, TierOf
<1>5. CASE op.alg \notin {"none", "weighted"}
  <2>1. Stamped(op) = [slots[CallData(op)] EXCEPT !.alg = op.alg] BY <1>5 DEF Stamped
  <2>2. Stamped(op) \in Slot /\ Stamped(op).alg = op.alg BY <1>1, <2>1 DEF Slot
  <2>3. SlotTier(weightConfig, Stamped(op)) = AlgTier(op.alg) BY <1>5, <2>2 DEF SlotTier
  <2> QED BY <1>2, <1>5, <2>2, <2>3, AlgorithmsAreProven
<1> QED BY <1>3, <1>4, <1>5

\* executeUserOp stamps what the operation proves under the policy of now, or nothing.
LEMMA RestampIsEarned ==
  ASSUME weightConfig \in StoredPolicy, slots \in [Keys -> Slot],
         NEW op \in UserOps, Capped(op), NEW slot \in Restamped(op)
  PROVE  /\ slot \in Slot
         /\ IF op.alg = "none" THEN slot = slots[InnerData(op)]
            ELSE SlotTier(weightConfig, slot) \in {0, ProvenTier(weightConfig, op)}
<1>1. op.alg \in Alg /\ slots[InnerData(op)] \in Slot BY OpsHaveKeys DEF UserOp
<1>2. CASE op.alg = "none" BY <1>1, <1>2 DEF Restamped
<1>3. CASE op.alg = "weighted"
  <2> DEFINE w == Accumulated(weightConfig, op.by)
  <2>1. PICK w2 : slot = [alg |-> "weighted", weight |-> w2] /\ w2 \in {w, 0}
    BY <1>3 DEF Restamped
  <2>2. w \in UInt8 /\ ResolvedTier(weightConfig, 0) = 0 BY StoredPolicies
  <2>3. slot \in Slot BY <1>1, <1>3, <2>1, <2>2 DEF Slot, UInt8
  <2>4. SlotTier(weightConfig, slot) = ResolvedTier(weightConfig, w2) BY <2>1 DEF SlotTier
  <2>5. ProvenTier(weightConfig, op) = ResolvedTier(weightConfig, w)
    BY <1>3 DEF ProvenTier, TierOf, Capped
  <2> QED BY <1>3, <2>1, <2>2, <2>3, <2>4, <2>5
<1>4. CASE op.alg \notin {"none", "weighted"}
  <2>1. slot = [slots[InnerData(op)] EXCEPT !.alg = op.alg] BY <1>4 DEF Restamped
  <2>2. slot \in Slot /\ slot.alg = op.alg BY <1>1, <2>1 DEF Slot
  <2>3. SlotTier(weightConfig, slot) = AlgTier(op.alg) BY <1>4, <2>2 DEF SlotTier
  <2> QED BY <1>4, <2>2, <2>3, AlgorithmsAreProven
<1> QED BY <1>2, <1>3, <1>4

\* Empty slots are worth nothing.
LEMMA EmptyIsEarned ==
  ASSUME NEW b, NEW c
  PROVE  AllEarned(b, c, EmptySlots) /\ EmptySlots \in [Keys -> Slot]
<1>1. \A k \in Keys : EmptySlots[k] = [alg |-> "none", weight |-> 0] BY DEF EmptySlots
<1>2. \A k \in Keys : SlotTier(c, EmptySlots[k]) = 0 BY <1>1 DEF SlotTier, AlgTier
<1>3. [alg |-> "none", weight |-> 0] \in Slot BY DEF Slot, Alg, UInt8
<1> QED BY <1>2, <1>3 DEF AllEarned, Earned, EmptySlots

\* A slot that is stamped with what an operation of the bundle proves keeps all earned.
LEMMA StampKeepsEarned ==
  ASSUME NEW b, NEW c, NEW s \in [Keys -> Slot], AllEarned(b, c, s),
         NEW key \in Keys, NEW slot, NEW i \in DOMAIN b, SameCalls(b[i], key),
         \/ slot = s[key]
         \/ SlotTier(c, slot) \in {0, ProvenTier(c, b[i])}
  PROVE  AllEarned(b, c, [s EXCEPT ![key] = slot])
<1> SUFFICES ASSUME NEW k \in Keys, ~k.wrapped PROVE Earned(b, c, k, [s EXCEPT ![key] = slot][k])
  BY DEF AllEarned
<1>1. CASE k # key \/ slot = s[key]
  <2>1. [s EXCEPT ![key] = slot][k] = s[k] BY <1>1
  <2> QED BY <2>1 DEF AllEarned
<1>2. CASE k = key /\ SlotTier(c, slot) \in {0, ProvenTier(c, b[i])}
  <2>1. [s EXCEPT ![key] = slot][k] = slot BY <1>2
  <2>2. SlotTier(c, slot) \in 0 .. 3 BY SlotTierIsTier DEF Tier
  <2>3. SlotTier(c, slot) = 0 \/ SlotTier(c, slot) <= ProvenTier(c, b[i]) BY <1>2, <2>2
  <2> QED BY <1>2, <2>1, <2>3 DEF Earned
<1> QED BY <1>1, <1>2

(***************************************************************************)
(* The steps, by what they do to bundles and slots.                        *)
(***************************************************************************)
slotFrame == <<bundleVars, weightConfig, slots, frame, saved>>

\* Every step is of one of these kinds.
LEMMA SlotStepKinds ==
  ASSUME [Next]_vars
  PROVE  \/ UNCHANGED slotFrame
         \/ \E op \in UserOps : HandleOps(op)
         \/ ValidateUserOp
         \/ validated < Len(bundle) /\ ClearBundle /\ UNCHANGED <<weightConfig, frame, saved>>
         \/ ExecuteUserOp
         \/ bundle = <<>> /\ saved' = Revertible /\ UNCHANGED <<bundleVars, weightConfig, slots>>
         \/ frame # NoFrame /\ UNCHANGED <<bundleVars, weightConfig, slots, saved>>
         \/ Return
         \/ Revert
         \/ RevertAtEntry
         \/ \E c \in Policies : ChangePolicy(c)
<1> USE DEF slotFrame
<1>1. CASE UNCHANGED vars BY <1>1 DEF vars
<1>2. CASE HandleOpsReverts BY <1>2 DEF HandleOpsReverts
<1>3. CASE RunCall BY <1>3 DEF RunCall
<1>4. ASSUME NEW calls, ExecuteByOwner(calls) \/ ExecuteFromExecutor(calls)
      PROVE  bundle = <<>> /\ saved' = Revertible /\ UNCHANGED <<bundleVars, weightConfig, slots>>
  BY <1>4 DEF ExecuteByOwner, ExecuteFromExecutor, OpenFrame, Idle
<1>5. ASSUME NEW x, WithdrawDepositTo(x) \/ ChangeTierLimits(x) \/ GuardApproveAlgorithm(x)
      PROVE  UNCHANGED slotFrame
  BY <1>5 DEF WithdrawDepositTo, ChangeTierLimits, GuardApproveAlgorithm
<1>6. ASSUME NEW x, GuardSetStrictMode(x) \/ GuardDecreaseDailyLimit(x)
      PROVE  UNCHANGED slotFrame
  BY <1>6 DEF GuardSetStrictMode, GuardDecreaseDailyLimit, ConfigureGuard
<1>7. ASSUME NEW t, NEW c, GuardAddTokenConfig(t, c) \/ GuardDecreaseTokenDailyLimit(t, c.dailyLimit)
      PROVE  UNCHANGED slotFrame
  BY <1>7 DEF GuardAddTokenConfig, GuardDecreaseTokenDailyLimit, ConfigureGuard
<1>8. CASE Midnight BY <1>8 DEF Midnight
<1> QED BY <1>1, <1>2, <1>3, <1>4, <1>5, <1>6, <1>7, <1>8 DEF Next

\* An account starts without a bundle.
LEMMA InitSlots == Init => SlotInv
<1> SUFFICES ASSUME Init PROVE SlotInv OBVIOUS
<1>1. /\ weightConfig = Unset /\ bundle = <<>> /\ validated = 0 /\ executed = 0
      /\ bundlePolicy = Unset /\ slots = EmptySlots /\ frame = NoFrame
  BY DEF Init
<1>2. SlotsAreEarned BY <1>1, EmptyIsEarned DEF SlotsAreEarned
<1>3. BundleFacts BY <1>1, EmptyIsEarned DEF BundleFacts, StoredPolicy
<1> QED BY <1>1, <1>2, <1>3 DEF SlotInv, ModulesAreCapped, ValidatedUnderOnePolicy, FreshSlots

\* An operation joins a bundle before the first one is validated.
LEMMA SubmissionKeepsSlots ==
  ASSUME SlotInv, NEW op \in UserOps, HandleOps(op)
  PROVE  SlotInv'
<1>1. /\ validated = 0 /\ frame' = NoFrame /\ bundle' = Append(bundle, op)
      /\ bundlePolicy' = weightConfig
      /\ UNCHANGED <<weightConfig, validated, executed, slots>>
  BY DEF HandleOps
<1>2. slots' = EmptySlots BY <1>1 DEF SlotInv, FreshSlots
<1>3. BundleFacts' BY <1>1 DEF SlotInv, BundleFacts
<1>4. SlotsAreEarned' BY <1>1, <1>2, EmptyIsEarned DEF SlotsAreEarned
<1> QED BY <1>1, <1>2, <1>3, <1>4 DEF SlotInv, ModulesAreCapped, ValidatedUnderOnePolicy, FreshSlots

\* Validation stamps what the operation proves.
LEMMA ValidationKeepsSlots ==
  ASSUME SlotInv, ValidateUserOp
  PROVE  SlotInv'
<1> DEFINE i == validated + 1
           op == bundle[i]
           slot == Stamped(op)
<1>1. /\ validated < Len(bundle) /\ SignatureAccepted(op)
      /\ slots' = [slots EXCEPT ![CallData(op)] = slot] /\ validated' = i
      /\ UNCHANGED <<weightConfig, bundle, executed, bundlePolicy, frame, saved>>
  BY DEF ValidateUserOp
<1>2. /\ bundle \in Seq(UserOps) /\ validated \in Nat /\ executed \in 0 .. validated
      /\ i \in 1 .. Len(bundle) /\ i \in DOMAIN bundle /\ op \in UserOps
  BY <1>1 DEF SlotInv, BundleFacts
<1>3. frame = NoFrame BY <1>1, <1>2 DEF SlotInv, BundleFacts
<1>4. weightConfig = bundlePolicy BY <1>1 DEF SlotInv, ValidatedUnderOnePolicy
<1>5. slots \in [Keys -> Slot] /\ weightConfig \in StoredPolicy BY DEF SlotInv, BundleFacts
<1> HIDE DEF op, slot
<1>6. /\ Capped(op) /\ slot \in Slot
      /\ IF op.alg = "none" THEN slot = slots[CallData(op)]
         ELSE SlotTier(weightConfig, slot) = ProvenTier(weightConfig, op)
  BY <1>1, <1>2, <1>5, StampIsEarned DEF slot
<1>7. CallData(op) \in Keys /\ SameCalls(op, CallData(op)) BY <1>2, OpsHaveKeys
<1>8. BundleFacts'
  <2>1. validated' \in 0 .. Len(bundle') /\ executed' \in 0 .. validated' BY <1>1, <1>2
  <2>2. slots' \in [Keys -> Slot] BY <1>1, <1>5, <1>6
  <2> QED BY <1>1, <1>3, <2>1, <2>2 DEF SlotInv, BundleFacts
<1>9. ModulesAreCapped'
  <2> SUFFICES ASSUME NEW j \in 1 .. validated' PROVE Capped(bundle[j])
    BY <1>1 DEF ModulesAreCapped
  <2>1. j = i \/ j \in 1 .. validated BY <1>1, <1>2
  <2> QED BY <1>6, <2>1 DEF SlotInv, ModulesAreCapped, op
<1>10. AllEarned(bundle, bundlePolicy, slots') 
  <2>1. AllEarned(bundle, bundlePolicy, slots) BY <1>4 DEF SlotInv, SlotsAreEarned
  <2>2. slot = slots[CallData(op)]
        \/ SlotTier(bundlePolicy, slot) \in {0, ProvenTier(bundlePolicy, bundle[i])}
    BY <1>4, <1>6 DEF op
  <2>3. SameCalls(bundle[i], CallData(op)) BY <1>7 DEF op
  <2> QED BY <1>1, <1>2, <1>5, <1>7, <2>1, <2>2, <2>3, StampKeepsEarned
<1>11. SlotsAreEarned' BY <1>1, <1>3, <1>10 DEF SlotsAreEarned
<1>12. ValidatedUnderOnePolicy' BY <1>1, <1>4 DEF ValidatedUnderOnePolicy
<1>13. FreshSlots' BY <1>1, <1>2 DEF FreshSlots
<1> QED BY <1>8, <1>9, <1>11, <1>12, <1>13 DEF SlotInv

\* The next operation of a bundle that is executed was validated.
LEMMA NextIsValidated ==
  ASSUME SlotInv, Executing, BundleIsTyped
  PROVE  /\ bundle[executed + 1] \in UserOps /\ Capped(bundle[executed + 1])
         /\ executed + 1 \in DOMAIN bundle
<1>1. executed + 1 \in 1 .. validated /\ validated = Len(bundle) /\ bundle \in Seq(UserOps)
  BY DEF SlotInv, BundleFacts, Executing, BundleIsTyped
<1> QED BY <1>1 DEF SlotInv, ModulesAreCapped

\* executeUserOp stamps what the operation proves, too.
LEMMA ExecutionKeepsSlots ==
  ASSUME SlotInv, BundleIsTyped, ExecuteUserOp
  PROVE  SlotInv'
<1> DEFINE i == executed + 1
           op == bundle[i]
<1>1. /\ Executing /\ saved' = Revertible
      /\ UNCHANGED <<weightConfig, bundle, validated, executed, bundlePolicy>>
      /\ \/ UNCHANGED slots
         \/ \E slot \in Restamped(op) : slots' = [slots EXCEPT ![InnerData(op)] = slot]
  BY DEF ExecuteUserOp, OpenFrame, bundleVars
<1>2. op \in UserOps /\ Capped(op) /\ i \in DOMAIN bundle BY <1>1, NextIsValidated
<1>3. /\ saved'.weightConfig = weightConfig /\ saved'.slots = slots
      /\ saved'.bundlePolicy = bundlePolicy
  BY <1>1 DEF Revertible
<1>4. slots \in [Keys -> Slot] /\ weightConfig \in StoredPolicy BY DEF SlotInv, BundleFacts
<1>5. InnerData(op) \in Keys /\ SameCalls(op, InnerData(op)) BY <1>2, OpsHaveKeys
<1>6. /\ slots' \in [Keys -> Slot]
      /\ weightConfig = bundlePolicy => AllEarned(bundle, bundlePolicy, slots')
  <2>1. weightConfig = bundlePolicy => AllEarned(bundle, bundlePolicy, slots)
    BY DEF SlotInv, SlotsAreEarned
  <2>2. CASE UNCHANGED slots BY <1>4, <2>1, <2>2
  <2>3. ASSUME NEW slot \in Restamped(op), slots' = [slots EXCEPT ![InnerData(op)] = slot]
        PROVE  slots' \in [Keys -> Slot]
               /\ (weightConfig = bundlePolicy => AllEarned(bundle, bundlePolicy, slots'))
    <3> HIDE DEF op
    <3>1. /\ slot \in Slot
          /\ \/ slot = slots[InnerData(op)]
             \/ SlotTier(weightConfig, slot) \in {0, ProvenTier(weightConfig, op)}
      BY <1>2, <1>4, <2>3, RestampIsEarned
    <3>2. slots' \in [Keys -> Slot] BY <1>4, <2>3, <3>1
    <3>3. ASSUME weightConfig = bundlePolicy PROVE AllEarned(bundle, bundlePolicy, slots')
      <4>1. SameCalls(bundle[i], InnerData(op)) BY <1>5 DEF op
      <4>2. slot = slots[InnerData(op)]
            \/ SlotTier(bundlePolicy, slot) \in {0, ProvenTier(bundlePolicy, bundle[i])}
        BY <3>1, <3>3 DEF op
      <4> QED BY <1>2, <1>4, <1>5, <2>1, <2>3, <3>3, <4>1, <4>2, StampKeepsEarned
    <3> QED BY <3>2, <3>3
  <2> QED BY <1>1, <2>2, <2>3
<1>7. validated' = Len(bundle') /\ validated' # 0
  <2>1. bundle # <<>> /\ validated = Len(bundle) /\ bundle \in Seq(UserOps)
    BY <1>1 DEF Executing, SlotInv, BundleFacts
  <2> QED BY <1>1, <2>1
<1>8. BundleFacts' BY <1>1, <1>3, <1>4, <1>6, <1>7 DEF SlotInv, BundleFacts
<1>9. SlotsAreEarned' BY <1>1, <1>3, <1>6 DEF SlotInv, SlotsAreEarned
<1>10. ModulesAreCapped' BY <1>1 DEF SlotInv, ModulesAreCapped
<1>11. ValidatedUnderOnePolicy' BY <1>1 DEF SlotInv, ValidatedUnderOnePolicy
<1>12. FreshSlots' BY <1>7 DEF FreshSlots
<1> QED BY <1>8, <1>9, <1>10, <1>11, <1>12 DEF SlotInv

\* A bundle ends, or its next operation finds the slots it is left.
LEMMA PassingOnKeepsSlots ==
  ASSUME SlotInv, BundleIsTyped, NextUserOp, frame' = NoFrame, NEW s, NEW policy,
         PassOn(s, policy), weightConfig' \in StoredPolicy,
         bundle # <<>> => /\ validated = Len(bundle)
                          /\ s \in [Keys -> Slot] /\ policy \in StoredPolicy
                          /\ weightConfig' = policy => AllEarned(bundle, policy, s)
  PROVE  SlotInv'
<1>1. CASE bundle' = <<>>
  <2>1. validated' = 0 /\ executed' = 0 /\ slots' = EmptySlots /\ bundlePolicy' = Unset
    <3>1. slots' = EmptySlots /\ bundlePolicy' = Unset BY <1>1 DEF PassOn
    <3>2. CASE executed + 1 < Len(bundle)
      <4>1. bundle = <<>> BY <1>1, <3>2 DEF NextUserOp
      <4>2. Len(bundle) = 0 BY <4>1
      <4> QED BY <3>2, <4>2 DEF BundleIsTyped
    <3>3. CASE ~(executed + 1 < Len(bundle)) BY <3>1, <3>3 DEF NextUserOp
    <3> QED BY <3>2, <3>3
  <2>2. bundlePolicy' \in StoredPolicy BY <2>1 DEF StoredPolicy
  <2>3. AllEarned(bundle', bundlePolicy', slots') /\ slots' \in [Keys -> Slot]
    BY <2>1, EmptyIsEarned
  <2>4. BundleFacts' BY <1>1, <2>1, <2>2, <2>3 DEF BundleFacts
  <2> QED BY <1>1, <2>1, <2>3, <2>4
       DEF SlotInv, ModulesAreCapped, ValidatedUnderOnePolicy, FreshSlots, SlotsAreEarned
<1>2. CASE bundle' # <<>>
  <2>1. /\ executed + 1 < Len(bundle) /\ executed' = executed + 1 /\ UNCHANGED <<bundle, validated>>
        /\ slots' = s /\ bundlePolicy' = policy
    BY <1>2 DEF NextUserOp, PassOn
  <2>2. /\ bundle # <<>> /\ validated = Len(bundle) /\ bundle \in Seq(UserOps)
        /\ executed \in Nat /\ Len(bundle) \in Nat
    BY <1>2, <2>1 DEF BundleIsTyped
  <2>3. s \in [Keys -> Slot] /\ policy \in StoredPolicy
        /\ (weightConfig' = policy => AllEarned(bundle, policy, s))
    BY <2>2
  <2>4. executed' \in 0 .. validated' /\ validated' = Len(bundle') /\ validated' # 0
    BY <2>1, <2>2
  <2>5. BundleFacts' BY <2>1, <2>2, <2>3, <2>4 DEF BundleFacts
  <2>6. SlotsAreEarned' BY <2>1, <2>3 DEF SlotsAreEarned
  <2>7. ModulesAreCapped' BY <2>1 DEF SlotInv, ModulesAreCapped
  <2> QED BY <2>4, <2>5, <2>6, <2>7 DEF SlotInv, ValidatedUnderOnePolicy, FreshSlots
<1> QED BY <1>1, <1>2

\* Every step keeps what slots are worth earned, a reverted frame included.
LEMMA NextKeepsSlots == BundleIsTyped /\ SlotInv /\ [Next]_vars => SlotInv'
<1> SUFFICES ASSUME BundleIsTyped, SlotInv, [Next]_vars PROVE SlotInv' OBVIOUS
<1>1. CASE UNCHANGED slotFrame
  BY <1>1 DEF slotFrame, bundleVars, SlotInv, BundleFacts, ModulesAreCapped,
       ValidatedUnderOnePolicy, FreshSlots, SlotsAreEarned
<1>2. CASE validated < Len(bundle) /\ ClearBundle /\ UNCHANGED <<weightConfig, frame, saved>>
  <2>1. /\ bundle' = <<>> /\ validated' = 0 /\ executed' = 0 /\ bundlePolicy' = Unset
        /\ slots' = EmptySlots /\ weightConfig' = weightConfig
    BY <1>2 DEF ClearBundle
  <2>2. frame' = NoFrame
    <3>1. validated # Len(bundle) BY <1>2 DEF SlotInv, BundleFacts
    <3> QED BY <1>2, <3>1 DEF SlotInv, BundleFacts
  <2>3. weightConfig \in StoredPolicy /\ bundlePolicy' \in StoredPolicy
    BY <2>1 DEF SlotInv, BundleFacts, StoredPolicy
  <2>4. AllEarned(bundle', bundlePolicy', slots') /\ slots' \in [Keys -> Slot]
    BY <2>1, EmptyIsEarned
  <2>5. BundleFacts' BY <2>1, <2>2, <2>3, <2>4 DEF BundleFacts
  <2> QED BY <2>1, <2>2, <2>4, <2>5
       DEF SlotInv, ModulesAreCapped, ValidatedUnderOnePolicy, FreshSlots, SlotsAreEarned
<1>3. CASE bundle = <<>> /\ saved' = Revertible /\ UNCHANGED <<bundleVars, weightConfig, slots>>
  <2>1. /\ saved'.weightConfig = weightConfig /\ saved'.slots = slots
        /\ saved'.bundlePolicy = bundlePolicy
        /\ UNCHANGED <<bundle, validated, executed, bundlePolicy, weightConfig, slots>>
    BY <1>3 DEF Revertible, bundleVars
  <2>2. validated = 0 /\ Len(bundle) = 0
    <3>1. Len(bundle) = 0 BY <1>3
    <3> QED BY <3>1 DEF SlotInv, BundleFacts
  <2>3. BundleFacts' BY <2>1, <2>2 DEF SlotInv, BundleFacts
  <2>4. SlotsAreEarned' BY <2>1 DEF SlotInv, SlotsAreEarned
  <2>5. FreshSlots' BY <2>1 DEF SlotInv, FreshSlots
  <2> QED BY <2>1, <2>3, <2>4, <2>5 DEF SlotInv, ModulesAreCapped, ValidatedUnderOnePolicy
<1>4. CASE frame # NoFrame /\ UNCHANGED <<bundleVars, weightConfig, slots, saved>>
  BY <1>4 DEF bundleVars, SlotInv, BundleFacts, ModulesAreCapped,
       ValidatedUnderOnePolicy, FreshSlots, SlotsAreEarned
<1>5. CASE Return
  <2>1. /\ frame # NoFrame /\ frame' = NoFrame /\ NextUserOp /\ PassOn(slots, bundlePolicy)
        /\ weightConfig' = weightConfig
    BY <1>5 DEF Return
  <2>2. /\ validated = Len(bundle) /\ slots \in [Keys -> Slot]
        /\ weightConfig \in StoredPolicy /\ bundlePolicy \in StoredPolicy
        /\ (weightConfig = bundlePolicy => AllEarned(bundle, bundlePolicy, slots))
    BY <2>1 DEF SlotInv, BundleFacts, SlotsAreEarned
  <2> QED BY <2>1, <2>2, PassingOnKeepsSlots
<1>6. CASE Revert
  <2>1. /\ frame # NoFrame /\ frame' = NoFrame /\ NextUserOp
        /\ PassOn(saved.slots, saved.bundlePolicy) /\ weightConfig' = saved.weightConfig
    BY <1>6 DEF Revert
  <2>2. /\ validated = Len(bundle) /\ saved.slots \in [Keys -> Slot]
        /\ saved.weightConfig \in StoredPolicy /\ saved.bundlePolicy \in StoredPolicy
        /\ (saved.weightConfig = saved.bundlePolicy
              => AllEarned(bundle, saved.bundlePolicy, saved.slots))
    BY <2>1 DEF SlotInv, BundleFacts, SlotsAreEarned
  <2> QED BY <2>1, <2>2, PassingOnKeepsSlots
<1>7. CASE RevertAtEntry
  <2>1. /\ Executing /\ frame' = NoFrame /\ NextUserOp /\ PassOn(slots, bundlePolicy)
        /\ weightConfig' = weightConfig
    BY <1>7 DEF RevertAtEntry
  <2>2. /\ validated = Len(bundle) /\ slots \in [Keys -> Slot]
        /\ weightConfig \in StoredPolicy /\ bundlePolicy \in StoredPolicy
        /\ (weightConfig = bundlePolicy => AllEarned(bundle, bundlePolicy, slots))
    BY <2>1 DEF SlotInv, BundleFacts, SlotsAreEarned, Executing
  <2> QED BY <2>1, <2>2, PassingOnKeepsSlots
<1>8. ASSUME NEW c \in Policies, ChangePolicy(c) PROVE SlotInv'
  <2>1. /\ weightConfig' = c
        /\ bundlePolicy' = IF c = weightConfig THEN bundlePolicy ELSE Unset
        /\ UNCHANGED <<bundle, validated, executed, slots, frame, saved>>
        /\ bundle = <<>> \/ frame # NoFrame
    BY <1>8 DEF ChangePolicy, Idle
  <2>2. c \in StoredPolicy /\ c # Unset /\ bundlePolicy' \in StoredPolicy
    <3>1. c.tier1 # 0 BY PoliciesAreValid DEF ValidConfig
    <3>2. Unset.tier1 = 0 BY DEF Unset
    <3> QED BY <2>1, <3>1, <3>2 DEF StoredPolicy, SlotInv, BundleFacts
  <2>3. validated = Len(bundle)
    <3>1. CASE bundle = <<>>
      <4>1. Len(bundle) = 0 BY <3>1
      <4> QED BY <4>1 DEF SlotInv, BundleFacts
    <3>2. CASE frame # NoFrame BY <3>2 DEF SlotInv, BundleFacts
    <3> QED BY <2>1, <3>1, <3>2
  <2>4. BundleFacts' BY <2>1, <2>2 DEF SlotInv, BundleFacts
  <2>5. SlotsAreEarned'
    <3>1. weightConfig' = bundlePolicy' => c = weightConfig BY <2>1, <2>2
    <3>2. weightConfig' = bundlePolicy' => AllEarned(bundle, bundlePolicy', slots)
      BY <2>1, <3>1 DEF SlotInv, SlotsAreEarned
    <3> QED BY <2>1, <3>2 DEF SlotInv, SlotsAreEarned
  <2>6. ValidatedUnderOnePolicy'
    <3>1. Len(bundle) \in Nat BY DEF SlotInv, BundleFacts
    <3> QED BY <2>1, <2>3, <3>1 DEF ValidatedUnderOnePolicy
  <2>7. FreshSlots' BY <2>1 DEF SlotInv, FreshSlots
  <2>8. ModulesAreCapped' BY <2>1 DEF SlotInv, ModulesAreCapped
  <2> QED BY <2>4, <2>5, <2>6, <2>7, <2>8 DEF SlotInv
<1> QED BY <1>1, <1>2, <1>3, <1>4, <1>5, <1>6, <1>7, <1>8, SlotStepKinds, SubmissionKeepsSlots,
         ValidationKeepsSlots, ExecutionKeepsSlots


\* A step that opens a frame for an operation executes it, at what its slot is worth.
LEMMA FramesOfOps ==
  ASSUME SlotInv, BundleIsTyped, [Next]_vars, NEW op, OpensFor(op)
  PROVE  /\ op \in UserOps /\ Capped(op) /\ op = bundle[executed + 1] /\ executed + 1 \in DOMAIN bundle
         /\ IF op.wrapped
              THEN \E slot \in Restamped(op) : frame'.tier = SlotTier(weightConfig, slot)
              ELSE frame'.tier = SlotTier(weightConfig, slots[InnerData(op)])
<1>1. Executing /\ frame = NoFrame /\ frame' # NoFrame /\ op = bundle[executed + 1] BY DEF OpensFor
<1>2. /\ op \in UserOps /\ Capped(op) /\ executed + 1 \in DOMAIN bundle
  BY <1>1, NextIsValidated
<1>3. ExecuteUserOp
  <2>1. bundle # <<>> /\ ~(validated < Len(bundle))
    BY <1>1 DEF Executing, SlotInv, BundleFacts
  <2>2. frame' # frame BY <1>1
  <2>3. ~RunCall /\ ~Return /\ ~Revert BY <1>1 DEF RunCall, Return, Revert
  <2>4. ~Idle BY <2>1 DEF Idle
  <2>5. ASSUME NEW calls, ExecuteByOwner(calls) \/ ExecuteFromExecutor(calls) PROVE FALSE
    BY <2>4, <2>5 DEF ExecuteByOwner, ExecuteFromExecutor
  <2>6. ASSUME NEW x, WithdrawDepositTo(x) \/ ChangeTierLimits(x) \/ GuardApproveAlgorithm(x)
                      \/ GuardSetStrictMode(x) \/ GuardDecreaseDailyLimit(x)
        PROVE  FALSE
    BY <2>4, <2>6 DEF WithdrawDepositTo, ChangeTierLimits, GuardApproveAlgorithm, GuardSetStrictMode,
         GuardDecreaseDailyLimit, ConfigureGuard
  <2>7. ASSUME NEW t, NEW c, GuardAddTokenConfig(t, c) \/ GuardDecreaseTokenDailyLimit(t, c.dailyLimit)
        PROVE  FALSE
    BY <2>4, <2>7 DEF GuardAddTokenConfig, GuardDecreaseTokenDailyLimit, ConfigureGuard
  <2>8. ASSUME NEW x, HandleOps(x) \/ ChangePolicy(x) PROVE FALSE
    BY <2>2, <2>8 DEF HandleOps, ChangePolicy
  <2>9. ~ValidateUserOp /\ ~HandleOpsReverts /\ ~RevertAtEntry /\ ~Midnight /\ ~UNCHANGED vars
    BY <2>2 DEF ValidateUserOp, HandleOpsReverts, RevertAtEntry, Midnight, vars
  <2> QED BY <2>3, <2>5, <2>6, <2>7, <2>8, <2>9 DEF Next
<1>4. ASSUME NEW tier, OpenFrame(tier, op.calls) PROVE frame'.tier = tier
  BY <1>4 DEF OpenFrame
<1>5. CASE op.wrapped
  <2>1. \E slot \in Restamped(op) : OpenFrame(SlotTier(weightConfig, slot), op.calls)
    BY <1>1, <1>3, <1>5 DEF ExecuteUserOp
  <2> QED BY <1>1, <1>2, <1>4, <1>5, <2>1
<1>6. CASE ~op.wrapped
  <2>1. OpenFrame(SlotTier(weightConfig, slots[CallData(op)]), op.calls)
    BY <1>1, <1>3, <1>6 DEF ExecuteUserOp
  <2>2. CallData(op) = InnerData(op) BY <1>2, <1>6, OpsHaveKeys
  <2> QED BY <1>1, <1>2, <1>4, <1>6, <2>1, <2>2
<1> QED BY <1>5, <1>6

(***************************************************************************)
(* Types.                                                                  *)
(***************************************************************************)
LimitTypes ==
  /\ tier1Limit \in Nat /\ tier2Limit \in Nat /\ tierLimitsInitialized \in BOOLEAN
  /\ tierLimitNonce \in 0 .. MaxTierChanges
  /\ frame # NoFrame =>
       /\ saved.tier1Limit \in Nat /\ saved.tier2Limit \in Nat
       /\ saved.tierLimitsInitialized \in BOOLEAN
       /\ saved.tierLimitNonce \in 0 .. MaxTierChanges

FixedTypes ==
  /\ guarded \in BOOLEAN /\ minDailyLimit \in Nat
  /\ approvedAlgorithms \subseteq Alg /\ blockUnconfiguredTokens \in BOOLEAN

\* Limits that are set or modified are amounts.
LEMMA LimitChangesAreTyped ==
  ASSUME NEW l \in Nat \X Nat, SetTierLimits(l) \/ ModifyTierLimits(l),
         tierLimitNonce \in 0 .. MaxTierChanges
  PROVE  /\ tier1Limit' \in Nat /\ tier2Limit' \in Nat /\ tierLimitsInitialized' \in BOOLEAN
         /\ tierLimitNonce' \in 0 .. MaxTierChanges
<1>1. l[1] \in Nat /\ l[2] \in Nat OBVIOUS
<1>2. tier1Limit' = l[1] /\ tier2Limit' = l[2] /\ tierLimitsInitialized' = TRUE
  BY DEF SetTierLimits, ModifyTierLimits
<1>3. tierLimitNonce' \in 0 .. MaxTierChanges
  <2>1. CASE SetTierLimits(l) BY <2>1 DEF SetTierLimits
  <2>2. CASE ModifyTierLimits(l)
    <3>1. tierLimitNonce < MaxTierChanges /\ tierLimitNonce' = tierLimitNonce + 1
      BY <2>2 DEF ModifyTierLimits
    <3> QED BY <3>1, TierChangesAreBounded
  <2> QED BY <2>1, <2>2
<1> QED BY <1>1, <1>2, <1>3

\* The limits stay typed, also through a revert.
LEMMA LimitsStayTyped ==
  BundleIsTyped /\ FrameIsTyped /\ LimitTypes /\ [Next]_vars => LimitTypes'
<1> SUFFICES ASSUME BundleIsTyped, FrameIsTyped, LimitTypes, [Next]_vars PROVE LimitTypes'
  OBVIOUS
<1>1. CASE UNCHANGED <<tierVars, frame, saved>> BY <1>1 DEF LimitTypes, tierVars
<1>2. CASE Opens /\ UNCHANGED tierVars
  <2>1. saved' = Revertible BY <1>2 DEF Opens, OpenFrame
  <2>2. /\ saved'.tierLimitNonce = tierLimitNonce
        /\ saved'.tierLimitsInitialized = tierLimitsInitialized
        /\ saved'.tier1Limit = tier1Limit /\ saved'.tier2Limit = tier2Limit
    BY <2>1 DEF Revertible
  <2> QED BY <1>2, <2>2 DEF LimitTypes, tierVars
<1>3. CASE RunCall
  <2> DEFINE call == Head(frame.calls)
  <2>1. /\ frame # NoFrame /\ frame.calls # <<>> /\ UNCHANGED saved
        /\ \/ UNCHANGED tierVars
           \/ SetTierLimits(call.tiers) \/ ModifyTierLimits(call.tiers)
    BY <1>3 DEF RunCall
  <2>2. call \in Call BY <2>1 DEF FrameIsTyped
  <2>3. call.tiers \in Nat \X Nat BY <2>2 DEF Call
  <2> HIDE DEF call
  <2>4. CASE UNCHANGED tierVars BY <2>1, <2>4 DEF LimitTypes, tierVars
  <2>5. CASE SetTierLimits(call.tiers) \/ ModifyTierLimits(call.tiers)
    BY <2>1, <2>3, <2>5, LimitChangesAreTyped DEF LimitTypes
  <2> QED BY <2>1, <2>4, <2>5
<1>4. CASE frame' = NoFrame /\ UNCHANGED tierVars BY <1>4 DEF LimitTypes, tierVars
<1>5. CASE Revert
  <2>1. /\ frame # NoFrame /\ frame' = NoFrame
        /\ tierLimitNonce' = saved.tierLimitNonce
        /\ tierLimitsInitialized' = saved.tierLimitsInitialized
        /\ tier1Limit' = saved.tier1Limit /\ tier2Limit' = saved.tier2Limit
    BY <1>5 DEF Revert
  <2> QED BY <2>1 DEF LimitTypes
<1>6. ASSUME frame' = NoFrame, NEW l \in TierChoices, SetTierLimits(l) \/ ModifyTierLimits(l)
      PROVE  LimitTypes'
  <2>1. l \in Nat \X Nat BY TiersAreOrdered
  <2> QED BY <1>6, <2>1, LimitChangesAreTyped DEF LimitTypes
<1> QED BY <1>1, <1>2, <1>3, <1>4, <1>5, <1>6, LimitStepKinds

\* What hardly ever changes stays typed.
LEMMA FixedStaysTyped == FixedTypes /\ [Next]_vars => FixedTypes'
<1> SUFFICES ASSUME FixedTypes, [Next]_vars PROVE FixedTypes' OBVIOUS
<1> DEFINE Same == UNCHANGED <<guarded, minDailyLimit, approvedAlgorithms, blockUnconfiguredTokens>>
<1> USE DEF guardVars, ethVars, tokenVars, configVars
<1>1. CASE Same BY <1>1 DEF FixedTypes
<1>2. CASE UNCHANGED vars BY <1>2 DEF vars, FixedTypes
<1>3. ASSUME NEW op, HandleOps(op) PROVE Same BY <1>3 DEF HandleOps
<1>4. CASE ValidateUserOp \/ HandleOpsReverts \/ RevertAtEntry \/ ExecuteUserOp
  <2>1. Same BY <1>4 DEF ValidateUserOp, HandleOpsReverts, RevertAtEntry, ExecuteUserOp
  <2> QED BY <1>1, <2>1
<1>5. CASE RunCall \/ Return \/ Revert
  <2>1. Same BY <1>5 DEF RunCall, Return, Revert
  <2> QED BY <1>1, <2>1
<1>6. ASSUME NEW calls, ExecuteByOwner(calls) \/ ExecuteFromExecutor(calls) PROVE Same
  BY <1>6 DEF ExecuteByOwner, ExecuteFromExecutor
<1>7. ASSUME NEW x, WithdrawDepositTo(x) \/ ChangeTierLimits(x) \/ ChangePolicy(x) PROVE Same
  BY <1>7 DEF WithdrawDepositTo, ChangeTierLimits, ChangePolicy
<1>8. ASSUME NEW x, GuardDecreaseDailyLimit(x) PROVE Same
  BY <1>8 DEF GuardDecreaseDailyLimit, ConfigureGuard, DecreaseDailyLimit
<1>9. ASSUME NEW t, NEW c, GuardAddTokenConfig(t, c) \/ GuardDecreaseTokenDailyLimit(t, c.dailyLimit)
      PROVE  Same
  BY <1>9 DEF GuardAddTokenConfig, GuardDecreaseTokenDailyLimit, ConfigureGuard, AddTokenConfig,
       DecreaseTokenDailyLimit
<1>10. CASE Midnight
  <2>1. Same BY <1>10 DEF Midnight, NewDay
  <2> QED BY <1>1, <2>1
<1>11. ASSUME NEW a \in MoreAlgorithms, GuardApproveAlgorithm(a) PROVE FixedTypes'
  BY <1>11, WhitelistIsOfAlgs DEF GuardApproveAlgorithm, FixedTypes
<1>12. ASSUME NEW b \in BOOLEAN, GuardSetStrictMode(b) PROVE FixedTypes'
  BY <1>12 DEF GuardSetStrictMode, ConfigureGuard, SetStrictMode, FixedTypes
<1> HIDE DEF Same
<1> QED BY <1>1, <1>2, <1>3, <1>4, <1>5, <1>6, <1>7, <1>8, <1>9, <1>10, <1>11, <1>12 DEF Next

\* A new account is typed.
LEMMA InitTypes == Init => LimitTypes /\ FixedTypes
<1> SUFFICES ASSUME Init PROVE LimitTypes /\ FixedTypes OBVIOUS
<1>1. FixedTypes
  <2>1. guarded \in BOOLEAN /\ approvedAlgorithms \subseteq Alg
    BY WhitelistIsOfAlgs DEF Init
  <2>2. minDailyLimit \in Nat /\ blockUnconfiguredTokens \in BOOLEAN
    <3>1. CASE GuardInit BY <3>1, LimitsAreAmounts DEF GuardInit
    <3>2. CASE NoGuard BY <3>2 DEF NoGuard
    <3> QED BY <3>1, <3>2 DEF Init
  <2> QED BY <2>1, <2>2 DEF FixedTypes
<1>2. LimitTypes
  <2>1. PICK l \in {c \in TierChoices : OrderedTiers(c)} \cup {<<0, 0>>} :
          /\ tier1Limit = l[1] /\ tier2Limit = l[2]
          /\ tierLimitsInitialized = (l # <<0, 0>>)
    BY DEF Init
  <2>2. l \in Nat \X Nat BY TiersAreOrdered
  <2>3. l[1] \in Nat /\ l[2] \in Nat BY <2>2
  <2>4. tierLimitNonce \in 0 .. MaxTierChanges /\ frame = NoFrame
    BY TierChangesAreBounded DEF Init
  <2> QED BY <2>1, <2>3, <2>4 DEF LimitTypes
<1> QED BY <1>1, <1>2

(***************************************************************************)
(* The theorems.                                                           *)
(***************************************************************************)
\* MeterIsExact, for any calls, bundles and limits: while ETH is capped, the guard's
\* record of the day is what has left the account (recordSpend and the revert of a frame).
THEOREM TheMeterIsExact == Spec => []MeterIsExact
<1>1. MeterInv => MeterIsExact BY DEF MeterInv
<1> QED BY <1>1, InitIsMetered, NextIsMetered, PTL DEF Spec

\* TierBoundsTheDay, for any calls, bundles and limits: what leaves under a tier keeps
\* the total of the day within that tier (_enforceGuard).
THEOREM OneFactorStaysInItsTier == Spec => TierBoundsTheDay
<1>1. MeterInv /\ [Next]_vars =>
        [\A k \in Tier : guarded /\ dailyLimit > 0 /\ moved'[k] > moved[k]
                           => RequiredTier(Total(moved')) <= k]_vars
  <2> SUFFICES ASSUME MeterInv, [Next]_vars, NEW k \in Tier, guarded, dailyLimit > 0,
                      moved'[k] > moved[k]
               PROVE  RequiredTier(Total(moved')) <= k
    OBVIOUS
  <2>1. moved[k] \in Nat /\ moved'[k] \in Nat
    BY NextIsMetered DEF MeterInv, AmountsAreNatural
  <2>2. ~(moved'[k] <= moved[k]) BY <2>1
  <2> QED BY <2>2, PaymentOrNone
<1> QED BY <1>1, InitIsMetered, NextIsMetered, PTL DEF Spec, TierBoundsTheDay

\* DailyCap, for any calls, bundles and limits: no payment leaves the day above the cap.
THEOREM TheCapHolds == Spec => DailyCap
<1>1. MeterInv /\ [Next]_vars =>
        [guarded /\ dailyLimit > 0 /\ Total(moved') > Total(moved)
           => Total(moved') <= dailyLimit]_vars
  <2> SUFFICES ASSUME MeterInv, [Next]_vars, guarded, dailyLimit > 0, Total(moved') > Total(moved)
               PROVE  Total(moved') <= dailyLimit
    OBVIOUS
  <2>1. moved \in [Tier -> Nat] /\ moved' \in [Tier -> Nat]
    BY NextIsMetered DEF MeterInv, AmountsAreNatural
  <2>2. Total(moved) \in Nat /\ Total(moved') \in Nat BY <2>1 DEF Total, Tier
  <2>3. ~(\A k \in Tier : moved'[k] <= moved[k]) BY <2>1, <2>2, TotalsGrow
  <2> QED BY <2>3, PaymentOrNone
<1> QED BY <1>1, InitIsMetered, NextIsMetered, PTL DEF Spec, DailyCap

\* SetOnceThenGuardians, for any calls and limits: no call of the owner, of the account
\* to itself or undone by a revert moves limits that were set (setTierLimits).
THEOREM LimitsStandWithoutGuardians == Spec => SetOnceThenGuardians
<1>1. Init => LimitsInv BY DEF Init, LimitsInv, BundleIsTyped
<1>2. LimitsInv /\ [Next]_vars =>
        [tierLimitsInitialized /\ tierLimitsInitialized'
           /\ <<tier1Limit, tier2Limit>>' # <<tier1Limit, tier2Limit>>
         => tierLimitNonce' # tierLimitNonce]_vars
  BY LimitsNeedGuardians
<1> QED BY <1>1, <1>2, NextKeepsLimits, PTL DEF Spec, SetOnceThenGuardians

\* TokenDayWithinTier, for any tokens, configurations and calls: the tiers and the cap of
\* a token hold for the sum of a day (recordTokenSpend).
THEOREM TokensStayInTier == Spec => TokenDayWithinTier
<1>1. TokenInv /\ [Next]_vars =>
        [\A t \in Token, k \in Tier :
           LET c == tokenConfigs[t]
               day == Total(tokenMoved'[t])
           IN guarded /\ tokenMoved'[t][k] > tokenMoved[t][k] =>
                /\ HasTiers(c) => RequiredTokenTier(c, day) <= k
                /\ c.dailyLimit > 0 => day <= c.dailyLimit]_vars
  BY TokensStayInTheirTier
<1> QED BY <1>1, InitTokens, NextKeepsTokens, PTL DEF Spec, TokenDayWithinTier

\* WrappedOpsUseOwnTier, for any operations and policies: an operation that goes through
\* executeUserOp with a signature runs at what that signature proves, or at nothing
\* (_populateExecAlg).
THEOREM WrappedOpsRunOnTheirOwn == Spec => WrappedOpsUseOwnTier
<1> DEFINE Inv == BundleIsTyped /\ SlotInv
<1>1. Init => Inv BY InitSlots DEF Init, BundleIsTyped
<1>2. Inv /\ [Next]_vars => Inv' BY BundleStaysTyped, NextKeepsSlots
<1>3. Inv /\ [Next]_vars =>
        [\A op \in UserOps : OpensFor(op) /\ op.wrapped /\ op.alg # "none"
           => frame'.tier \in {0, ProvenTier(weightConfig, op)}]_vars
  <2> SUFFICES ASSUME Inv, [Next]_vars, NEW op \in UserOps, OpensFor(op), op.wrapped, op.alg # "none"
               PROVE  frame'.tier \in {0, ProvenTier(weightConfig, op)}
    OBVIOUS
  <2>1. PICK slot \in Restamped(op) : frame'.tier = SlotTier(weightConfig, slot) BY FramesOfOps
  <2>2. Capped(op) BY FramesOfOps
  <2>3. weightConfig \in StoredPolicy /\ slots \in [Keys -> Slot] BY DEF SlotInv, BundleFacts
  <2> QED BY <2>1, <2>2, <2>3, RestampIsEarned
<1> HIDE DEF Inv
<1> QED BY <1>1, <1>2, <1>3, PTL DEF Spec, WrappedOpsUseOwnTier

\* SharesOnlyWithSameCall, for any bundles of any length, any operations and policies:
\* while the policy stands still, no operation runs above what an operation of the bundle
\* with the same calls has proved (_consumeSlot and the keys of the slots).
THEOREM SharingNeedsTheSameCalls == Spec => SharesOnlyWithSameCall
<1> DEFINE Inv == BundleIsTyped /\ SlotInv
<1>1. Init => Inv BY InitSlots DEF Init, BundleIsTyped
<1>2. Inv /\ [Next]_vars => Inv' BY BundleStaysTyped, NextKeepsSlots
<1>3. Inv /\ [Next]_vars =>
        [\A op \in UserOps : OpensFor(op) /\ weightConfig = bundlePolicy
           => \/ frame'.tier = 0
              \/ \E i \in DOMAIN bundle :
                   /\ SameCalls(bundle[i], op)
                   /\ frame'.tier <= ProvenTier(bundlePolicy, bundle[i])]_vars
  <2> SUFFICES ASSUME Inv, [Next]_vars, NEW op \in UserOps, OpensFor(op),
                      weightConfig = bundlePolicy, frame'.tier # 0
               PROVE  \E i \in DOMAIN bundle :
                        /\ SameCalls(bundle[i], op)
                        /\ frame'.tier <= ProvenTier(bundlePolicy, bundle[i])
    OBVIOUS
  <2>1. /\ Capped(op) /\ op = bundle[executed + 1] /\ executed + 1 \in DOMAIN bundle
        /\ SameCalls(op, op)
    BY FramesOfOps DEF SameCalls
  <2>2. weightConfig \in StoredPolicy /\ slots \in [Keys -> Slot] BY DEF SlotInv, BundleFacts
  <2>3. InnerData(op) \in Keys /\ ~InnerData(op).wrapped /\ SameCalls(op, InnerData(op))
    BY OpsHaveKeys
  <2>4. CASE frame'.tier = SlotTier(weightConfig, slots[InnerData(op)])
    <3>1. Earned(bundle, bundlePolicy, InnerData(op), slots[InnerData(op)])
      BY <2>3 DEF SlotInv, SlotsAreEarned, AllEarned
    <3>2. PICK i \in DOMAIN bundle :
            /\ SameCalls(bundle[i], InnerData(op))
            /\ SlotTier(bundlePolicy, slots[InnerData(op)]) <= ProvenTier(bundlePolicy, bundle[i])
      BY <2>4, <3>1 DEF Earned
    <3>3. SameCalls(bundle[i], op) BY <2>3, <3>2 DEF SameCalls
    <3> QED BY <2>4, <3>2, <3>3
  <2>5. ASSUME op.wrapped, NEW slot \in Restamped(op), frame'.tier = SlotTier(weightConfig, slot),
               op.alg # "none"
        PROVE  frame'.tier <= ProvenTier(bundlePolicy, op)
    <3>1. SlotTier(weightConfig, slot) = ProvenTier(bundlePolicy, op)
      BY <2>1, <2>2, <2>5, RestampIsEarned
    <3>2. SlotTier(weightConfig, slot) \in Tier BY SlotTierIsTier
    <3> QED BY <2>5, <3>1, <3>2 DEF Tier
  <2>6. ASSUME NEW slot \in Restamped(op), op.alg = "none" PROVE slot = slots[InnerData(op)]
    BY <2>1, <2>2, <2>6, RestampIsEarned
  <2> QED BY <2>1, <2>4, <2>5, <2>6, FramesOfOps
<1> HIDE DEF Inv
<1> QED BY <1>1, <1>2, <1>3, PTL DEF Spec, SharesOnlyWithSameCall

\* TypeOK, for any calls, bundles, limits and policies: an uint8 weight never overflows,
\* tiers of a token keep their cap, and the EntryPoint stays within the bundle.
THEOREM ExecutionIsTyped == Spec => []TypeOK
<1> DEFINE Inv == TokenInv /\ SlotInv /\ MeterInv /\ LimitTypes /\ FixedTypes
<1>1. Init => Inv BY InitTokens, InitSlots, InitIsMetered, InitTypes
<1>2. Inv /\ [Next]_vars => Inv'
  BY NextKeepsTokens, NextKeepsSlots, NextIsMetered, LimitsStayTyped, FixedStaysTyped DEF TokenInv
<1>3. Inv => TypeOK
  <2> SUFFICES ASSUME Inv PROVE TypeOK OBVIOUS
  <2>1. dailyLimit \in Nat /\ dailySpent \in Nat /\ moved \in [Tier -> Nat]
    BY DEF MeterInv, AmountsAreNatural
  <2>2. /\ tokenConfigs \in [Token -> {c \in TokenConfig : HasTiers(c) => c.dailyLimit > 0}]
        /\ tokenDailySpent \in [Token -> Nat] /\ tokenMoved \in [Token -> [Tier -> Nat]]
    BY DEF TokenInv, TokenFacts, TokensAreTyped, TiersAreCapped
  <2>3. frame = NoFrame \/ frame \in [tier : Tier, calls : Seq(Call)]
    BY DEF TokenInv, FrameIsTyped
  <2>4. /\ weightConfig \in Policies \cup {Unset} /\ bundlePolicy \in Policies \cup {Unset}
        /\ bundle \in Seq(UserOps) /\ validated \in 0 .. Len(bundle) /\ executed \in 0 .. validated
        /\ slots \in [Keys -> [alg : Alg, weight : UInt8]]
    BY DEF SlotInv, BundleFacts, StoredPolicy, Slot
  <2>5. /\ minDailyLimit \in Nat /\ blockUnconfiguredTokens \in BOOLEAN
        /\ guarded \in BOOLEAN /\ approvedAlgorithms \subseteq Alg
    BY DEF FixedTypes
  <2>6. /\ tier1Limit \in Nat /\ tier2Limit \in Nat /\ tierLimitsInitialized \in BOOLEAN
        /\ tierLimitNonce \in 0 .. MaxTierChanges
    BY DEF LimitTypes
  <2> HIDE DEF Inv
  <2> QED BY <2>1, <2>2, <2>3, <2>4, <2>5, <2>6 DEF TypeOK
<1> HIDE DEF Inv
<1> QED BY <1>1, <1>2, <1>3, PTL DEF Spec
================================================================================
