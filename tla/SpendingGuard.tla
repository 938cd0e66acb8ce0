------------------------------ MODULE SpendingGuard ------------------------------
(***************************************************************************)
(* AAStarGlobalGuard: the contract that meters what an account moves in a  *)
(* day, in ETH and per ERC-20 token.  Its handlers answer to the account   *)
(* only; here they are the steps that TieredExecution composes into the    *)
(* transactions of the account.  dailySpent and tokenDailySpent are the    *)
(* entries of the current day: no other entry is ever read or written.     *)
(***************************************************************************)
EXTENDS Integers

CONSTANTS
  Token,         \* ERC-20 tokens
  TokenSettings, \* the token configurations that are ever submitted
  EthLimits      \* the ETH limits that are ever submitted

TokenConfig == [tier1Limit : Nat, tier2Limit : Nat, dailyLimit : Nat]

ASSUME SettingsAreConfigs == TokenSettings \subseteq TokenConfig
ASSUME LimitsAreAmounts == EthLimits \subseteq Nat

VARIABLES
  dailyLimit,              \* cap on the ETH of a day, 0 for none
  minDailyLimit,           \* floor of dailyLimit, immutable
  dailySpent,              \* ETH recorded today
  tokenConfigs,            \* tiers and daily cap of each token
  tokenDailySpent,         \* amount of each token recorded today
  blockUnconfiguredTokens  \* strict mode

ethVars == <<dailyLimit, minDailyLimit, dailySpent>>
tokenVars == <<tokenConfigs, tokenDailySpent, blockUnconfiguredTokens>>
guardVars == <<ethVars, tokenVars>>

Unconfigured == [tier1Limit |-> 0, tier2Limit |-> 0, dailyLimit |-> 0]

HasTiers(c) == c.tier1Limit > 0 \/ c.tier2Limit > 0

\* _validateTokenConfig: tiers need a daily cap to be counted against, and
\* tier 1, tier 2 and the cap come in this order.
CoherentTokenConfig(c) ==
  /\ HasTiers(c) => c.dailyLimit > 0
  /\ c.tier1Limit > 0 /\ c.tier2Limit > 0 => c.tier1Limit <= c.tier2Limit
  /\ c.tier2Limit > 0 => c.tier2Limit <= c.dailyLimit
  /\ c.tier1Limit > 0 /\ c.tier2Limit = 0 => c.tier1Limit <= c.dailyLimit

\* The constructor; the factory deploys a guard only for a positive daily limit.
GuardInit ==
  /\ dailyLimit \in EthLimits \ {0}
  /\ minDailyLimit \in EthLimits
  /\ dailySpent = 0
  /\ tokenConfigs \in [Token -> {c \in TokenSettings : CoherentTokenConfig(c)} \cup {Unconfigured}]
  /\ tokenDailySpent = [t \in Token |-> 0]
  /\ blockUnconfiguredTokens = FALSE

--------------------------------------------------------------------------------
(* Metering *)

\* Faulty variant: the whole limit is left for every amount.
RemainingAlways(limit, spent) == limit

Remaining(limit, spent) == IF limit > spent THEN limit - spent ELSE 0

\* Faulty variant: each amount is held against the whole limit.
RecordSpendPerCall(value) ==
  IF dailyLimit > 0 /\ value > 0
    THEN value <= dailyLimit /\ dailySpent' = dailySpent + value
    ELSE UNCHANGED dailySpent

RecordSpend(value) ==
  IF dailyLimit > 0 /\ value > 0
    THEN value <= Remaining(dailyLimit, dailySpent) /\ dailySpent' = dailySpent + value
    ELSE UNCHANGED dailySpent

\* The tier that a day's total of a token with tiers asks for.
RequiredTokenTier(c, cumulative) ==
  IF c.tier1Limit > 0 /\ cumulative <= c.tier1Limit THEN 1
  ELSE IF c.tier2Limit = 0 \/ cumulative <= c.tier2Limit THEN 2
  ELSE 3

RecordTokenSpend(token, amount, tier) ==
  LET c == tokenConfigs[token]
      cumulative == tokenDailySpent[token] + amount
  IN IF c = Unconfigured
       THEN ~blockUnconfiguredTokens /\ UNCHANGED tokenDailySpent
       ELSE /\ HasTiers(c) => RequiredTokenTier(c, cumulative) <= tier
            /\ IF c.dailyLimit > 0 /\ amount > 0
                 THEN /\ amount <= Remaining(c.dailyLimit, tokenDailySpent[token])
                      /\ tokenDailySpent' = [tokenDailySpent EXCEPT ![token] = cumulative]
                 ELSE UNCHANGED tokenDailySpent

--------------------------------------------------------------------------------
(* Configuration *)

AddTokenConfig(token, c) ==
  /\ tokenConfigs[token] = Unconfigured
  /\ CoherentTokenConfig(c)
  /\ tokenConfigs' = [tokenConfigs EXCEPT ![token] = c]
  /\ UNCHANGED <<ethVars, tokenDailySpent, blockUnconfiguredTokens>>

\* Faulty variant: the cap of a token with tiers may go to 0, and nothing is
\* recorded against the tiers any more.
DecreaseTokenDailyLimitToZero(token, limit) ==
  /\ limit < tokenConfigs[token].dailyLimit
  /\ tokenConfigs' = [tokenConfigs EXCEPT ![token].dailyLimit = limit]
  /\ UNCHANGED <<ethVars, tokenDailySpent, blockUnconfiguredTokens>>

DecreaseTokenDailyLimit(token, limit) ==
  /\ limit < tokenConfigs[token].dailyLimit
  /\ limit = 0 => ~HasTiers(tokenConfigs[token])
  /\ tokenConfigs' = [tokenConfigs EXCEPT ![token].dailyLimit = limit]
  /\ UNCHANGED <<ethVars, tokenDailySpent, blockUnconfiguredTokens>>

SetStrictMode(enabled) ==
  /\ blockUnconfiguredTokens' = enabled
  /\ UNCHANGED <<ethVars, tokenConfigs, tokenDailySpent>>

DecreaseDailyLimit(limit) ==
  /\ limit < dailyLimit
  /\ limit >= minDailyLimit
  /\ dailyLimit' = limit
  /\ UNCHANGED <<minDailyLimit, dailySpent, tokenVars>>

\* block.timestamp / 1 days moves on, to a day with nothing recorded.
NewDay ==
  /\ dailySpent' = 0
  /\ tokenDailySpent' = [t \in Token |-> 0]
  /\ UNCHANGED <<dailyLimit, minDailyLimit, tokenConfigs, blockUnconfiguredTokens>>

=================================================================================
