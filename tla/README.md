# TLA+ models of AirAccount

This directory specifies the AirAccount contracts (ERC-4337 accounts with social
recovery, tiered signatures, spending limits and modules) and the scripts that ship
and accept their releases in TLA+, checks the specifications with TLC on small
instances, and proves the central invariants for all instances with TLAPS. Source paths are relative to the repository's `src/`.
`PROJECT.json` maps every definition to the lines it models and lists the runs,
the mutants that show each property can fail, the findings, the hazards and the
theorems.

## The system and its parts

One account is a proxy (`AAStarAirAccountV7`) whose code is split over an abstract
base and an extension reached by delegatecall; both work on one storage layout. The
account owns a guard contract and calls validators, modules and registries. All
handlers are atomic EVM transactions; concurrency is the order in which the owner,
guardians, relayers, bundlers and anybody send transactions, and the order in which
an ERC-4337 bundle validates and executes its operations.

| Part | State | Operations | Interacts with | What makes it correct |
|---|---|---|---|---|
| Guardian governance (`AAStarAirAccountBase`, `AirAccountExtension`) | owner, passkey, three guardian slots with P-256 keys, announcements, recovery round, three nonces | bootstrap additions, signed additions and removals, propose / approve / cancel / execute recovery (transaction or relayed signature) | weighted policy (a set change or a recovery voids its pending change), session keys (recovery orphans sessions) | slots stay packed and distinct; control moves only by an approved and aged round; no signature counts twice; votes stay with who cast them |
| Weighted policy (same contracts) | policy, pending weakening with its votes | setWeightConfig, propose / approve / execute / cancel change | guardians vote; execution resolves weights with it | no set of signatures gains a tier without consent; one signature alone authorises nothing |
| Execution and tiers (same contracts, `AlgTierLib`) | tier limits with latch and nonce, whitelist, transient authentication slots | validateUserOp, executeUserOp, execute, executeBatch, executeFromExecutor, withdrawDepositTo, tier changes | EntryPoint bundles, guard, policy | an operation runs under what it proved; a day's ETH stays within its tiers |
| Spending guard (`AAStarGlobalGuard`) | daily limit and floor, token configurations, records of the day, strict mode | recordSpend, recordTokenSpend, configuration that only tightens | called by the account alone | the record is what left; caps and token tiers hold over a day |
| `SessionKeyValidator` | sessions, owner bindings, velocity counters, grant nonces, slot counter | grant (owner or signature), revoke, validate, checkSessionScope, recordCallForVelocity | reads the account's owner; called in both phases of a bundle | the cap covers all sessions; revocation is final; recovery ends sessions; the rate is bounded |
| Module manager (`AirAccountExtension`) | installed modules, active hook, install timelock, pending installation, nonce | install, propose / execute / cancel installation, uninstall, set timelock | guardians sign; the modules' callbacks | nothing is installed behind the guardians' back; a stale proposal dies; no signature serves twice |
| `ForceExitModule` | per account: initialized, rollup, pending exit with approvals and a guardian snapshot | onInstall, onUninstall, propose, approve, execute, cancel | reads the account's guardians and owner, executes through the account | an exit has two guardians of the moment behind it |
| Validator router (`AAStarValidator`) | algorithm table, setup flag, proposals | register, propose, execute, close setup | account's signature routing | after setup only timelocked additions; entries never change |
| BLS key registry, aggregator | key table, owner | register, revoke, update | BLS signatures | an aggregate uses registered keys only |
| EIP-7702 delegate (`AirAccountDelegate`) | guardians, rescue with approvals | initialize, initiate / approve / cancel / execute rescue | guard, guardians | two guardians and the delay before a rescue |
| Account factory | deployed accounts, relay nonces | createAccount and variants | all initial states | every account starts with a valid guardian set and guard |
| Agent registry | owner of each agent, list of each owner | register, deregister, transfer | - | lists and indices agree |
| Call data parsers and their registry | add-only table | register; pure parsing | token guard | what is metered is what the call moves |
| Deployment scripts (`scripts/deploy-*.ts`, setup scripts) | the chain, the deployer's pending transactions, the environment file | deploy, take over an address, wire, check, wait, print | set-once setters of router, registry and factory | what is printed exists, is wired and was built together; a retry ships |
| Acceptance scripts (`scripts/e2e-*.ts`, `e2e-v0172/`) | what earlier runs left on the chain, pass and fail counters | send, read, expect a refusal, count, exit | bundlers, every contract of a release | green is earned, red means a fault, a broken release is never accepted |
| Signature formats (ECDSA, P-256, BLS, WebAuthn) | none | verification | validation | cryptography, outside of this project |

The hazards, each at its line, are in `PROJECT.json`; they are of six families:
races between the owner and the guardians; votes and nonces kept by slot while
slots move; state read in the validation phase and used in the execution phase;
sums that must hold over a day although each call is checked alone; counters and
windows at their edges; and scripts that are interrupted, time out and are started
again on what they left behind.

## Modules

| Module | Models | Uses |
|---|---|---|
| `WeightPolicy` | `_validateWeightConfig`, `_isWeakening`, `_resolveWeightedAlgId`, the weight accumulator: pure operators | - |
| `GuardianGovernance` | owner, passkey, guardian slots, recovery, weighted policy: state machine | `WeightPolicy` |
| `GuardianConsensus` | abstract specification: an electorate, a ballot, a draft; no slots, nonces or signatures | `WeightPolicy` |
| `GuardianRefinement` | the refinement mapping from the first to the second | both |
| `WeightPolicyTheorems` | proofs about the operators | TLAPS |
| `GuardianGovernanceTheorems` | proofs about the account and of the refinement | TLAPS |
| `SpendingGuard` | `AAStarGlobalGuard`: its variables and handlers, as steps for its only caller | - |
| `TieredExecution` | validation and execution of bundles, owner transactions, tiers; composes the guard's steps | `SpendingGuard`, `WeightPolicy` |
| `TieredExecutionTheorems` | proofs about both | TLAPS |
| `SessionKeys` | `SessionKeyValidator` under bundles, recoveries and time | - |
| `SessionKeysTheorems` | proofs | TLAPS |
| `ForceExit` | `ForceExitModule`: its state and handlers for one account | - |
| `ModuleManager` | the ERC-7579 module manager, with the exit module among its modules and an owner and guardians who change | `ForceExit` |
| `ModuleManagerTheorems` | proofs about both | TLAPS |
| `DelegateRescue` | the rescue of `AirAccountDelegate` | - |
| `DelegateRescueTheorems` | proofs | TLAPS |
| `ReleasePlans` | the deployment scripts as data: their steps in order | - |
| `Rollout` | the execution of one of them on a chain that loses and delays, started again after failures | `ReleasePlans` |
| `RolloutTheorems` | proofs | TLAPS |
| `AcceptanceTests` | the acceptance scripts as data: what they send, read and expect to be refused | `ReleasePlans` |
| `AcceptanceSteps` | what a step does on a chain and what the script takes it for; what is asked of the plans | `AcceptanceTests` |
| `AcceptanceRun` | runs of one script, and their verdict | `AcceptanceSteps` |
| `AcceptanceTheorems` | proofs | TLAPS |
| `MC*` | instances for TLC | |

### GuardianGovernance

Variables are the storage fields of the same names; each action is one external
function, and carries its name. A guardian acts by four routes, each modelled: its
own transaction (`ProposeRecovery`, ...), a relayed P-256 signature
(`ProposeRecoveryWithSig`, ...), ECDSA signatures that the owner submits
(`RemoveGuardian`) and mixed signatures (`...WithMixedSigs`). A signature is the
record of what the code hashes (operation, nonce, arguments) and who signed;
`consumed` remembers the accepted ones, so that `NoReplay` says something about
nonces and bitmaps rather than about an assumption. Timestamps are kept as ages,
saturated at the largest value that the code can tell apart. `Init` is every
guardian set that `_initAccount` can leave.

### SpendingGuard and TieredExecution

The EntryPoint is external: `HandleOps` grows a bundle, `ValidateUserOp` validates
its operations one after another and stamps their slots, then `ExecuteUserOp`,
`RunCall`, `Return` and `Revert` run them in order. A revert restores what the
operation changed (`saved`), as the EVM does, and the bundle goes on. `slots` are
keyed by call data, like the code's `keccak256(callData)`; a wrapped operation
(through `executeUserOp`) stamps the key of its inner call data when it executes.
`moved` and `tokenMoved` record, apart from the guard, what left under which tier;
the properties compare them with the guard's records. `bundlePolicy` is the policy
under which the bundle validated, until that policy changes.

Abstractions: what cryptography establishes is part of the operation (`by` are the
sources that signed); hooks, session scopes and callees are the `Revert` that may
always happen; the owner's own transactions are not interleaved inside a bundle
(the owner is an EOA; inside a bundle, self-calls are in `RunCall`, and a policy
change by anybody is `ChangePolicy`); the guardians' consent to new tier limits is
an input, since the nonce it uses is all that the limits depend on. Accounts
without a guard are included (`guarded = FALSE`); the daily claims on ETH are made
for a guard with a positive limit, because at 0 the guard records nothing and the
code's tiers become tiers of one call.

### SessionKeys

ECDSA and P-256 sessions use mirrored handlers and share the slot counter; a key is
of either kind. `SignGrant` is the owner's signature, valid until the key's nonce
moves or the account has another owner; `GrantSession` is anybody submitting it, and
`revoked` is chosen by whoever submits because the grant hash leaves that field
out. A batch is several `ExecuteCall`s. `ChangeOwner` is
`executeRecovery`, whose own conditions are the subject of `GuardianGovernance`;
anybody may send it, in a bundle too. The clock (`now`) is explicit here because the
velocity window does arithmetic with it, and it stands still during a bundle. Target
and selector scopes only refuse calls and are left out.

### ModuleManager and ForceExit

`ForceExit` has the module's storage for one account and one action per external
function; `now` and `guardian` are the account's and the chain's, which it reads by
`guardians(i)` (`Guardians`: a P-256 guardian shows as the sentinel). `ModuleManager`
extends it with the account's side: `CallOnInstall` and `CallOnUninstall` are the two
callbacks, and `CallOnUninstall` may leave the module's state as it was, because
`_callLifecycle` ignores the result. `SetModuleInstallTimelock` is split into
`RaiseTimelock` (the owner alone) and `LowerTimelock` (with signatures).
How the owner and the guardians come to change is the subject of
`GuardianGovernance`; here `ExecuteRecovery`, `AddGuardian` and `RemoveGuardian` may
happen whenever their conditions on the result allow.

History variables say who stood behind what: `backing` the signers of the pending
exit, `assent` who signed module operations since a timelock last began to protect
the account, `announced` what a pending installation told to whom. `assent` of two
guardians is coarsened to "everybody", which keeps it small.

### DelegateRescue

The bitmaps are sets of slots and the timestamp is an age. The owner is the EOA's own
key, so nothing of the account matters to a rescue but its balance, which `Balance`
spends and refills. `Refusing` are destinations without a payable receiver.

### ReleasePlans and Rollout

A plan is a sequence of steps (deploy, deploy unless an address is given, CREATE2 unless
there is code, set unless equal or set, check, probe, version, nodes), each with the
way its receipt is awaited. `Rollout` runs a plan: `Send` puts a transaction into
the mempool, `Mine` takes them in nonce order, `Observe` reads the receipt, `TimeOut`
stops waiting without stopping the transaction, `Crash` ends the process, `Restart`
starts it with what the operator pasted into `env`. A set-once setter accepts an equal
address nowhere but where its contract does (`Accepts`).

### AcceptanceTests, AcceptanceSteps and AcceptanceRun

The chain is a set of facts about the contracts and accounts a script names. A step is
an operation with the facts it needs, is barred by, adds and removes, or a read, or an
expected refusal; `exact` says whether the script looks at the outcome, `whim` that
the script takes only some of the errors the step can meet, and `once` that a script
uses up what it finds. `AcceptanceSteps` says what a step does to a set of facts
(`Leaving`), whether it came out as the script means it to (`Met`) and what the script
takes for that (`Passes`: a transaction to an address without code succeeds).
`AcceptanceRun` starts a script on a release that is complete or lacks one fact
(`missing`), any number of times. A script without cases is one case.

`AcceptanceSteps` also states, as assumptions about the constant plans, what makes the
verdicts trustworthy: a transaction that may go to an address without code has a step
before or after it that notices (`PlansNoticeCode`), a fact that a script asserts has a
step which cannot come out as it should without it (`PlansNoticeLacks`), and on a
complete release the steps of a steady script, one after another, pass whatever runs
before it left (`PlansRunThrough`). They are conditions on one pass over a plan, not on
runs: TLC evaluates them for every script before it explores any state, so a plan
changed such that it no longer notices something is refused at once, by name.

## Runs

| Run | Instance | Shows |
|---|---|---|
| `GG_recovery` | 4 addresses, recovery timelock 2, 2 rounds, 1 signed change | no owner or candidate is a guardian; a quorum is announced; a lone guardian's round freezes the set; an approved recovery ends |
| `GG_mixed` | 2 addresses and 2 P-256 keys, 2 rounds, 2 changes of each kind | types, packed slots, no replay, control only by recovery |
| `GG_weights` | 4 addresses, four policies | votes stay with guardians, factors stay apart, no silent weakening, refinement of `GuardianConsensus` |
| `SP_spend` | one operation per bundle, all tiers, ETH and one token, owner, executor and withdrawals, amounts of a day up to 3 | types, exact meter, tiers and caps of a day, limits set once |
| `SP_bundle` | bundles of two operations with the same call, in 11 forms | which authentication an execution may use |
| `SK_sessions` | 2 keys, 1 slot, 2 people, 1 signed grant, 2 revocations of a key, 5 instants | cap, revocation, owner binding, calls at the moment of the call, rate |
| `SK_slots` | as above | *violation*: a grant submitted as revoked keeps a slot for good |
| `FX_modules` | 3 addresses, 2 P-256 keys, the exit module as executor and as hook, timelocks 0 and 1, 3 instants, 3 signed operations and 2 changes of owner or guardians, 4 of both | hook and types, exits backed by two present guardians, no unannounced installation by the owner with one guardian, no signature twice |
| `DR_rescue` | 3 addresses, one of them refusing transfers, timelock 2 | two guardians behind a rescue; an approved rescue ends |
| `RO_releases` | every deployment script, 7 starts, 2 faults (1 for scripts that take over addresses), 2 endpoints | printed addresses are right, wired and built together; a retried rollout ships |
| `AC_acceptance` | every acceptance script, any number of starts, 2 faults | clean runs are green, green is earned, a release that lacks an asserted fact is refused, a script becomes green |
| `AC_f_swallowed` | one script, no fault | *violation*: a demanded refusal that does not come is counted as PASS |

Each passing property has a mutant, a definition changed the way a bug would change
it (the operators introduced by "Faulty variant" or "A change a bug could make"), under which TLC finds the property violated.

### Bounds

* `MaxRounds`, `MaxChanges` stop a nonce of the governance from growing. Two rounds
  and two changes let a signature of the first be offered in the second; nothing in
  the code looks further back than equality of nonces. The proofs do without.
* Timelocks of 1 or 2 distinguish "too early", "at the limit", "later"; weight
  changes also "expired". Four addresses are three guardians, an owner and, after a
  recovery, a replaced one.
* `MaxDay` bounds what leaves in a day where no limit does; 3 is one more than every
  limit. `MaxTierChanges` 1 allows a guardian-approved reset after which the owner
  tries again. `MaxBundle` 2 is the least at which one operation can meet another's
  authentication. It is not the least at which the policy can change and change back
  between an operation and the one whose weight it finds; the theorems about the slots
  hold for bundles of any length, and TLC has checked their invariant once with three
  operations (3.4 million states), which is too long for a run.
* `MaxRevocations`, `MaxSignatures`, `Start` and `End` bound the sessions; one signed
  grant can be submitted before and after two revocations and by two owners. `Start`
  is at least two windows, as every real timestamp is (`ClockIsFarFromZero`).
* `FX_modules`: two keys are what a rotation of P-256 guardians takes, three addresses an
  owner with two guardians or a replaced one; a proposal is early, executable for one
  instant (`Grace` 0) and lapsed within three instants. Three signed operations are an
  installation, an uninstallation and a second installation; two changes replace a
  guardian. One payload is enough for an approval to be offered to a second proposal
  of it. Addresses, keys and payloads are symmetric: no definition orders them.
* `DR_rescue` is unbounded but for its three addresses.
* `RO_releases`: a fault costs at most two starts (one that fails and one that takes
  over), a step of the operator one each. A script whose starts are used up stops,
  hence no deadlock check; `ShipsEventually` holds with seven starts, so none is
  cut off. Scripts that start from nothing keep no state but the chain; for them two
  faults in one rollout are explored.
* `AC_acceptance`: the starts are unbounded; one fault can leave an operation pending and
  a second one can disturb the run that meets it.

### Fairness

`GG_recovery`: `WF(Tick)`, blocks keep coming, and `WF(ExecuteRecovery)`, because
anybody may send that transaction once it is due. Nobody is assumed to vote, sign or
propose, and the owner may do anything meanwhile. `DR_rescue` likewise: `WF(Tick)` and
`WF(ExecuteRescue)`.

`RO_releases`: a running script takes its next step, polls and times out (`WF` of its
actions: it is a sequential program), the chain mines what is pending (`WF(Mine(TRUE))`),
nodes of the validator network register, and the operator starts a failed script again
(`WF(Restart)`). Losing a transaction, crashing and forgetting are not fair, and
bounded. `AC_acceptance` likewise: the script runs on, is started again, and what is
pending lands or is lost (`WF(Settle)`).

## Proofs

`GuardianGovernanceTheorems` proves, for any sets of addresses, keys and policies and
any timelocks, `TypeCorrect`, `SlotsStayWellFormed`, `OwnerIsNeverGuardian`,
`VotersStayGuardians`, `FactorsStaySeparated`, `WeakeningIsConsented`,
`NoSignatureIsReplayed`, `ControlOnlyByRecovery`, `QuorumsAreAnnounced`,
`OneGuardianFreezes` and `OpenRoundsRunOn`. The assumptions are those of `GuardianGovernance`: the zero
address, the sentinel and the empty key are values of their own, the submitted
configurations are records of bytes, timelocks and bounds are naturals.

None of the state invariants is inductive alone. A slot stays distinct from the others
only if the owner, who adds guardians, is none of them; the owner stays out only if
the candidate of an open round does; votes stay with occupied slots only if no set
change happens while a round is open and a removal voids the pending change; and the
policy separates factors only if the pending one was checked too. `IInv` is their
conjunction, with two facts on stored records (`IdleRecords`, `PoliciesChecked`).
The proof of a step has one lemma for each group of actions; the delicate one is
`WithoutSlotMoves`, that the two arrays, shifted by one loop and cleared under
different conditions, stay in step. `NoSignatureIsReplayed` needs in addition that an
accepted signature is barred from now on: by a nonce that has moved on, or, within
the open round, by the bit of its slot. The last four are action properties
and follow from `IInv`, one step for each group of actions: every route that adds to a
set without a quorum has taken the announcement (`CompletionIsAnnounced`, which needs
packed slots to know the slot), no removal starts below three, and a single guardian
is no set of two signers (`QuorumTakesTwo`). `OpenRoundsRunOn` is the part of
`ApprovedRecoveryEnds` that needs no fairness: whatever is sent, an open round stays as it
is, only older and with more votes, and the guardians who may vote stay the same, until it
is executed or a second guardian votes to cancel it (`VotesCount`). (`RoundsRunOn` and
the delegate's `RescuesRunOn` hold in `GG_mixed` and `DR_rescue`; they are theorems only,
and no run repeats them.)

The same module proves `AccountImplementsConsensus`: under the mapping of
`GuardianRefinement`, the initial states are initial states of `GuardianConsensus` and
every action of the account is one of its actions or a stutter. The mapping turns slots
into identities, so the proof rests on `IInv`: a vote translates to a guardian because
its slot is occupied (`VotersAreGuardians`), a set of votes to as many guardians because
slots are distinct (`SlotsWellFormed`). One more fact is needed, that rounds and
changes which do not exist have no votes and no age (`RoundsHaveAge`).

`WeightPolicyTheorems` proves that the byte accumulator cannot overflow under a valid
policy (`AccumulatedFits`), that a change which `_isWeakening` lets pass gives no set
of signatures a higher tier (`NoWeakeningNoGain`), and that a valid policy separates
the factors (`ValidConfigSeparates`).

`DelegateRescueTheorems` proves, for any addresses and any timelock, that a rescue has
two different guardians behind it and waits for the timelock (`OnlyBackedRescues`), and
that an account initialised with one guardian twice has no rescue, ever: the one it starts can
neither be approved nor cancelled (`LoneGuardianIsStuckForEver`). Any pending rescue
keeps its destination and its votes until it is due and executed or two different
guardians cancel it (`PendingRescuesRunOn`); one to a destination that refuses ends in
no other way. The invariant ties the votes to the history: a slot with a vote holds a supporter, an
approved rescue has two votes, votes exist only while a rescue is pending, and a
guardian in slot 0 hides the same guardian in slot 1 from `_guardianIndex`.

`TieredExecutionTheorems` proves, for any calls, bundles, limits, tokens and policies,
that the meter is exact, that payments stay within their tier and the cap of the day,
in ETH (`TheMeterIsExact`, `OneFactorStaysInItsTier`, `TheCapHolds`) and in tokens
(`TokensStayInTier`), and that limits once set move only with guardians
(`LimitsStandWithoutGuardians`). The difficulty is the frame: a revert puts back what
was saved when the frame opened, so each invariant (`MeterInv`, `TokenInv`,
`LimitsInv`) says of the saved values what it says of the present ones, and that they
are earlier (`SavedIsEarlier`, `SavedTokensAreEarlier`); a revert then takes away and
never adds. Tokens need two more facts: a token with tiers has a cap
(`TiersAreCapped`), without which nothing would be recorded against the tiers, and the
record may be larger than what moved, when the token had another configuration that
day (`TokensAreRecorded`), which errs on the safe side because the required tier grows
with the amount.

Which authentication an execution may use (`WrappedOpsRunOnTheirOwn`,
`SharingNeedsTheSameCalls`) takes `SlotInv`: while the policy of the bundle stands,
every slot holds an algorithm, and every accumulator a weight, that some operation of
the bundle with that call data has earned (`SlotsAreEarned`); operations were admitted
under that policy (`ValidatedUnderOnePolicy`), those of a module under the tier of what
the module vouches for (`ModulesAreCapped`), and the slots that a wrapped operation
stamps for itself are its own; nothing is stamped before the first validation
(`FreshSlots`). The attempt to prove it for
bundles of any length changed the model: a policy that changes and changes back leaves
in a slot a weight that was accumulated under the policy of the time between, for which
two operations are not enough. `bundlePolicy` therefore forgets a policy that has
changed, and `SharesOnlyWithSameCall` claims nothing from then on.
`ExecutionIsTyped` proves the types of both modules, saved frames included. The assumptions are those of the two modules: submitted settings are
records of naturals and operations are operations.

`SessionKeysTheorems` proves, for any keys, people, terms and cap, the types,
`NoSessionEscapesTheCap`, `RevokedIsRevoked`, `SessionsOfOthersAreDead`,
`CallsNeedLiveSessions` and `RateIsBounded`. The invariant is that the grant nonce counts the revocations,
that an owner's signature carries the count of its moment, and that a session is bound
to the person who granted it (`GrantsAreBound`). The cap needs no assumption that keys
are finite: the sessions that hold a slot always are (`SlotsAreCounted`).
The rate needs to know where the calls of a session lie (`CallsAreInWindows`): all but
the last `count` of them came before the present window, and all but the last `count`
and `limit` more before the window before it, because a window admits at most `limit`.
A call admitted while the estimate is below the limit finds, 2·limit calls back, one
that is a whole window old; the floor in the estimate is what makes the factor 2
(`EstimateCoversTheWindow`).

`ModuleManagerTheorems` proves the types (`ManagerIsTyped`) and the three action
properties of `FX_modules` for any addresses, keys, modules and timelocks and any number of operations. They share one
fact, that the guardian list is a list of at most three distinct guardians, so that
signatures of two slots are signatures of two people. `NoSignatureCountsTwice` needs
that the last message was signed under a nonce that is gone (`LastNonceIsGone`).
`OwnerAloneGivesNotice` needs that without a timelock two guardians have agreed to
that, and that the pending proposal is the announced one (`NoticeInv`); its core is
`HashTellsApart`: the authorisation hash determines the guardian list although every
P-256 guardian shows as the same sentinel, because the keys are part of it.
`OnlyBackedExits` needs that every approval is the bit of the first slot of an address
that signed this proposal (`ApprovalsAreSigned`), so that two live bits are two people.
The assumptions are those of `ForceExit` and `ModuleManager`: the zero address, the
sentinel and the keys are told apart, and timelocks and bounds are naturals.

`RolloutTheorems` proves, for any number of starts, faults and endpoints and whatever
the operator forgets, the three safety properties of `RO_releases` of every script that
checks its receipts (`PublishedIsVerified`, `PrintedIsWired`, `PrintedIsBuilt`). The
plans are long constants, so the proof does not look at them: it uses what they have in
common, `Sound` (a step names keys that have an address, a key is created by one step, a
reusable contract is built from reusable or inherited ones, a slot is filled from one
source), and the assumption `PlansAreSound` that every strict plan is so. That
assumption has no parameter: TLC evaluates it for every script of `Plan`, completely, in
every run of `Rollout`. The invariant `RolloutInv` ties the chain, the process and the
environment together. Its delicate parts are about what is still pending after the
script stopped waiting: the awaited transaction is the last in nonce order, so its
receipt means that nothing is left behind it (`Awaiting`); a slot that is set stays set
because a set-once slot refuses a second value and any other pending call carries the
same one (`WiredTo`, `FitsSlot`); and where a script skips a call because the slot
already holds the address (`unlessEqual`), an older address may still be pending only if
it is not later than the one the script has, and not earlier than the one in the slot
(`OrderHolds`), hence the same. `EnvironmentIsBuilt` is what makes a reused contract
one that was built with the addresses next to it; it needs the diligent operator.

`AcceptanceTheorems` proves, for any number of starts and of faults and for every set of
the scripts, the three invariants of `AC_acceptance` (`GreenMeansMet`,
`BrokenIsNotAccepted`, `OnlyDisturbedRunsFail`). Like the rollouts, the scripts are long
constants which the proof does not look at: it uses the four assumptions of
`AcceptanceSteps`, which have no parameter and which TLC evaluates completely in every
run of `AcceptanceRun`. They speak of a plan and a set of facts; the proof lifts them to
runs that others have preceded, whose late transactions land between any two steps and
whose steps are skipped, repeated or abandoned. `ReleaseLasts` is the base: what no
operation of the script can make hold without the missing fact does not hold, and what
none takes away does, whatever has landed. While a run has counted no failure, the code
that a passed step has ensured is there (`CodeStands`); a transaction that did nothing
and passed has a step ahead of it that fails (`UnmetIsFoundOut`), so that the run cannot
end green; and a step that asserts what the release lacks is still ahead, or did not come
out (`LackIsAhead`). The verdict of an undisturbed run needs its whole course: until a
fault, the facts before each step are those of `Course` for some set of facts that runs
can leave (`RunsItsCourse`), because new salts make what earlier runs left irrelevant
(`Stale`), or because what they left is one of the few sets of `Finds`.

The attempt to prove the second one changed the model: the operation in the plan
`ExecuteRecovery` did not need the elapsed timelock, which the contract demands, so that
in the model a recovery could end before its time.

Every safety property of the passing runs is stated by a theorem. Only model-checked
are the four liveness properties (`ApprovedRecoveryEnds`, `ApprovedRescueEnds`,
`ShipsEventually`, `EventuallyGreen`): they need ENABLED, which is out of the prover's
reach. No module declares a RECURSIVE operator.

## Findings

Two runs show that the code does not do what it says:

* A signed grant does not cover the session's `revoked` flag; submitted with it, the
  session takes a slot that no revocation frees (`SK_slots`).
* `02-security-fixes.ts` demands a refusal from the aggregator by a `throw` inside the
  `try` block whose `catch` reports PASS; the case is green against an aggregator that
  does not refuse (`AC_f_swallowed`).

Comments that say more than the code does, met while modelling; no run is kept for them:

* `AAStarAirAccountBase.sol:1852` (F-W9): any change of the guardian set voids a pending
  weight change. The signed additions leave it; the refinement shows that no vote
  changes hands by that.
* `AAStarGlobalGuard.sol:8`: the configuration is monotonic. 0 means "no limit", and a
  limit may be decreased to 0; a token without tiers then looks unconfigured.
* `AAStarAirAccountBase.sol:130`: an operation reads exactly the authentication it
  validated under, save for identical call data. A wrapped and an unwrapped operation
  with different call data but the same inner call share a slot.
* `SessionKeyValidator.sol:406`: the window eliminates the burst of 2·limit-1 calls.
  Its floored weight lets it through late in the next window; `AtMostTwiceTheLimit` is
  what holds.
* `SessionKeyValidator.sol:101`: a session is valid only under the owner who granted it.
  The call does not check, so a recovery in the same bundle comes too late.
* `AirAccountDelegate.sol`: "only the EOA owner can cancel" (lines 323, 336), "a guardian cannot
  vote to cancel after already voting to approve" (414), and initialize's "window to
  cancel" for the EOA owner (136). Two guardians cancel, whatever they voted before, and
  the owner cannot.
* An exit's approval names its proposal by payload and timestamp only, so a proposal
  made again in the same block takes the signatures of the first. P-256 guardians are
  accepted at installation of the exit module but can never approve an exit.
* `_installModuleThreshold` is never written: the thresholds 40 and 100 do not occur.
* Scripts: `deploy-m7-r11.ts` prints an account whose creation failed;
  `e2e-v0.20-execute-recovery.ts` exits with 0 when there is no recovery;
  `e2e-v0172/04-admin.ts` has a case that passes either way; `e2e-l2-velocity.ts` takes
  any error for the refusal; `e2e-v0.20-onchain-p256-recovery.ts` proposes with a fixed
  salt and cannot be run twice.

## Not modelled

* Signature parsing and cryptography, the parsers' decoding, the aggregator's arithmetic:
  pure functions on bytes; what they establish is an input of the models.
* The factory's CREATE2 addresses, relayed creation and its nonces; the ERC-8004 calls
  and the parser registry, which are thin.
* The validator router's setup phase and timelock, the table of the key registry, and
  the agent registry. They are small owner-managed tables that no other model reads;
  what accounts rely on, that a registered entry never changes, is part of `Rollout`.
* Of the delegate, validation and execution, which meter one algorithm with the guard
  of `SpendingGuard`.
* Milestone tests, onboarding scripts and pages: straight-line demonstrations whose
  outcome nothing depends on.

## Plan

1. Done: governance with its abstract consensus, weighted policy, execution and guard,
   session keys, module manager with the exit module, the delegate's rescue, rollouts
   and acceptance.
2. Done: theorems for every safety property of the passing runs.
3. If more of the code is to be modelled: the router's proposals, the agent registry.
