--------------------------- MODULE GuardianGovernance ---------------------------
(***************************************************************************)
(* Who controls an account, and how that changes: the owner key and the    *)
(* device passkey, the three guardian slots (an ECDSA address, or a P-256  *)
(* passkey behind a sentinel address), social recovery, the timelocked     *)
(* bootstrap of the guardian set, additions and removals that the          *)
(* guardians sign, and the weighted-signature policy with its              *)
(* guardian-approved changes.                                              *)
(*                                                                         *)
(* The handlers live in two contracts that share one storage               *)
(* (AAStarAirAccountBase, and AirAccountExtension reached by delegatecall) *)
(* and each runs as one atomic transaction; the interleavings are those of *)
(* transactions sent by the owner, the guardians, relayers and anybody.    *)
(*                                                                         *)
(* Abstractions.  A stored timestamp is kept as its age, which a Tick      *)
(* makes one older until no comparison of the code can tell it older: the  *)
(* code only ever compares a timestamp plus a constant with                *)
(* block.timestamp.  A bitmap of guardian slots is a set of slots.  A      *)
(* signature is the message it signs together with the identity of the key *)
(* that made it; any guardian may have signed any message.                 *)
(***************************************************************************)
EXTENDS Integers, FiniteSets, WeightPolicy

CONSTANTS
  Address,              \* accounts that can hold a key and send transactions
  P256Key,              \* P-256 public keys (x, y), x and y not zero
  NoAddress,            \* address(0)
  Sentinel,             \* P256_GUARDIAN_SENTINEL: marks a slot as P-256, nobody's key
  NoKey,                \* the key (0, 0)
  Configs,              \* the weight configurations that are ever submitted
  RecoveryTimelock,     \* RECOVERY_TIMELOCK
  GuardianAddTimelock,  \* GUARDIAN_ADD_TIMELOCK
  WeightTimelock,       \* WEIGHT_CHANGE_TIMELOCK
  WeightExpiry,         \* WEIGHT_CHANGE_EXPIRY
  MaxRounds,            \* bound: no recovery round is opened at this nonce
  MaxChanges            \* bound: no addition or removal is signed at this nonce

ASSUME DistinctValues ==
  /\ NoAddress \notin Address /\ Sentinel \notin Address /\ Sentinel # NoAddress
  /\ NoKey \notin P256Key /\ P256Key \cap (Address \cup {NoAddress, Sentinel}) = {}

ASSUME ConfigsAreRecords == Configs \subseteq WeightConfig

ASSUME TimeConstants ==
  /\ RecoveryTimelock \in Nat /\ GuardianAddTimelock \in Nat
  /\ WeightTimelock \in Nat /\ WeightExpiry \in Nat

ASSUME NonceBounds == MaxRounds \in Nat /\ MaxChanges \in Nat

RECOVERY_THRESHOLD == 2
WEIGHT_CHANGE_THRESHOLD == 2
MaxGuardians == 3
Slot == 0 .. 2

VARIABLES
  owner,                \* the ECDSA owner
  passkey,              \* p256KeyX / p256KeyY: the owner's device passkey
  guardian,             \* _guardian0 .. _guardian2
  guardianKey,          \* _guardianP256X0 .. _guardianP256Y2
  guardianCount,        \* _guardianCount
  pendingGuardian,      \* _pendingGuardian: an address, or the key a hash commits to
  pendingGuardianAge,   \* age of _pendingGuardianAt
  activeRecovery,       \* the recovery round: newOwner, age, approvals, cancellations
  recoveryNonce,        \* _recoveryNonce
  additionNonce,        \* _guardianAdditionNonce
  removalNonce,         \* _guardianRemovalNonce
  weightConfig,         \* the weighted-signature policy in force
  pendingWeightChange,  \* the weakening under vote: proposed, age, approvals
  consumed,             \* history: every guardian signature a handler has accepted
  replayed              \* history: some signature was accepted a second time

setVars == <<guardian, guardianKey, guardianCount>>
pendingVars == <<pendingGuardian, pendingGuardianAge>>
nonceVars == <<recoveryNonce, additionNonce, removalNonce>>
historyVars == <<consumed, replayed>>
vars == <<owner, passkey, setVars, pendingVars, activeRecovery, nonceVars,
          weightConfig, pendingWeightChange, historyVars>>

--------------------------------------------------------------------------------
(* Reading the state *)

Never == -1

\* The ages told apart of an announcement, a recovery round and a weight change.
AnnouncementAge == Never .. GuardianAddTimelock
RoundAge == Never .. RecoveryTimelock
ChangeAge == Never .. WeightExpiry + 1

\* One block later, for an age of one of these ranges.
Older(a, ages) == IF a # Never /\ a + 1 \in ages THEN a + 1 ELSE a

NoRecovery == [newOwner |-> NoAddress, age |-> Never, approvals |-> {}, cancellations |-> {}]
NoWeightChange == [proposed |-> Unset, age |-> Never, approvals |-> {}]

RecoveryActive == activeRecovery.newOwner # NoAddress
WeightChangeOpen == pendingWeightChange.age # Never

\* The slots below _guardianCount, the only ones the code looks at.
Occupied == 0 .. guardianCount - 1
IsP256(i) == guardian[i] = Sentinel

\* The key that speaks for slot i.
Identity(i) == IF IsP256(i) THEN guardianKey[i] ELSE guardian[i]

\* _guardianIndex(caller) returns i; no i at all is revert NotGuardian.
GuardianIndex(caller, i) ==
  /\ i \in Occupied
  /\ guardian[i] = caller
  /\ \A j \in 0 .. i - 1 : guardian[j] # caller

Quorum(slots) == Cardinality(slots) >= RECOVERY_THRESHOLD

\* onlyOwner: some transaction is sent by the owner's key.
OwnerCanSend == owner \in Address

--------------------------------------------------------------------------------
(* Guardian signatures *)

\* What slot i signs for an operation: bound to a nonce and to the arguments.
Signature(op, nonce, args, i) ==
  [op |-> op, nonce |-> nonce, args |-> args, by |-> Identity(i)]

Signatures(op, nonce, args, slots) == {Signature(op, nonce, args, i) : i \in slots}

\* The history of accepted signatures after these are accepted.
Accept(sigs) ==
  /\ consumed' = consumed \cup sigs
  /\ replayed' = (replayed \/ sigs \cap consumed # {})

\* The slots whose signatures a *MixedSigs handler accepts: distinct occupied
\* slots, at least the threshold of them.
MixedSigners(slots) == slots \subseteq Occupied /\ Quorum(slots)

--------------------------------------------------------------------------------
(* Deployment: _initAccount packs up to three distinct guardians.          *)

Vacant(i) == guardian[i] = NoAddress /\ guardianKey[i] = NoKey

\* The order of the checks in _initAccount leaves exactly these slots.
DeployedSlots ==
  /\ \A i \in Slot : i \notin Occupied => Vacant(i)
  /\ \A i \in Occupied :
       /\ guardian[i] \in (Address \cup {Sentinel}) \ {owner}
       /\ (guardianKey[i] # NoKey <=> IsP256(i))
       /\ \A j \in Occupied : i # j => Identity(i) # Identity(j)

Init ==
  /\ owner \in Address
  /\ passkey \in P256Key \cup {NoKey}
  /\ guardianCount \in 0 .. MaxGuardians
  /\ guardian \in [Slot -> Address \cup {Sentinel, NoAddress}]
  /\ guardianKey \in [Slot -> P256Key \cup {NoKey}]
  /\ DeployedSlots
  /\ pendingGuardian = NoAddress /\ pendingGuardianAge = Never
  /\ activeRecovery = NoRecovery
  /\ recoveryNonce = 0 /\ additionNonce = 0 /\ removalNonce = 0
  /\ weightConfig = Unset
  /\ pendingWeightChange = NoWeightChange
  /\ consumed = {} /\ replayed = FALSE

--------------------------------------------------------------------------------
(* The owner's passkey *)

SetP256Key(key) ==
  /\ OwnerCanSend
  /\ key \in P256Key
  /\ passkey = NoKey
  /\ passkey' = key
  /\ UNCHANGED <<owner, setVars, pendingVars, activeRecovery, nonceVars, weightConfig,
                 pendingWeightChange, historyVars>>

--------------------------------------------------------------------------------
(* Growing the guardian set *)

\* Fewer guardians than a quorum: the owner alone adds them.
Bootstrap == OwnerCanSend /\ ~RecoveryActive /\ guardianCount < RECOVERY_THRESHOLD

EligibleAddress(g) == g \in Address /\ g # owner
AddressIsNew(g) == \A i \in Occupied : guardian[i] # g
KeyIsNew(key) == \A i \in Occupied : IsP256(i) => guardianKey[i] # key

\* The addition that completes a quorum must have been proposed long enough ago.
CompletesQuorum == guardianCount + 1 >= RECOVERY_THRESHOLD
\* Faulty variant: the announcement need not have aged.
AnnouncedJustNow(g) == pendingGuardian = g /\ pendingGuardianAge # Never

Announced(g) ==
  /\ pendingGuardian = g
  /\ pendingGuardianAge # Never
  /\ pendingGuardianAge >= GuardianAddTimelock

ConsumeAnnouncement(g) ==
  IF CompletesQuorum
    THEN Announced(g) /\ pendingGuardian' = NoAddress /\ pendingGuardianAge' = Never
    ELSE UNCHANGED pendingVars

AppendAddress(g) ==
  /\ guardian' = [guardian EXCEPT ![guardianCount] = g]
  /\ guardianCount' = guardianCount + 1
  /\ UNCHANGED guardianKey

\* _addP256GuardianInternal
AppendKey(key) ==
  /\ key \in P256Key
  /\ guardianCount < MaxGuardians
  /\ KeyIsNew(key)
  /\ guardian' = [guardian EXCEPT ![guardianCount] = Sentinel]
  /\ guardianKey' = [guardianKey EXCEPT ![guardianCount] = key]
  /\ guardianCount' = guardianCount + 1

AddGuardian(g) ==
  /\ Bootstrap
  /\ EligibleAddress(g) /\ AddressIsNew(g)
  /\ ConsumeAnnouncement(g)
  /\ AppendAddress(g)
  /\ pendingWeightChange' = NoWeightChange
  /\ UNCHANGED <<owner, passkey, activeRecovery, nonceVars, weightConfig, historyVars>>

ProposeGuardianAddition(g) ==
  /\ Bootstrap
  /\ EligibleAddress(g) /\ AddressIsNew(g)
  /\ pendingGuardian' = g
  /\ pendingGuardianAge' = 0
  /\ UNCHANGED <<owner, passkey, setVars, activeRecovery, nonceVars, weightConfig,
                 pendingWeightChange, historyVars>>

AddP256Guardian(key) ==
  /\ Bootstrap
  /\ ConsumeAnnouncement(key)
  /\ AppendKey(key)
  /\ pendingWeightChange' = NoWeightChange
  /\ UNCHANGED <<owner, passkey, activeRecovery, nonceVars, weightConfig, historyVars>>

\* The key may be one that is a guardian already: only the addition checks.
ProposeP256GuardianAddition(key) ==
  /\ Bootstrap
  /\ key \in P256Key
  /\ pendingGuardian' = key
  /\ pendingGuardianAge' = 0
  /\ UNCHANGED <<owner, passkey, setVars, activeRecovery, nonceVars, weightConfig,
                 pendingWeightChange, historyVars>>

\* Neither of the signed additions clears a pending weight change.
AddGuardianWithMixedSigs(g, slots) ==
  /\ OwnerCanSend /\ ~RecoveryActive
  /\ EligibleAddress(g) /\ AddressIsNew(g)
  /\ guardianCount < MaxGuardians
  /\ MixedSigners(slots)
  /\ additionNonce < MaxChanges
  /\ Accept(Signatures("ADD_GUARDIAN", additionNonce, <<g>>, slots))
  /\ additionNonce' = additionNonce + 1
  /\ AppendAddress(g)
  /\ UNCHANGED <<owner, passkey, pendingVars, activeRecovery, recoveryNonce, removalNonce,
                 weightConfig, pendingWeightChange>>

AddP256GuardianWithMixedSigs(key, slots) ==
  /\ OwnerCanSend /\ ~RecoveryActive
  /\ MixedSigners(slots)
  /\ additionNonce < MaxChanges
  /\ Accept(Signatures("ADD_P256_GUARDIAN", additionNonce, <<key>>, slots))
  /\ additionNonce' = additionNonce + 1
  /\ AppendKey(key)
  /\ UNCHANGED <<owner, passkey, pendingVars, activeRecovery, recoveryNonce, removalNonce,
                 weightConfig, pendingWeightChange>>

--------------------------------------------------------------------------------
(* Shrinking the guardian set: the slots above the removed one move down.  *)

LastSlot == guardianCount - 1

\* The key of slot i once the guardian that was there has left it.
KeyCleared(i) == IF IsP256(i) THEN NoKey ELSE guardianKey[i]

\* Faulty variant: the keys do not move with their guardians.
WithoutSlotLeavingKeys(index) ==
  /\ guardian' = [i \in Slot |->
       IF i \in index .. LastSlot - 1 THEN guardian[i + 1]
       ELSE IF i = LastSlot THEN NoAddress
       ELSE guardian[i]]
  /\ guardianKey' = [guardianKey EXCEPT ![index] = KeyCleared(index)]
  /\ guardianCount' = guardianCount - 1

WithoutSlot(index) ==
  /\ guardian' = [i \in Slot |->
       IF i \in index .. LastSlot - 1 THEN guardian[i + 1]
       ELSE IF i = LastSlot THEN NoAddress
       ELSE guardian[i]]
  /\ guardianKey' = [i \in Slot |->
       IF i \in index .. LastSlot - 1 /\ IsP256(i + 1) THEN guardianKey[i + 1]
       ELSE IF i \in index .. LastSlot THEN KeyCleared(i)
       ELSE guardianKey[i]]
  /\ guardianCount' = guardianCount - 1

\* Faulty variant: the approvals of a pending weight change survive the removal.
VoidWeightChangeNever == UNCHANGED pendingWeightChange

\* F-W9: approvals are bits of slots, and slots are about to move.
VoidWeightChange == pendingWeightChange' = NoWeightChange

\* What both removal handlers do; slots are those whose signatures they take.
Remove(index, slots) ==
  /\ OwnerCanSend /\ ~RecoveryActive
  /\ guardianCount > 2
  /\ index \in Occupied
  /\ MixedSigners(slots)
  /\ removalNonce < MaxChanges
  /\ Accept(Signatures("REMOVE_GUARDIAN", removalNonce,
                       <<index, guardian[index], guardianKey[index]>>, slots))
  /\ removalNonce' = removalNonce + 1
  /\ WithoutSlot(index)
  /\ VoidWeightChange
  /\ UNCHANGED <<owner, passkey, pendingVars, activeRecovery, recoveryNonce, additionNonce,
                 weightConfig>>

\* The signers are recovered as addresses, so only ECDSA slots can be counted.
RemoveGuardian(index, slots) ==
  /\ \A i \in slots : ~IsP256(i)
  /\ Remove(index, slots)

RemoveGuardianWithMixedSigs(index, slots) == Remove(index, slots)

--------------------------------------------------------------------------------
(* Social recovery *)

\* Faulty variant: a guardian can be made the owner.
ValidNewOwnerOrGuardian(newOwner) ==
  newOwner \in Address \cup {Sentinel} /\ newOwner # owner /\ ~RecoveryActive

ValidNewOwner(newOwner) ==
  /\ newOwner \in Address \cup {Sentinel}
  /\ newOwner # owner
  /\ \A i \in Occupied : guardian[i] # newOwner
  /\ ~RecoveryActive

CommitProposal(newOwner, i) ==
  /\ activeRecovery' = [newOwner |-> newOwner, age |-> 0,
                        approvals |-> {i}, cancellations |-> {}]
  /\ recoveryNonce < MaxRounds
  /\ UNCHANGED recoveryNonce

CommitApproval(i) ==
  /\ activeRecovery' = [activeRecovery EXCEPT !.approvals = @ \cup {i}]
  /\ UNCHANGED recoveryNonce

\* Faulty variant: the first vote to cancel ends the round.
CommitCancelVoteAlone(i) == activeRecovery' = NoRecovery /\ recoveryNonce' = recoveryNonce + 1

\* Faulty variant: a cancelled round does not use up its nonce.
CommitCancelVoteKeepingNonce(i) ==
  /\ UNCHANGED recoveryNonce
  /\ LET votes == activeRecovery.cancellations \cup {i}
     IN activeRecovery' = IF Quorum(votes) THEN NoRecovery
                          ELSE [activeRecovery EXCEPT !.cancellations = votes]

\* The second vote to cancel ends the round.
CommitCancelVote(i) ==
  LET votes == activeRecovery.cancellations \cup {i}
  IN IF Quorum(votes)
       THEN activeRecovery' = NoRecovery /\ recoveryNonce' = recoveryNonce + 1
       ELSE /\ activeRecovery' = [activeRecovery EXCEPT !.cancellations = votes]
            /\ UNCHANGED recoveryNonce

\* Nothing else changes while a round is opened, voted on or cancelled.
VoteFrame ==
  UNCHANGED <<owner, passkey, setVars, pendingVars, additionNonce, removalNonce,
              weightConfig, pendingWeightChange>>

\* An ECDSA guardian votes by sending a transaction.
SentBy(caller, i) == GuardianIndex(caller, i) /\ VoteFrame /\ UNCHANGED historyVars

ProposeRecovery(caller, newOwner) ==
  /\ ValidNewOwner(newOwner)
  /\ \E i \in Slot : SentBy(caller, i) /\ CommitProposal(newOwner, i)

ApproveRecovery(caller) ==
  /\ RecoveryActive
  /\ \E i \in Slot \ activeRecovery.approvals : SentBy(caller, i) /\ CommitApproval(i)

CancelRecovery(caller) ==
  /\ RecoveryActive
  /\ \E i \in Slot \ activeRecovery.cancellations : SentBy(caller, i) /\ CommitCancelVote(i)

\* A P-256 guardian signs its vote for this round and candidate; a relayer sends it.
SignedBy(i, op, newOwner) ==
  /\ i \in Occupied /\ IsP256(i)
  /\ Accept({Signature(op, recoveryNonce, <<newOwner>>, i)})
  /\ VoteFrame

ProposeRecoveryWithSig(newOwner, i) ==
  /\ ValidNewOwner(newOwner)
  /\ SignedBy(i, "PROPOSE_RECOVERY", newOwner)
  /\ CommitProposal(newOwner, i)

ApproveRecoveryWithSig(i) ==
  /\ RecoveryActive
  /\ i \notin activeRecovery.approvals
  /\ SignedBy(i, "APPROVE_RECOVERY", activeRecovery.newOwner)
  /\ CommitApproval(i)

CancelRecoveryWithSig(i) ==
  /\ RecoveryActive
  /\ i \notin activeRecovery.cancellations
  /\ SignedBy(i, "CANCEL_RECOVERY", activeRecovery.newOwner)
  /\ CommitCancelVote(i)

\* Faulty variant: one vote against holds the recovery up.
RecoveryDueUnopposed ==
  /\ RecoveryActive
  /\ activeRecovery.age >= RecoveryTimelock
  /\ Quorum(activeRecovery.approvals)
  /\ activeRecovery.cancellations = {}

RecoveryDue ==
  /\ RecoveryActive
  /\ activeRecovery.age >= RecoveryTimelock
  /\ Quorum(activeRecovery.approvals)

\* Faulty variants: the round is deleted before its candidate is read; the old
\* owner's passkey, or its pending weight change, outlives the recovery.
HandOverAfterDelete ==
  owner' = NoRecovery.newOwner /\ passkey' = NoKey /\ pendingWeightChange' = NoWeightChange
HandOverKeepingPasskey ==
  /\ owner' = activeRecovery.newOwner
  /\ pendingWeightChange' = NoWeightChange
  /\ UNCHANGED passkey
HandOverKeepingWeightChange ==
  owner' = activeRecovery.newOwner /\ passkey' = NoKey /\ UNCHANGED pendingWeightChange

\* The new owner inherits neither the passkey nor the pending weight change.
HandOver ==
  /\ owner' = activeRecovery.newOwner
  /\ passkey' = NoKey
  /\ pendingWeightChange' = NoWeightChange

\* Anybody may send this one.
ExecuteRecovery ==
  /\ RecoveryDue
  /\ HandOver
  /\ activeRecovery' = NoRecovery
  /\ recoveryNonce' = recoveryNonce + 1
  /\ UNCHANGED <<setVars, pendingVars, additionNonce, removalNonce, weightConfig, historyVars>>

--------------------------------------------------------------------------------
(* The weighted-signature policy *)

WeightFrame ==
  UNCHANGED <<owner, passkey, setVars, pendingVars, activeRecovery, nonceVars, historyVars>>

\* onlyOwnerOrSelf: the account can always be made to call itself.
SetWeightConfig(config) ==
  /\ ValidConfig(config)
  /\ weightConfig.tier1 # 0 => ~IsWeakening(weightConfig, config)
  /\ ~WeightChangeOpen
  /\ weightConfig' = config
  /\ UNCHANGED pendingWeightChange
  /\ WeightFrame

ProposeWeightChange(config) ==
  /\ OwnerCanSend
  /\ ValidConfig(config)
  /\ IsWeakening(weightConfig, config)
  /\ ~WeightChangeOpen
  /\ ~RecoveryActive
  /\ pendingWeightChange' = [proposed |-> config, age |-> 0, approvals |-> {}]
  /\ UNCHANGED weightConfig
  /\ WeightFrame

ApproveWeightChange(caller) ==
  /\ WeightChangeOpen
  /\ pendingWeightChange.age <= WeightExpiry
  /\ \E i \in Slot \ pendingWeightChange.approvals :
       /\ GuardianIndex(caller, i)
       /\ pendingWeightChange' = [pendingWeightChange EXCEPT !.approvals = @ \cup {i}]
  /\ UNCHANGED weightConfig
  /\ WeightFrame

\* Anybody may send this one.
ExecuteWeightChange ==
  /\ WeightChangeOpen
  /\ pendingWeightChange.age <= WeightExpiry
  /\ Cardinality(pendingWeightChange.approvals) >= WEIGHT_CHANGE_THRESHOLD
  /\ pendingWeightChange.age >= WeightTimelock
  /\ weightConfig' = pendingWeightChange.proposed
  /\ pendingWeightChange' = NoWeightChange
  /\ WeightFrame

CancelWeightChange(caller) ==
  /\ WeightChangeOpen
  /\ caller # owner => \E i \in Slot : GuardianIndex(caller, i)
  /\ pendingWeightChange' = NoWeightChange
  /\ UNCHANGED weightConfig
  /\ WeightFrame

--------------------------------------------------------------------------------
(* block.timestamp advances. *)
Tick ==
  /\ pendingGuardianAge' = Older(pendingGuardianAge, AnnouncementAge)
  /\ activeRecovery' = [activeRecovery EXCEPT !.age = Older(@, RoundAge)]
  /\ pendingWeightChange' = [pendingWeightChange EXCEPT !.age = Older(@, ChangeAge)]
  /\ UNCHANGED <<owner, passkey, setVars, pendingGuardian, nonceVars, weightConfig, historyVars>>

--------------------------------------------------------------------------------
(* The specification *)

BootstrapStep ==
  \/ \E key \in P256Key : SetP256Key(key)
  \/ \E g \in Address : AddGuardian(g) \/ ProposeGuardianAddition(g)
  \/ \E key \in P256Key : AddP256Guardian(key) \/ ProposeP256GuardianAddition(key)

ConsensusStep ==
  \E slots \in SUBSET Slot :
    \/ \E g \in Address : AddGuardianWithMixedSigs(g, slots)
    \/ \E key \in P256Key : AddP256GuardianWithMixedSigs(key, slots)
    \/ \E index \in Slot : RemoveGuardian(index, slots) \/ RemoveGuardianWithMixedSigs(index, slots)

RecoveryStep ==
  \/ \E newOwner \in Address \cup {Sentinel} :
       \/ \E caller \in Address : ProposeRecovery(caller, newOwner)
       \/ \E i \in Slot : ProposeRecoveryWithSig(newOwner, i)
  \/ \E caller \in Address : ApproveRecovery(caller) \/ CancelRecovery(caller)
  \/ \E i \in Slot : ApproveRecoveryWithSig(i) \/ CancelRecoveryWithSig(i)
  \/ ExecuteRecovery

WeightStep ==
  \/ \E config \in Configs : SetWeightConfig(config) \/ ProposeWeightChange(config)
  \/ \E caller \in Address : ApproveWeightChange(caller) \/ CancelWeightChange(caller)
  \/ ExecuteWeightChange

Next == BootstrapStep \/ ConsensusStep \/ RecoveryStep \/ WeightStep \/ Tick

Spec == Init /\ [][Next]_vars

\* Blocks keep coming, and anybody who wants an executable recovery executed
\* can send the transaction; nobody is obliged to vote, to sign or to propose.
FairSpec == Spec /\ WF_vars(Tick) /\ WF_vars(ExecuteRecovery)

--------------------------------------------------------------------------------
(* Properties *)

Operation == {"ADD_GUARDIAN", "ADD_P256_GUARDIAN", "REMOVE_GUARDIAN", "PROPOSE_RECOVERY",
              "APPROVE_RECOVERY", "CANCEL_RECOVERY"}
Argument == {<<x>> : x \in Address \cup {Sentinel} \cup P256Key}
              \cup (Slot \X (Address \cup {Sentinel}) \X (P256Key \cup {NoKey}))
Message == [op : Operation, nonce : Nat, args : Argument, by : Address \cup P256Key]

\* Every variable has the type its storage slot gives it.
TypeOK ==
  /\ owner \in Address \cup {Sentinel}
  /\ passkey \in P256Key \cup {NoKey}
  /\ guardian \in [Slot -> Address \cup {Sentinel, NoAddress}]
  /\ guardianKey \in [Slot -> P256Key \cup {NoKey}]
  /\ guardianCount \in 0 .. MaxGuardians
  /\ pendingGuardian \in Address \cup P256Key \cup {NoAddress}
  /\ pendingGuardianAge \in AnnouncementAge
  /\ activeRecovery \in [newOwner : Address \cup {Sentinel, NoAddress}, age : RoundAge,
                         approvals : SUBSET Slot, cancellations : SUBSET Slot]
  /\ recoveryNonce \in Nat /\ additionNonce \in Nat /\ removalNonce \in Nat
  /\ weightConfig \in WeightConfig
  /\ pendingWeightChange \in [proposed : WeightConfig, age : ChangeAge, approvals : SUBSET Slot]
  /\ consumed \subseteq Message
  /\ replayed \in BOOLEAN

\* The guardian slots stay packed whatever was added and removed in whatever
\* order: a slot below the count holds one guardian, with a P-256 key exactly when
\* it carries the sentinel, a slot above is empty in both arrays, and nobody
\* holds two slots (so a quorum of slots is a quorum of guardians).
SlotsWellFormed ==
  /\ \A i \in Slot : i \notin Occupied => Vacant(i)
  /\ \A i \in Occupied : guardian[i] # NoAddress /\ (guardianKey[i] # NoKey <=> IsP256(i))
  /\ \A i, j \in Occupied : i # j => Identity(i) # Identity(j)

\* The owner never holds an ECDSA guardian slot, not even after a recovery put a
\* new owner in charge; and the candidate of the open round can take no slot
\* before the round ends (_validateNewOwner checks it only when it opens).
OwnerNotGuardian ==
  \A i \in Occupied : guardian[i] # owner /\ guardian[i] # activeRecovery.newOwner

\* Every guardian signature is accepted at most once, across the two removal
\* entry points, the two additions and all the recovery rounds.
NoReplay == ~replayed

\* Votes that count are votes of guardians: every slot that has voted in the open
\* round or on the open weight change is occupied.
VotersAreGuardians ==
  activeRecovery.approvals \cup activeRecovery.cancellations \cup pendingWeightChange.approvals
    \subseteq Occupied

\* A stored policy never gives a tier to one signature, never gives tier 3 to the
\* owner's two factors together, and its weights cannot overflow the uint8
\* accumulator of _validateWeightedSignature.
FactorSeparation == SeparatesFactors(weightConfig)

\* Once a policy is in force, no combination of signatures gains a tier unless a
\* change that two guardians voted for has waited out the timelock and is
\* executed, before it expires.
Consented ==
  /\ Quorum(pendingWeightChange.approvals)
  /\ pendingWeightChange.age \in WeightTimelock .. WeightExpiry
  /\ weightConfig' = pendingWeightChange.proposed
NoSilentWeakening ==
  [][weightConfig' # weightConfig /\ weightConfig.tier1 # 0 /\ ~Consented
       => \A B \in SUBSET Source : TierOf(weightConfig', B) <= TierOf(weightConfig, B)]_vars

\* A guardian set that can form a quorum never again becomes one that cannot, and
\* it first becomes one by adding a guardian that was announced, by name, at
\* least GuardianAddTimelock before.
QuorumIsAnnounced ==
  [][/\ guardianCount >= RECOVERY_THRESHOLD => guardianCount' >= RECOVERY_THRESHOLD
     /\ guardianCount < RECOVERY_THRESHOLD /\ guardianCount' >= RECOVERY_THRESHOLD
          => \E i \in Slot : /\ guardian[i] = NoAddress /\ guardian'[i] # NoAddress
                             /\ Identity(i)' = pendingGuardian
                             /\ pendingGuardianAge >= GuardianAddTimelock]_vars

\* Control changes hands only by a round of recovery: it takes two guardians and
\* the timelock, it leaves the old owner neither its passkey nor a pending weight
\* change, and short of that a passkey once set is not replaced.
ControlIsRecovered ==
  [][/\ owner' # owner =>
          /\ owner' = activeRecovery.newOwner
          /\ Quorum(activeRecovery.approvals)
          /\ activeRecovery.age >= RecoveryTimelock
          /\ passkey' = NoKey /\ pendingWeightChange' = NoWeightChange
     /\ passkey # NoKey /\ passkey' # passkey => owner' # owner]_vars

\* With a single guardian a proposal is final: no transaction ends the round,
\* changes the owner or grows the set (removal and cancellation need two).
LoneGuardianFreezes ==
  [][guardianCount = 1 /\ RecoveryActive
       => /\ RecoveryActive' /\ activeRecovery.newOwner' = activeRecovery.newOwner
          /\ UNCHANGED <<owner, setVars>>]_vars

\* A round, once open, runs on: it keeps its candidate, its age and everybody's
\* votes, and the slots that vote keep their guardians, until it is executed or a
\* second guardian votes to cancel it.  No transaction of the owner, of a single
\* guardian or of anybody else ends it, starts it afresh or takes a vote out of it.
RoundsRunOn ==
  [][RecoveryActive =>
       \/ /\ activeRecovery'.newOwner = activeRecovery.newOwner
          /\ activeRecovery'.age >= activeRecovery.age
          /\ activeRecovery.approvals \subseteq activeRecovery'.approvals
          /\ activeRecovery.cancellations \subseteq activeRecovery'.cancellations
          /\ UNCHANGED setVars
       \/ ~RecoveryActive' /\ owner' = activeRecovery.newOwner
       \/ ~RecoveryActive' /\ \E i, j \in Occupied :
            i # j /\ j \in activeRecovery.cancellations]_vars

\* A recovery that two guardians approve ends, executed or cancelled by two of
\* them, whatever the owner's key does meanwhile.
ApprovedRecoveryEnds ==
  (RecoveryActive /\ Quorum(activeRecovery.approvals)) ~> ~RecoveryActive
=================================================================================
