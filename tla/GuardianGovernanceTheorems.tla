----------------------- MODULE GuardianGovernanceTheorems -----------------------
(***************************************************************************)
(* The state invariants of GuardianGovernance hold for every set of        *)
(* addresses, keys and policies and for every timelock.  None of them is   *)
(* inductive alone: the types of the accepted signatures need the slots to *)
(* be well formed, the slots need that the owner is no guardian (it is the *)
(* owner who adds them), and that needs the candidate of the open round to *)
(* stay out of the slots.  They are proved together, as IInv.              *)
(* The action properties, about replay, consent, control and quorums,      *)
(* follow from it with one more conjunct each.                             *)
(*                                                                         *)
(* The last part proves that GuardianGovernance implements                 *)
(* GuardianConsensus: the initial states map to initial states, and every  *)
(* transaction maps to one step of the consensus or to none.  The mapping  *)
(* replaces a slot by the key that speaks for it, so all of the argument   *)
(* is about which slots a step moves and whether a bitmap of votes moves   *)
(* with them.                                                              *)
(***************************************************************************)
EXTENDS GuardianRefinement, WeightPolicyTheorems, FiniteSetTheorems

\* A record that is not in use has been deleted whole.
IdleRecords ==
  /\ ~RecoveryActive => activeRecovery = NoRecovery
  /\ ~WeightChangeOpen => pendingWeightChange = NoWeightChange

\* Every policy that can be in force has passed _validateWeightConfig.
PoliciesChecked ==
  /\ weightConfig = Unset \/ ValidConfig(weightConfig)
  /\ WeightChangeOpen => ValidConfig(pendingWeightChange.proposed)

IInv ==
  /\ TypeOK
  /\ SlotsWellFormed
  /\ OwnerNotGuardian
  /\ VotersAreGuardians
  /\ IdleRecords
  /\ PoliciesChecked

--------------------------------------------------------------------------------
(* The guardian slots *)

SetTypes ==
  /\ guardian \in [Slot -> Address \cup {Sentinel, NoAddress}]
  /\ guardianKey \in [Slot -> P256Key \cup {NoKey}]
  /\ guardianCount \in 0 .. MaxGuardians

\* Whoever holds an occupied slot is an address or a P-256 key.
LEMMA OccupiedIdentity ==
  ASSUME SetTypes, SlotsWellFormed, NEW i \in Occupied
  PROVE  i \in Slot /\ Identity(i) \in Address \cup P256Key
<1>1. i \in Slot
  BY SMT DEF SetTypes, Occupied, Slot, MaxGuardians
<1>2. guardian[i] # NoAddress /\ (guardianKey[i] # NoKey <=> IsP256(i))
  BY DEF SlotsWellFormed
<1>3. QED
  BY <1>1, <1>2 DEF SetTypes, Identity, IsP256

\* Appending an address that holds no slot leaves the slots well formed.
LEMMA AppendAddressSlots ==
  ASSUME SetTypes, SlotsWellFormed, guardianCount < MaxGuardians,
         NEW g \in Address, AddressIsNew(g), AppendAddress(g)
  PROVE  SetTypes' /\ SlotsWellFormed'
<1>1. PICK n \in Slot : n = guardianCount
  BY SMT DEF SetTypes, MaxGuardians, Slot
<1>2. /\ Occupied' = Occupied \cup {n}
      /\ n \notin Occupied /\ Occupied \subseteq Slot
  BY <1>1, SMT DEF Occupied, AppendAddress, Slot
<1>3. /\ guardianKey' = guardianKey
      /\ guardian'[n] = g
      /\ \A i \in Slot \ {n} : guardian'[i] = guardian[i]
  BY <1>1 DEF AppendAddress, SetTypes
<1>4. SetTypes'
  <2>1. guardian' \in [Slot -> Address \cup {Sentinel, NoAddress}]
    BY <1>1 DEF AppendAddress, SetTypes
  <2>2. guardianCount' \in 0 .. MaxGuardians
    BY SMT DEF AppendAddress, SetTypes, MaxGuardians
  <2>3. QED
    BY <1>3, <2>1, <2>2 DEF SetTypes
<1>5. guardianKey[n] = NoKey
  BY <1>1, <1>2 DEF SlotsWellFormed, Vacant
<1>6. /\ Identity(n)' = g /\ ~IsP256(n)'
      /\ g # NoAddress /\ g # Sentinel
      /\ \A i \in Occupied : Identity(i)' = Identity(i) /\ (IsP256(i)' <=> IsP256(i))
  BY <1>2, <1>3, DistinctValues DEF Identity, IsP256
<1>7. ASSUME NEW i \in Occupied
      PROVE  Identity(i) # g
  <2>1. CASE IsP256(i)
    BY <2>1, OccupiedIdentity, DistinctValues DEF Identity, SetTypes, SlotsWellFormed
  <2>2. CASE ~IsP256(i)
    BY <2>2 DEF AddressIsNew, Identity
  <2>3. QED
    BY <2>1, <2>2
<1>8. \A i \in Slot : i \notin Occupied' => Vacant(i)'
  BY <1>2, <1>3 DEF SlotsWellFormed, Vacant
<1>9. \A i \in Occupied' : guardian'[i] # NoAddress /\ (guardianKey'[i] # NoKey <=> IsP256(i)')
  BY <1>2, <1>3, <1>5, <1>6 DEF SlotsWellFormed
<1>10. \A i, j \in Occupied' : i # j => Identity(i)' # Identity(j)'
  BY <1>2, <1>6, <1>7 DEF SlotsWellFormed
<1>11. QED
  BY <1>4, <1>8, <1>9, <1>10 DEF SlotsWellFormed

\* So does appending a P-256 key that holds no slot.
LEMMA AppendKeySlots ==
  ASSUME SetTypes, SlotsWellFormed, NEW key \in P256Key, AppendKey(key)
  PROVE  SetTypes' /\ SlotsWellFormed'
<1>1. PICK n \in Slot : n = guardianCount
  BY SMT DEF SetTypes, MaxGuardians, Slot, AppendKey
<1>2. /\ Occupied' = Occupied \cup {n}
      /\ n \notin Occupied /\ Occupied \subseteq Slot
  BY <1>1, SMT DEF Occupied, AppendKey, Slot
<1>3. /\ guardian'[n] = Sentinel /\ guardianKey'[n] = key
      /\ \A i \in Slot \ {n} : guardian'[i] = guardian[i] /\ guardianKey'[i] = guardianKey[i]
  BY <1>1 DEF AppendKey, SetTypes
<1>4. SetTypes'
  <2>1. /\ guardian' \in [Slot -> Address \cup {Sentinel, NoAddress}]
        /\ guardianKey' \in [Slot -> P256Key \cup {NoKey}]
    BY <1>1 DEF AppendKey, SetTypes
  <2>2. guardianCount' \in 0 .. MaxGuardians
    BY SMT DEF AppendKey, SetTypes, MaxGuardians
  <2>3. QED
    BY <2>1, <2>2 DEF SetTypes
<1>5. /\ Identity(n)' = key /\ IsP256(n)' /\ Sentinel # NoAddress
      /\ \A i \in Occupied : Identity(i)' = Identity(i) /\ (IsP256(i)' <=> IsP256(i))
  BY <1>2, <1>3, DistinctValues DEF Identity, IsP256
<1>6. ASSUME NEW i \in Occupied
      PROVE  Identity(i) # key
  <2>1. CASE IsP256(i)
    BY <2>1 DEF AppendKey, KeyIsNew, Identity
  <2>2. CASE ~IsP256(i)
    BY <2>2, <1>2, DistinctValues DEF Identity, SetTypes
  <2>3. QED
    BY <2>1, <2>2
<1>7. \A i \in Slot : i \notin Occupied' => Vacant(i)'
  BY <1>2, <1>3 DEF SlotsWellFormed, Vacant
<1>8. \A i \in Occupied' : guardian'[i] # NoAddress /\ (guardianKey'[i] # NoKey <=> IsP256(i)')
  BY <1>2, <1>3, <1>5, DistinctValues DEF SlotsWellFormed
<1>9. \A i, j \in Occupied' : i # j => Identity(i)' # Identity(j)'
  BY <1>2, <1>5, <1>6 DEF SlotsWellFormed
<1>10. QED
  BY <1>4, <1>7, <1>8, <1>9 DEF SlotsWellFormed

\* The slot that a guardian moves to when slot index is vacated, seen from where
\* it arrives: slot i is filled from Origin(index, i).
Origin(index, i) == IF i < index THEN i ELSE i + 1

\* A removal moves every later guardian down by one slot, with its key if it has
\* one, and leaves neither an address nor a key behind: the two arrays are shifted
\* by one loop but cleared under different conditions.
LEMMA WithoutSlotMoves ==
  ASSUME SetTypes, SlotsWellFormed, NEW index \in Occupied, WithoutSlot(index)
  PROVE  /\ SetTypes'
         /\ \A i \in Slot : i \notin Occupied' => Vacant(i)'
         /\ \A i \in Occupied' : /\ Origin(index, i) \in Occupied
                                 /\ guardian'[i] = guardian[Origin(index, i)]
                                 /\ guardianKey'[i] = guardianKey[Origin(index, i)]
<1>1. /\ guardianCount \in 1 .. 3 /\ Occupied \subseteq Slot
      /\ index \in Slot /\ index <= LastSlot /\ LastSlot \in Slot /\ LastSlot = guardianCount - 1
      /\ guardianCount' = guardianCount - 1
  BY SMT DEF SetTypes, MaxGuardians, Occupied, LastSlot, Slot, WithoutSlot
<1>2. Occupied = 0 .. LastSlot /\ Occupied' = 0 .. LastSlot - 1
  BY <1>1, SMT DEF Occupied
<1>3. \A i \in Slot : /\ i \in 0 .. LastSlot => guardian[i] # NoAddress
                      /\ i \in 0 .. LastSlot => (guardianKey[i] # NoKey <=> guardian[i] = Sentinel)
                      /\ i \notin 0 .. LastSlot => guardian[i] = NoAddress /\ guardianKey[i] = NoKey
  BY <1>2 DEF SlotsWellFormed, Vacant, IsP256
<1>4. ASSUME NEW i \in Slot
      PROVE  /\ i \in index .. LastSlot - 1 =>
                  i + 1 \in Slot /\ guardian'[i] = guardian[i + 1] /\ guardianKey'[i] = guardianKey[i + 1]
             /\ i < index => guardian'[i] = guardian[i] /\ guardianKey'[i] = guardianKey[i]
             /\ i >= LastSlot => guardian'[i] = NoAddress /\ guardianKey'[i] = NoKey
  <2>1. /\ guardian'[i] = IF i \in index .. LastSlot - 1 THEN guardian[i + 1]
                          ELSE IF i = LastSlot THEN NoAddress
                          ELSE guardian[i]
        /\ guardianKey'[i] = IF i \in index .. LastSlot - 1 /\ guardian[i + 1] = Sentinel
                               THEN guardianKey[i + 1]
                             ELSE IF i \in index .. LastSlot
                               THEN IF guardian[i] = Sentinel THEN NoKey ELSE guardianKey[i]
                             ELSE guardianKey[i]
    BY DEF WithoutSlot, IsP256, KeyCleared
  <2>2. CASE i \in index .. LastSlot - 1
    <3>1. i + 1 \in Slot /\ i + 1 \in 0 .. LastSlot /\ i \in 0 .. LastSlot /\ ~(i < index) /\ ~(i >= LastSlot)
          /\ i \in index .. LastSlot
      BY <1>1, <2>2, SMT DEF Slot
    <3>2. guardian'[i] = guardian[i + 1]
      BY <2>1, <2>2
    <3>3. guardianKey'[i] = guardianKey[i + 1]
      BY <1>3, <2>1, <2>2, <3>1
    <3>4. QED
      BY <3>1, <3>2, <3>3
  <2>3. CASE i < index
    <3>1. ~(i \in index .. LastSlot - 1) /\ ~(i \in index .. LastSlot) /\ i # LastSlot /\ ~(i >= LastSlot)
      BY <1>1, <2>3, SMT DEF Slot
    <3>2. QED
      BY <2>1, <2>3, <3>1
  <2>4. CASE i >= LastSlot
    <3>1. ~(i \in index .. LastSlot - 1) /\ ~(i < index) /\ (i = LastSlot \/ i \notin 0 .. LastSlot)
          /\ (i = LastSlot => i \in index .. LastSlot /\ i \in 0 .. LastSlot)
          /\ (i # LastSlot => i \notin index .. LastSlot)
      BY <1>1, <2>4, SMT DEF Slot
    <3>2. QED
      BY <1>3, <2>1, <3>1
  <2>5. QED
    BY <1>1, <2>2, <2>3, <2>4, SMT DEF Slot
<1>5. SetTypes'
  <2>1. ASSUME NEW i \in Slot
        PROVE  guardian'[i] \in Address \cup {Sentinel, NoAddress} /\ guardianKey'[i] \in P256Key \cup {NoKey}
    <3>1. i \in index .. LastSlot - 1 \/ i < index \/ i >= LastSlot
      BY <1>1, SMT DEF Slot
    <3>2. QED
      BY <1>4, <3>1 DEF SetTypes
  <2>2. /\ guardian' = [i \in Slot |-> guardian'[i]]
        /\ guardianKey' = [i \in Slot |-> guardianKey'[i]]
    BY DEF WithoutSlot
  <2>3. /\ guardian' \in [Slot -> Address \cup {Sentinel, NoAddress}]
        /\ guardianKey' \in [Slot -> P256Key \cup {NoKey}]
    BY <2>1, <2>2
  <2>4. guardianCount' \in 0 .. MaxGuardians
    BY <1>1, SMT DEF MaxGuardians
  <2>5. QED
    BY <2>3, <2>4 DEF SetTypes
<1>6. \A i \in Slot : i \notin Occupied' => Vacant(i)'
  <2>1. ASSUME NEW i \in Slot, i \notin Occupied'
        PROVE  i >= LastSlot
    BY <1>1, <1>2, <2>1, SMT DEF Slot
  <2>2. QED
    BY <1>4, <2>1 DEF Vacant
<1>7. ASSUME NEW i \in Occupied'
      PROVE  /\ Origin(index, i) \in Occupied
             /\ guardian'[i] = guardian[Origin(index, i)]
             /\ guardianKey'[i] = guardianKey[Origin(index, i)]
  <2>1. i \in Slot /\ (i < index \/ i \in index .. LastSlot - 1)
    BY <1>1, <1>2, <1>7, SMT DEF Slot
  <2>2. Origin(index, i) \in Occupied
    BY <1>1, <1>2, <1>7, SMT DEF Origin, Slot
  <2>3. CASE i < index
    BY <1>4, <2>1, <2>2, <2>3 DEF Origin
  <2>4. CASE i \in index .. LastSlot - 1
    <3>1. ~(i < index)
      BY <1>1, <2>1, <2>4, SMT DEF Slot
    <3>2. QED
      BY <1>4, <2>1, <2>2, <2>4, <3>1 DEF Origin
  <2>5. QED
    BY <2>1, <2>3, <2>4
<1>8. QED
  BY <1>5, <1>6, <1>7

\* Hence a removal leaves the slots well formed.
LEMMA WithoutSlotSlots ==
  ASSUME SetTypes, SlotsWellFormed, NEW index \in Occupied, WithoutSlot(index)
  PROVE  SetTypes' /\ SlotsWellFormed'
<1>1. Occupied' \subseteq Int /\ index \in Int
  BY SMT DEF Occupied, SetTypes, MaxGuardians, WithoutSlot
<1>2. ASSUME NEW i \in Occupied'
      PROVE  /\ Origin(index, i) \in Occupied
             /\ Identity(i)' = Identity(Origin(index, i))
             /\ guardian'[i] # NoAddress /\ (guardianKey'[i] # NoKey <=> IsP256(i)')
  BY <1>2, WithoutSlotMoves DEF Identity, IsP256, SlotsWellFormed
<1>3. \A i, j \in Occupied' : i # j => Origin(index, i) # Origin(index, j)
  BY <1>1, SMT DEF Origin
<1>4. \A i, j \in Occupied' : i # j => Identity(i)' # Identity(j)'
  BY <1>2, <1>3 DEF SlotsWellFormed
<1>5. QED
  BY <1>2, <1>4, WithoutSlotMoves DEF SlotsWellFormed

--------------------------------------------------------------------------------
(* What the handlers have in common *)

\* Signatures by guardians are messages, and accepting them keeps the history typed.
LEMMA AcceptTyped ==
  ASSUME TypeOK, SlotsWellFormed, NEW op \in Operation, NEW nonce \in Nat,
         NEW args \in Argument, NEW slots, slots \subseteq Occupied,
         Accept(Signatures(op, nonce, args, slots))
  PROVE  consumed' \subseteq Message /\ replayed' \in BOOLEAN
<1>1. SetTypes
  BY DEF TypeOK, SetTypes
<1>2. ASSUME NEW i \in slots
      PROVE  Signature(op, nonce, args, i) \in Message
  BY <1>1, OccupiedIdentity DEF Signature, Message
<1>3. Signatures(op, nonce, args, slots) \subseteq Message
  BY <1>2 DEF Signatures
<1>4. consumed' \subseteq Message
  BY <1>3 DEF Accept, TypeOK
<1>5. replayed' \in BOOLEAN
  BY DEF Accept, TypeOK
<1>6. QED
  BY <1>4, <1>5

\* A step that leaves the slots alone leaves them well formed.
LEMMA SlotsFrame ==
  ASSUME SlotsWellFormed, UNCHANGED setVars
  PROVE  SlotsWellFormed' /\ Occupied' = Occupied
BY DEF SlotsWellFormed, setVars, Occupied, Vacant, Identity, IsP256

\* With no round open, the record of the round is empty.
LEMMA NoRoundNoVotes ==
  ASSUME IdleRecords, ~RecoveryActive
  PROVE  /\ activeRecovery.newOwner = NoAddress
         /\ activeRecovery.approvals = {} /\ activeRecovery.cancellations = {}
BY DEF IdleRecords, NoRecovery

\* Deleting a pending weight change leaves an empty record.
LEMMA DeletedChange ==
  /\ NoWeightChange.age = Never /\ NoWeightChange.approvals = {}
  /\ NoWeightChange \in [proposed : WeightConfig, age : ChangeAge, approvals : SUBSET Slot]
<1>1. Unset \in WeightConfig
  BY UnsetSeparates
<1>2. Never \in ChangeAge
  BY TimeConstants, SMT DEF Never, ChangeAge
<1>3. QED
  BY <1>1, <1>2 DEF NoWeightChange

\* So does deleting a recovery round.
LEMMA DeletedRound ==
  /\ NoRecovery.newOwner = NoAddress
  /\ NoRecovery.approvals = {} /\ NoRecovery.cancellations = {}
  /\ NoRecovery \in [newOwner : Address \cup {Sentinel, NoAddress}, age : RoundAge,
                     approvals : SUBSET Slot, cancellations : SUBSET Slot]
<1>1. Never \in RoundAge
  BY TimeConstants, SMT DEF Never, RoundAge
<1>2. QED
  BY <1>1 DEF NoRecovery

\* What a change of the guardian set must do for the invariant to survive it:
\* happen with no round open, keep the slots well formed and the owner out of
\* them, and either void the pending weight change or only add slots.
LEMMA SetChange ==
  ASSUME IInv, ~RecoveryActive, TypeOK', SlotsWellFormed',
         UNCHANGED <<owner, activeRecovery, weightConfig>>,
         \A i \in Occupied' : guardian'[i] # owner,
         \/ pendingWeightChange' = NoWeightChange
         \/ UNCHANGED pendingWeightChange /\ Occupied \subseteq Occupied'
  PROVE  IInv'
<1> USE DEF IInv
<1>1. /\ activeRecovery'.newOwner = NoAddress
      /\ activeRecovery'.approvals = {} /\ activeRecovery'.cancellations = {}
  BY NoRoundNoVotes
<1>2. OwnerNotGuardian'
  BY <1>1 DEF OwnerNotGuardian, SlotsWellFormed
<1>3. VotersAreGuardians'
  BY <1>1, DeletedChange DEF VotersAreGuardians
<1>4. IdleRecords'
  BY DeletedChange DEF IdleRecords, RecoveryActive, WeightChangeOpen
<1>5. PoliciesChecked'
  BY DeletedChange DEF PoliciesChecked, WeightChangeOpen
<1>6. QED
  BY <1>2, <1>3, <1>4, <1>5

--------------------------------------------------------------------------------
(* Every action preserves the invariant *)

LEMMA BootstrapPreserves ==
  ASSUME IInv, BootstrapStep
  PROVE  IInv'
<1> USE DEF IInv
<1>1. SetTypes
  BY DEF TypeOK, SetTypes
<1>2. ASSUME NEW key \in P256Key, SetP256Key(key)
      PROVE  IInv'
  <2>1. TypeOK'
    BY <1>2 DEF SetP256Key, TypeOK, setVars, pendingVars, nonceVars, historyVars
  <2>2. SlotsWellFormed' /\ OwnerNotGuardian' /\ VotersAreGuardians' /\ IdleRecords' /\ PoliciesChecked'
    BY <1>2, SlotsFrame DEF SetP256Key, setVars, OwnerNotGuardian, VotersAreGuardians,
         IdleRecords, PoliciesChecked, RecoveryActive, WeightChangeOpen
  <2>3. QED
    BY <2>1, <2>2
<1>3. ASSUME NEW g \in Address, AddGuardian(g)
      PROVE  IInv'
  <2>1. ~RecoveryActive /\ g # owner /\ AddressIsNew(g) /\ AppendAddress(g)
    BY <1>3 DEF AddGuardian, Bootstrap, EligibleAddress
  <2>2. guardianCount < MaxGuardians
    BY <1>1, <1>3, SMT DEF AddGuardian, Bootstrap, RECOVERY_THRESHOLD, MaxGuardians, SetTypes
  <2>3. SetTypes' /\ SlotsWellFormed'
    BY <1>1, <2>1, <2>2, AppendAddressSlots
  <2>4. pendingGuardian' \in Address \cup P256Key \cup {NoAddress} /\ pendingGuardianAge' \in AnnouncementAge
    BY <1>3, DeletedChange, TimeConstants, SMT
       DEF AddGuardian, ConsumeAnnouncement, pendingVars, TypeOK, AnnouncementAge, Never
  <2>5. TypeOK'
    BY <1>3, <2>3, <2>4, DeletedChange DEF AddGuardian, TypeOK, SetTypes, nonceVars, historyVars
  <2>6. \A i \in Occupied' : guardian'[i] # owner
    <3>1. guardianCount \in Nat
      BY <1>1, SMT DEF SetTypes, MaxGuardians
    <3>2. Occupied' = Occupied \cup {guardianCount} /\ Occupied' \subseteq Slot
      BY <1>1, <2>1, <2>2, <3>1, SMT DEF Occupied, AppendAddress, Slot, MaxGuardians
    <3>3. QED
      BY <1>1, <2>1, <3>2 DEF AppendAddress, SetTypes, OwnerNotGuardian
  <2>7. QED
    BY <1>3, <2>1, <2>3, <2>5, <2>6, SetChange DEF AddGuardian
<1>4. ASSUME NEW key \in P256Key, AddP256Guardian(key)
      PROVE  IInv'
  <2>1. ~RecoveryActive /\ AppendKey(key) /\ owner # Sentinel
    BY <1>4, DistinctValues DEF AddP256Guardian, Bootstrap, OwnerCanSend
  <2>2. SetTypes' /\ SlotsWellFormed'
    BY <1>1, <2>1, AppendKeySlots
  <2>3. pendingGuardian' \in Address \cup P256Key \cup {NoAddress} /\ pendingGuardianAge' \in AnnouncementAge
    BY <1>4, TimeConstants, SMT
       DEF AddP256Guardian, ConsumeAnnouncement, pendingVars, TypeOK, AnnouncementAge, Never
  <2>4. TypeOK'
    BY <1>4, <2>2, <2>3, DeletedChange DEF AddP256Guardian, TypeOK, SetTypes, nonceVars, historyVars
  <2>5. \A i \in Occupied' : guardian'[i] # owner
    <3>1. guardianCount \in Nat
      BY <1>1, SMT DEF SetTypes, MaxGuardians
    <3>2. Occupied' = Occupied \cup {guardianCount} /\ Occupied' \subseteq Slot
      BY <1>1, <2>1, <3>1, SMT DEF Occupied, AppendKey, Slot, MaxGuardians, SetTypes
    <3>3. QED
      BY <1>1, <2>1, <3>2 DEF AppendKey, SetTypes, OwnerNotGuardian
  <2>6. QED
    BY <1>4, <2>1, <2>2, <2>4, <2>5, SetChange DEF AddP256Guardian
<1>5. ASSUME NEW g \in Address \cup P256Key,
             \/ ProposeGuardianAddition(g)
             \/ ProposeP256GuardianAddition(g)
      PROVE  IInv'
  <2>1. /\ pendingGuardian' = g /\ pendingGuardianAge' = 0
        /\ UNCHANGED <<owner, passkey, setVars, activeRecovery, nonceVars, weightConfig,
                       pendingWeightChange, historyVars>>
    BY <1>5 DEF ProposeGuardianAddition, ProposeP256GuardianAddition
  <2>2. 0 \in AnnouncementAge
    BY TimeConstants, SMT DEF AnnouncementAge, Never
  <2>3. TypeOK'
    BY <2>1, <2>2 DEF TypeOK, setVars, nonceVars, historyVars
  <2>4. SlotsWellFormed' /\ OwnerNotGuardian' /\ VotersAreGuardians' /\ IdleRecords' /\ PoliciesChecked'
    BY <2>1, SlotsFrame DEF setVars, OwnerNotGuardian, VotersAreGuardians,
         IdleRecords, PoliciesChecked, RecoveryActive, WeightChangeOpen
  <2>5. QED
    BY <2>3, <2>4
<1>6. QED
  BY <1>2, <1>3, <1>4, <1>5 DEF BootstrapStep

LEMMA ConsensusPreserves ==
  ASSUME IInv, ConsensusStep
  PROVE  IInv'
<1> USE DEF IInv
<1>1. SetTypes
  BY DEF TypeOK, SetTypes
<1>2. ASSUME NEW slots \in SUBSET Slot, NEW g \in Address, AddGuardianWithMixedSigs(g, slots)
      PROVE  IInv'
  <2>1. /\ ~RecoveryActive /\ g # owner /\ AddressIsNew(g) /\ AppendAddress(g)
        /\ guardianCount < MaxGuardians /\ slots \subseteq Occupied
    BY <1>2 DEF AddGuardianWithMixedSigs, EligibleAddress, MixedSigners
  <2>2. SetTypes' /\ SlotsWellFormed'
    BY <1>1, <2>1, AppendAddressSlots
  <2>3. consumed' \subseteq Message /\ replayed' \in BOOLEAN
    <3>1. "ADD_GUARDIAN" \in Operation /\ <<g>> \in Argument /\ additionNonce \in Nat
      BY DEF Operation, Argument, TypeOK
    <3>2. QED
      BY <1>2, <2>1, <3>1, AcceptTyped DEF AddGuardianWithMixedSigs
  <2>4. additionNonce' \in Nat
    BY <1>2, SMT DEF AddGuardianWithMixedSigs, TypeOK
  <2>5. TypeOK'
    BY <1>2, <2>2, <2>3, <2>4 DEF AddGuardianWithMixedSigs, TypeOK, SetTypes, pendingVars
  <2>6. \A i \in Occupied' : guardian'[i] # owner
    <3>1. guardianCount \in Nat
      BY <1>1, SMT DEF SetTypes, MaxGuardians
    <3>2. Occupied' = Occupied \cup {guardianCount} /\ Occupied' \subseteq Slot
      BY <1>1, <2>1, <3>1, SMT DEF Occupied, AppendAddress, Slot, MaxGuardians
    <3>3. QED
      BY <1>1, <2>1, <3>2 DEF AppendAddress, SetTypes, OwnerNotGuardian
  <2>7. Occupied \subseteq Occupied'
    BY <1>1, <2>1, SMT DEF Occupied, AppendAddress, SetTypes, MaxGuardians
  <2>8. QED
    BY <1>2, <2>1, <2>2, <2>5, <2>6, <2>7, SetChange DEF AddGuardianWithMixedSigs
<1>3. ASSUME NEW slots \in SUBSET Slot, NEW key \in P256Key, AddP256GuardianWithMixedSigs(key, slots)
      PROVE  IInv'
  <2>1. /\ ~RecoveryActive /\ owner # Sentinel /\ AppendKey(key) /\ slots \subseteq Occupied
    BY <1>3, DistinctValues DEF AddP256GuardianWithMixedSigs, OwnerCanSend, MixedSigners
  <2>2. SetTypes' /\ SlotsWellFormed'
    BY <1>1, <2>1, AppendKeySlots
  <2>3. consumed' \subseteq Message /\ replayed' \in BOOLEAN
    <3>1. "ADD_P256_GUARDIAN" \in Operation /\ <<key>> \in Argument /\ additionNonce \in Nat
      BY DEF Operation, Argument, TypeOK
    <3>2. QED
      BY <1>3, <2>1, <3>1, AcceptTyped DEF AddP256GuardianWithMixedSigs
  <2>4. additionNonce' \in Nat
    BY <1>3, SMT DEF AddP256GuardianWithMixedSigs, TypeOK
  <2>5. TypeOK'
    BY <1>3, <2>2, <2>3, <2>4 DEF AddP256GuardianWithMixedSigs, TypeOK, SetTypes, pendingVars
  <2>6. \A i \in Occupied' : guardian'[i] # owner
    <3>1. guardianCount \in Nat
      BY <1>1, SMT DEF SetTypes, MaxGuardians
    <3>2. Occupied' = Occupied \cup {guardianCount} /\ Occupied' \subseteq Slot
      BY <1>1, <2>1, <3>1, SMT DEF Occupied, AppendKey, Slot, MaxGuardians
    <3>3. QED
      BY <1>1, <2>1, <3>2 DEF AppendKey, SetTypes, OwnerNotGuardian
  <2>7. Occupied \subseteq Occupied'
    BY <1>1, <2>1, SMT DEF Occupied, AppendKey, SetTypes, MaxGuardians
  <2>8. QED
    BY <1>3, <2>1, <2>2, <2>5, <2>6, <2>7, SetChange DEF AddP256GuardianWithMixedSigs
<1>4. ASSUME NEW slots \in SUBSET Slot, NEW index \in Slot, Remove(index, slots)
      PROVE  IInv'
  <2>1. /\ ~RecoveryActive /\ index \in Occupied /\ WithoutSlot(index) /\ slots \subseteq Occupied
        /\ pendingWeightChange' = NoWeightChange
        /\ UNCHANGED <<owner, passkey, pendingVars, activeRecovery, recoveryNonce, additionNonce,
                       weightConfig>>
    BY <1>4 DEF Remove, VoidWeightChange, MixedSigners
  <2>2. SetTypes' /\ SlotsWellFormed'
    BY <1>1, <2>1, WithoutSlotSlots
  <2>3. consumed' \subseteq Message /\ replayed' \in BOOLEAN
    <3>1. guardian[index] \in Address \cup {Sentinel} /\ guardianKey[index] \in P256Key \cup {NoKey}
      BY <1>1, <2>1 DEF SetTypes, SlotsWellFormed
    <3>2. /\ "REMOVE_GUARDIAN" \in Operation /\ removalNonce \in Nat
          /\ <<index, guardian[index], guardianKey[index]>> \in Argument
      BY <3>1 DEF Operation, Argument, TypeOK
    <3>3. QED
      BY <1>4, <2>1, <3>2, AcceptTyped DEF Remove
  <2>4. removalNonce' \in Nat
    BY <1>4, SMT DEF Remove, TypeOK
  <2>5. TypeOK'
    BY <2>1, <2>2, <2>3, <2>4, DeletedChange DEF TypeOK, SetTypes, pendingVars
  <2>6. \A i \in Occupied' : guardian'[i] # owner
    BY <1>1, <2>1, WithoutSlotMoves DEF OwnerNotGuardian
  <2>7. QED
    BY <2>1, <2>2, <2>5, <2>6, SetChange
<1>5. QED
  BY <1>2, <1>3, <1>4 DEF ConsensusStep, RemoveGuardian, RemoveGuardianWithMixedSigs

\* A vote leaves the slots, the owner and the weight change alone; the round it
\* leaves behind is empty, or keeps its candidate and counts one more guardian.
LEMMA RecoveryPreserves ==
  ASSUME IInv, RecoveryStep
  PROVE  IInv'
<1> USE DEF IInv
<1>1. SetTypes
  BY DEF TypeOK, SetTypes
<1>2. Occupied \subseteq Slot
  BY <1>1, SMT DEF SetTypes, Occupied, Slot, MaxGuardians
<1>3. ASSUME VoteFrame, consumed' \subseteq Message, replayed' \in BOOLEAN,
             NEW i \in Occupied,
             \/ \E newOwner \in Address \cup {Sentinel} :
                  ValidNewOwner(newOwner) /\ CommitProposal(newOwner, i)
             \/ RecoveryActive /\ CommitApproval(i)
             \/ RecoveryActive /\ CommitCancelVote(i)
      PROVE  IInv'
  <2>1. SlotsWellFormed' /\ Occupied' = Occupied /\ guardian' = guardian /\ owner' = owner
    BY <1>3, SlotsFrame DEF VoteFrame, setVars
  <2>2. /\ activeRecovery' \in [newOwner : Address \cup {Sentinel, NoAddress}, age : RoundAge,
                                approvals : SUBSET Slot, cancellations : SUBSET Slot]
        /\ recoveryNonce' \in Nat
        /\ activeRecovery'.approvals \subseteq Occupied /\ activeRecovery'.cancellations \subseteq Occupied
        /\ \A j \in Occupied : guardian[j] # activeRecovery'.newOwner
        /\ activeRecovery'.newOwner = NoAddress => activeRecovery' = NoRecovery
    <3>1. CASE \E newOwner \in Address \cup {Sentinel} :
                 ValidNewOwner(newOwner) /\ CommitProposal(newOwner, i)
      <4>1. PICK newOwner \in Address \cup {Sentinel} :
                 ValidNewOwner(newOwner) /\ CommitProposal(newOwner, i)
        BY <3>1
      <4>2. 0 \in RoundAge
        BY TimeConstants, SMT DEF RoundAge, Never
      <4>3. i \in Slot /\ newOwner # NoAddress
        BY <1>2, DistinctValues
      <4>4. QED
        BY <4>1, <4>2, <4>3 DEF ValidNewOwner, CommitProposal, TypeOK
    <3>2. CASE RecoveryActive /\ CommitApproval(i)
      BY <1>2, <3>2 DEF CommitApproval, TypeOK, VotersAreGuardians, OwnerNotGuardian, RecoveryActive
    <3>3. CASE RecoveryActive /\ CommitCancelVote(i)
      <4>1. CASE Quorum(activeRecovery.cancellations \cup {i})
        <5>1. activeRecovery' = NoRecovery /\ recoveryNonce' = recoveryNonce + 1
          BY <3>3, <4>1 DEF CommitCancelVote
        <5>2. recoveryNonce' \in Nat
          BY <5>1, SMT DEF TypeOK
        <5>3. QED
          BY <5>1, <5>2, DeletedRound DEF SlotsWellFormed
      <4>2. CASE ~Quorum(activeRecovery.cancellations \cup {i})
        BY <1>2, <3>3, <4>2 DEF CommitCancelVote, TypeOK, VotersAreGuardians, OwnerNotGuardian,
             RecoveryActive
      <4>3. QED
        BY <4>1, <4>2
    <3>4. QED
      BY <1>3, <3>1, <3>2, <3>3
  <2>3. TypeOK'
    BY <1>3, <2>2 DEF VoteFrame, TypeOK, setVars, pendingVars
  <2>4. OwnerNotGuardian' /\ VotersAreGuardians'
    BY <1>3, <2>1, <2>2 DEF OwnerNotGuardian, VotersAreGuardians, VoteFrame
  <2>5. IdleRecords' /\ PoliciesChecked'
    BY <1>3, <2>2 DEF VoteFrame, IdleRecords, PoliciesChecked, RecoveryActive, WeightChangeOpen
  <2>6. QED
    BY <2>1, <2>3, <2>4, <2>5
<1>4. ASSUME NEW caller, NEW i \in Slot, SentBy(caller, i)
      PROVE  /\ VoteFrame /\ consumed' \subseteq Message /\ replayed' \in BOOLEAN
             /\ i \in Occupied
  BY <1>4 DEF SentBy, GuardianIndex, historyVars, TypeOK
<1>5. ASSUME NEW i \in Slot, NEW op \in Operation, NEW newOwner \in Address \cup {Sentinel},
             SignedBy(i, op, newOwner)
      PROVE  /\ VoteFrame /\ consumed' \subseteq Message /\ replayed' \in BOOLEAN
             /\ i \in Occupied
  <2>1. i \in Occupied /\ VoteFrame /\ Accept({Signature(op, recoveryNonce, <<newOwner>>, i)})
    BY <1>5 DEF SignedBy
  <2>2. Accept(Signatures(op, recoveryNonce, <<newOwner>>, {i}))
    <3>1. Signatures(op, recoveryNonce, <<newOwner>>, {i})
            = {Signature(op, recoveryNonce, <<newOwner>>, i)}
      BY DEF Signatures
    <3>2. QED
      BY <2>1, <3>1
  <2>3. <<newOwner>> \in Argument /\ recoveryNonce \in Nat /\ {i} \subseteq Occupied
    BY <2>1 DEF Argument, TypeOK
  <2>4. QED
    BY <2>1, <2>2, <2>3, AcceptTyped
<1>6. /\ "PROPOSE_RECOVERY" \in Operation /\ "APPROVE_RECOVERY" \in Operation
      /\ "CANCEL_RECOVERY" \in Operation
  BY DEF Operation
<1>7. RecoveryActive => activeRecovery.newOwner \in Address \cup {Sentinel}
  BY DEF TypeOK, RecoveryActive
<1>8. ASSUME NEW newOwner \in Address \cup {Sentinel}, NEW caller \in Address,
             ProposeRecovery(caller, newOwner)
      PROVE  IInv'
  BY <1>3, <1>4, <1>8 DEF ProposeRecovery
<1>9. ASSUME NEW newOwner \in Address \cup {Sentinel}, NEW i \in Slot,
             ProposeRecoveryWithSig(newOwner, i)
      PROVE  IInv'
  BY <1>3, <1>5, <1>6, <1>9 DEF ProposeRecoveryWithSig
<1>10. ASSUME NEW caller \in Address, ApproveRecovery(caller) \/ CancelRecovery(caller)
       PROVE  IInv'
  BY <1>3, <1>4, <1>10 DEF ApproveRecovery, CancelRecovery
<1>11. ASSUME NEW i \in Slot, ApproveRecoveryWithSig(i) \/ CancelRecoveryWithSig(i)
       PROVE  IInv'
  BY <1>3, <1>5, <1>6, <1>7, <1>11 DEF ApproveRecoveryWithSig, CancelRecoveryWithSig
<1>12. ASSUME ExecuteRecovery
       PROVE  IInv'
  <2>1. /\ RecoveryActive /\ owner' = activeRecovery.newOwner /\ passkey' = NoKey
        /\ pendingWeightChange' = NoWeightChange /\ activeRecovery' = NoRecovery
        /\ recoveryNonce' = recoveryNonce + 1
        /\ UNCHANGED <<setVars, pendingVars, additionNonce, removalNonce, weightConfig, historyVars>>
    BY <1>12 DEF ExecuteRecovery, RecoveryDue, HandOver
  <2>2. recoveryNonce' \in Nat
    BY <2>1, SMT DEF TypeOK
  <2>3. TypeOK'
    BY <1>7, <2>1, <2>2, DeletedRound, DeletedChange
       DEF TypeOK, setVars, pendingVars, historyVars
  <2>4. SlotsWellFormed' /\ Occupied' = Occupied /\ guardian' = guardian
    BY <2>1, SlotsFrame DEF setVars
  <2>5. OwnerNotGuardian' /\ VotersAreGuardians'
    BY <2>1, <2>4, DeletedRound, DeletedChange
       DEF OwnerNotGuardian, VotersAreGuardians, SlotsWellFormed
  <2>6. IdleRecords' /\ PoliciesChecked'
    BY <2>1, DeletedChange DEF IdleRecords, PoliciesChecked, RecoveryActive, WeightChangeOpen
  <2>7. QED
    BY <2>3, <2>4, <2>5, <2>6
<1>13. QED
  BY <1>8, <1>9, <1>10, <1>11, <1>12 DEF RecoveryStep

LEMMA WeightPreserves ==
  ASSUME IInv, WeightStep
  PROVE  IInv'
<1> USE DEF IInv
<1>1. SetTypes /\ Occupied \subseteq Slot
  BY SMT DEF TypeOK, SetTypes, Occupied, Slot, MaxGuardians
<1>2. ASSUME WeightFrame, weightConfig' \in WeightConfig,
             weightConfig' = weightConfig \/ ValidConfig(weightConfig'),
             \/ pendingWeightChange' = NoWeightChange
             \/ /\ pendingWeightChange' \in [proposed : WeightConfig, age : ChangeAge, approvals : SUBSET Slot]
                /\ pendingWeightChange'.age # Never
                /\ ValidConfig(pendingWeightChange'.proposed)
                /\ pendingWeightChange'.approvals \subseteq Occupied
             \/ UNCHANGED pendingWeightChange
      PROVE  IInv'
  <2>1. SlotsWellFormed' /\ Occupied' = Occupied /\ UNCHANGED <<owner, guardian, activeRecovery>>
    BY <1>2, SlotsFrame DEF WeightFrame, setVars
  <2>2. TypeOK'
    BY <1>2, DeletedChange DEF WeightFrame, TypeOK, setVars, pendingVars, nonceVars, historyVars
  <2>3. OwnerNotGuardian' /\ VotersAreGuardians'
    BY <1>2, <2>1, DeletedChange DEF OwnerNotGuardian, VotersAreGuardians
  <2>4. IdleRecords' /\ PoliciesChecked'
    BY <1>2, <2>1, DeletedChange DEF IdleRecords, PoliciesChecked, RecoveryActive, WeightChangeOpen
  <2>5. QED
    BY <2>1, <2>2, <2>3, <2>4
<1>3. ASSUME NEW config \in Configs, SetWeightConfig(config)
      PROVE  IInv'
  BY <1>2, <1>3, ConfigsAreRecords DEF SetWeightConfig
<1>4. ASSUME NEW config \in Configs, ProposeWeightChange(config)
      PROVE  IInv'
  <2>1. 0 \in ChangeAge /\ 0 # Never
    BY TimeConstants, SMT DEF ChangeAge, Never
  <2>2. /\ WeightFrame /\ weightConfig' = weightConfig /\ ValidConfig(config)
        /\ pendingWeightChange' = [proposed |-> config, age |-> 0, approvals |-> {}]
    BY <1>4 DEF ProposeWeightChange
  <2>3. /\ pendingWeightChange' \in [proposed : WeightConfig, age : ChangeAge, approvals : SUBSET Slot]
        /\ pendingWeightChange'.age # Never
        /\ ValidConfig(pendingWeightChange'.proposed)
        /\ pendingWeightChange'.approvals \subseteq Occupied
    BY <2>1, <2>2, ConfigsAreRecords
  <2>4. QED
    BY <1>2, <2>2, <2>3 DEF TypeOK
<1>5. ASSUME NEW caller \in Address, ApproveWeightChange(caller)
      PROVE  IInv'
  <2>1. /\ WeightFrame /\ weightConfig' = weightConfig /\ WeightChangeOpen
        /\ \E i \in Occupied :
             pendingWeightChange' = [pendingWeightChange EXCEPT !.approvals = @ \cup {i}]
    BY <1>5 DEF ApproveWeightChange, GuardianIndex
  <2>2. /\ pendingWeightChange' \in [proposed : WeightConfig, age : ChangeAge, approvals : SUBSET Slot]
        /\ pendingWeightChange'.age # Never
        /\ ValidConfig(pendingWeightChange'.proposed)
        /\ pendingWeightChange'.approvals \subseteq Occupied
    BY <1>1, <2>1 DEF TypeOK, WeightChangeOpen, PoliciesChecked, VotersAreGuardians
  <2>3. QED
    BY <1>2, <2>1, <2>2 DEF TypeOK
<1>6. ASSUME ExecuteWeightChange
      PROVE  IInv'
  BY <1>2, <1>6 DEF ExecuteWeightChange, TypeOK, PoliciesChecked
<1>7. ASSUME NEW caller \in Address, CancelWeightChange(caller)
      PROVE  IInv'
  BY <1>2, <1>7 DEF CancelWeightChange, TypeOK
<1>8. QED
  BY <1>3, <1>4, <1>5, <1>6, <1>7 DEF WeightStep

LEMMA TickPreserves ==
  ASSUME IInv, Tick
  PROVE  IInv'
<1> USE DEF IInv
<1>1. ASSUME NEW ages \in {AnnouncementAge, RoundAge, ChangeAge}, NEW a \in ages
      PROVE  Older(a, ages) \in ages /\ (Older(a, ages) = Never <=> a = Never)
  <2>1. a \in Int /\ a >= Never
    BY <1>1, TimeConstants, SMT DEF AnnouncementAge, RoundAge, ChangeAge, Never
  <2>2. QED
    BY <1>1, <2>1, SMT DEF Older, Never
<1>2. /\ UNCHANGED <<owner, passkey, setVars, pendingGuardian, nonceVars, weightConfig, historyVars>>
      /\ pendingGuardianAge' = Older(pendingGuardianAge, AnnouncementAge)
      /\ activeRecovery' = [activeRecovery EXCEPT !.age = Older(activeRecovery.age, RoundAge)]
      /\ pendingWeightChange' = [pendingWeightChange EXCEPT !.age = Older(pendingWeightChange.age, ChangeAge)]
  BY DEF Tick
<1>3. /\ pendingGuardianAge \in AnnouncementAge /\ activeRecovery.age \in RoundAge
      /\ pendingWeightChange.age \in ChangeAge
  BY DEF TypeOK
<1>4. TypeOK'
  BY <1>1, <1>2, <1>3 DEF TypeOK, setVars, nonceVars, historyVars
<1>5. /\ activeRecovery'.newOwner = activeRecovery.newOwner
      /\ activeRecovery'.approvals = activeRecovery.approvals
      /\ activeRecovery'.cancellations = activeRecovery.cancellations
      /\ pendingWeightChange'.proposed = pendingWeightChange.proposed
      /\ pendingWeightChange'.approvals = pendingWeightChange.approvals
      /\ pendingWeightChange'.age = Older(pendingWeightChange.age, ChangeAge)
  BY <1>2 DEF TypeOK
<1>6. SlotsWellFormed' /\ Occupied' = Occupied /\ OwnerNotGuardian' /\ VotersAreGuardians'
  BY <1>2, <1>5, SlotsFrame DEF setVars, OwnerNotGuardian, VotersAreGuardians
<1>7. IdleRecords'
  <2>1. ~RecoveryActive => activeRecovery' = activeRecovery
    BY <1>2 DEF IdleRecords, NoRecovery, Older, TypeOK
  <2>2. ~WeightChangeOpen => pendingWeightChange' = pendingWeightChange
    BY <1>2 DEF IdleRecords, NoWeightChange, Older, TypeOK
  <2>3. QED
    BY <1>1, <1>3, <1>5, <2>1, <2>2 DEF IdleRecords, RecoveryActive, WeightChangeOpen
<1>8. PoliciesChecked'
  BY <1>1, <1>2, <1>3, <1>5 DEF PoliciesChecked, WeightChangeOpen
<1>9. QED
  BY <1>4, <1>6, <1>7, <1>8

--------------------------------------------------------------------------------
(* The invariant, and what it says *)

LEMMA InitIInv == Init => IInv
<1> SUFFICES ASSUME Init
             PROVE  IInv
  OBVIOUS
<1>1. SetTypes
  BY DEF Init, SetTypes
<1>2. TypeOK
  <2>1. -1 \in AnnouncementAge /\ 0 \in Nat
    BY TimeConstants, SMT DEF AnnouncementAge, Never
  <2>2. QED
    BY <2>1, DeletedRound, DeletedChange, UnsetSeparates DEF Init, TypeOK, Never
<1>3. SlotsWellFormed
  BY DistinctValues DEF Init, DeployedSlots, SlotsWellFormed
<1>4. OwnerNotGuardian
  BY <1>3, DeletedRound DEF Init, DeployedSlots, OwnerNotGuardian, SlotsWellFormed
<1>5. VotersAreGuardians /\ IdleRecords /\ PoliciesChecked
  BY DeletedRound, DeletedChange
     DEF Init, VotersAreGuardians, IdleRecords, PoliciesChecked, WeightChangeOpen
<1>6. QED
  BY <1>2, <1>3, <1>4, <1>5 DEF IInv

LEMMA StepIInv == IInv /\ [Next]_vars => IInv'
<1> SUFFICES ASSUME IInv, [Next]_vars
             PROVE  IInv'
  OBVIOUS
<1>1. CASE Next
  BY <1>1, BootstrapPreserves, ConsensusPreserves, RecoveryPreserves, WeightPreserves,
     TickPreserves DEF Next
<1>2. CASE UNCHANGED vars
  <2>1. UNCHANGED <<owner, passkey, setVars, pendingVars, activeRecovery, nonceVars, weightConfig,
                    pendingWeightChange, historyVars>>
    BY <1>2 DEF vars
  <2>2. TypeOK'
    BY <2>1 DEF IInv, TypeOK, setVars, pendingVars, nonceVars, historyVars
  <2>3. SlotsWellFormed' /\ Occupied' = Occupied /\ OwnerNotGuardian' /\ VotersAreGuardians'
    BY <2>1, SlotsFrame DEF IInv, setVars, OwnerNotGuardian, VotersAreGuardians
  <2>4. IdleRecords' /\ PoliciesChecked'
    BY <2>1 DEF IInv, IdleRecords, PoliciesChecked, RecoveryActive, WeightChangeOpen
  <2>5. QED
    BY <2>2, <2>3, <2>4 DEF IInv
<1>3. QED
  BY <1>1, <1>2

LEMMA SpecIInv == Spec => []IInv
<1>1. QED
  BY InitIInv, StepIInv, PTL DEF Spec

\* Type correctness.
THEOREM TypeCorrect == Spec => []TypeOK
<1>1. IInv => TypeOK
  BY DEF IInv
<1>2. QED
  BY <1>1, SpecIInv, PTL

\* Removal, compaction and addition, in any order and on any mix of ECDSA and
\* P-256 slots, keep the slots packed and their holders distinct.
THEOREM SlotsStayWellFormed == Spec => []SlotsWellFormed
<1>1. IInv => SlotsWellFormed
  BY DEF IInv
<1>2. QED
  BY <1>1, SpecIInv, PTL

\* The owner and the candidate of an open round hold no ECDSA guardian slot.
THEOREM OwnerIsNeverGuardian == Spec => []OwnerNotGuardian
<1>1. IInv => OwnerNotGuardian
  BY DEF IInv
<1>2. QED
  BY <1>1, SpecIInv, PTL

\* A vote that is counted belongs to an occupied slot.
THEOREM VotersStayGuardians == Spec => []VotersAreGuardians
<1>1. IInv => VotersAreGuardians
  BY DEF IInv
<1>2. QED
  BY <1>1, SpecIInv, PTL

\* The policy in force keeps the signature factors apart whichever way it came
\* into force: by the first setWeightConfig, by a direct change, or by a vote.
THEOREM FactorsStaySeparated == Spec => []FactorSeparation
<1>1. IInv => FactorSeparation
  BY ValidConfigSeparates, UnsetSeparates
     DEF IInv, TypeOK, PoliciesChecked, FactorSeparation
<1>2. QED
  BY <1>1, SpecIInv, PTL

\* No combination of signatures gains a tier behind the guardians' back: either
\* two of them voted for the change and it waited, or nothing was gained.
THEOREM WeakeningIsConsented == Spec => NoSilentWeakening
<1>1. ASSUME IInv, [Next]_vars, weightConfig' # weightConfig, weightConfig.tier1 # 0, ~Consented
      PROVE  \A B \in SUBSET Source : TierOf(weightConfig', B) <= TierOf(weightConfig, B)
  <2>1. WeightStep
    BY <1>1 DEF Next, vars, BootstrapStep, SetP256Key, AddGuardian, ProposeGuardianAddition,
         AddP256Guardian, ProposeP256GuardianAddition, ConsensusStep, AddGuardianWithMixedSigs,
         AddP256GuardianWithMixedSigs, RemoveGuardian, RemoveGuardianWithMixedSigs, Remove,
         RecoveryStep, ProposeRecovery, ApproveRecovery, CancelRecovery, SentBy,
         ProposeRecoveryWithSig, ApproveRecoveryWithSig, CancelRecoveryWithSig, SignedBy,
         VoteFrame, ExecuteRecovery, Tick
  <2>2. ~ExecuteWeightChange
    <3>1. ASSUME ExecuteWeightChange
          PROVE  Consented
      <4>1. pendingWeightChange.age \in Int
        BY <1>1, TimeConstants, SMT DEF IInv, TypeOK, ChangeAge, Never
      <4>2. pendingWeightChange.age \in WeightTimelock .. WeightExpiry
        BY <3>1, <4>1, TimeConstants, SMT DEF ExecuteWeightChange
      <4>3. QED
        BY <3>1, <4>2 DEF ExecuteWeightChange, Consented, Quorum, RECOVERY_THRESHOLD,
             WEIGHT_CHANGE_THRESHOLD
    <3>2. QED
      BY <1>1, <3>1
  <2>3. PICK config \in Configs : SetWeightConfig(config)
    BY <1>1, <2>1, <2>2 DEF WeightStep, ProposeWeightChange, ApproveWeightChange, CancelWeightChange
  <2>4. /\ weightConfig \in WeightConfig /\ weightConfig' \in WeightConfig
        /\ ~IsWeakening(weightConfig, weightConfig')
    BY <1>1, <2>3, ConfigsAreRecords DEF IInv, TypeOK, SetWeightConfig
  <2>5. QED
    BY <1>1, <2>4, NoWeakeningNoGain
<1>2. IInv /\ [Next]_vars
        => [weightConfig' # weightConfig /\ weightConfig.tier1 # 0 /\ ~Consented
              => \A B \in SUBSET Source : TierOf(weightConfig', B) <= TierOf(weightConfig, B)]_vars
  BY <1>1
<1>3. QED
  BY <1>2, SpecIInv, PTL DEF Spec, NoSilentWeakening

--------------------------------------------------------------------------------
(* No signature is accepted twice: why a nonce and a bitmap are enough     *)

RoundOps == {"PROPOSE_RECOVERY", "APPROVE_RECOVERY", "CANCEL_RECOVERY"}
AdditionOps == {"ADD_GUARDIAN", "ADD_P256_GUARDIAN"}

\* A vote in the open round is barred by the bit of a slot that its key holds.
Barred(m) ==
  /\ RecoveryActive
  /\ m.nonce = recoveryNonce
  /\ m.op = "APPROVE_RECOVERY" => \E i \in activeRecovery.approvals : Identity(i) = m.by
  /\ m.op = "CANCEL_RECOVERY" => \E i \in activeRecovery.cancellations : Identity(i) = m.by

\* Every accepted signature has been left behind by its nonce, or is such a vote.
Spent(m) ==
  /\ m.op \in AdditionOps => m.nonce < additionNonce
  /\ m.op = "REMOVE_GUARDIAN" => m.nonce < removalNonce
  /\ m.op \in RoundOps => m.nonce < recoveryNonce \/ Barred(m)

ReplayInv == ~replayed /\ \A m \in consumed : Spent(m)

\* An addition is signed under the current addition nonce, which it moves on; a
\* removal likewise under the removal nonce.
LEMMA ConsensusNoReplay ==
  ASSUME IInv, ReplayInv, ConsensusStep
  PROVE  ReplayInv'
<1>1. /\ recoveryNonce \in Nat /\ additionNonce \in Nat /\ removalNonce \in Nat
      /\ consumed \subseteq Message
  BY DEF IInv, TypeOK
<1>2. \A m \in consumed : m.nonce \in Nat
  BY <1>1 DEF Message
<1>3. ASSUME NEW op, NEW nonce, NEW args, NEW slots,
             ~RecoveryActive, UNCHANGED <<activeRecovery, recoveryNonce>>,
             Accept(Signatures(op, nonce, args, slots)),
             \/ /\ op \in AdditionOps /\ nonce = additionNonce
                /\ additionNonce' = additionNonce + 1 /\ removalNonce' = removalNonce
             \/ /\ op = "REMOVE_GUARDIAN" /\ nonce = removalNonce
                /\ removalNonce' = removalNonce + 1 /\ additionNonce' = additionNonce
      PROVE  ReplayInv'
  <2>1. \A m \in Signatures(op, nonce, args, slots) : m.op = op /\ m.nonce = nonce
    BY DEF Signatures, Signature
  <2>2. op \notin RoundOps /\ (op \in AdditionOps => op # "REMOVE_GUARDIAN")
    BY <1>3 DEF RoundOps, AdditionOps
  <2>3. ASSUME NEW m \in consumed
        PROVE  m \notin Signatures(op, nonce, args, slots)
    BY <1>1, <1>3, <2>1, <2>2, SMT DEF ReplayInv, Spent
  <2>4. ~replayed'
    BY <1>3, <2>3 DEF Accept, ReplayInv
  <2>5. ASSUME NEW m \in consumed
        PROVE  Spent(m)'
    <3>1. m.nonce < recoveryNonce \/ m.op \notin RoundOps
      BY <1>3 DEF ReplayInv, Spent, Barred
    <3>2. /\ m.op \in AdditionOps => m.nonce < additionNonce
          /\ m.op = "REMOVE_GUARDIAN" => m.nonce < removalNonce
      BY DEF ReplayInv, Spent
    <3>3. /\ m.op \in AdditionOps => m.nonce < additionNonce'
          /\ m.op = "REMOVE_GUARDIAN" => m.nonce < removalNonce'
      BY <1>1, <1>2, <1>3, <3>2, SMT
    <3>4. QED
      BY <1>3, <3>1, <3>3 DEF Spent
  <2>6. ASSUME NEW m \in Signatures(op, nonce, args, slots)
        PROVE  Spent(m)'
    <3>1. /\ op \in AdditionOps => nonce < additionNonce'
          /\ op = "REMOVE_GUARDIAN" => nonce < removalNonce'
      BY <1>1, <1>3, <2>2, SMT
    <3>2. QED
      BY <2>1, <2>2, <3>1 DEF Spent
  <2>7. consumed' = consumed \cup Signatures(op, nonce, args, slots)
    BY <1>3 DEF Accept
  <2>8. QED
    BY <2>4, <2>5, <2>6, <2>7 DEF ReplayInv
<1>4. ASSUME NEW slots \in SUBSET Slot, NEW g \in Address, AddGuardianWithMixedSigs(g, slots)
      PROVE  ReplayInv'
  BY <1>3, <1>4 DEF AddGuardianWithMixedSigs, AdditionOps
<1>5. ASSUME NEW slots \in SUBSET Slot, NEW key \in P256Key, AddP256GuardianWithMixedSigs(key, slots)
      PROVE  ReplayInv'
  BY <1>3, <1>5 DEF AddP256GuardianWithMixedSigs, AdditionOps
<1>6. ASSUME NEW slots \in SUBSET Slot, NEW index \in Slot, Remove(index, slots)
      PROVE  ReplayInv'
  BY <1>3, <1>6 DEF Remove
<1>7. QED
  BY <1>4, <1>5, <1>6 DEF ConsensusStep, RemoveGuardian, RemoveGuardianWithMixedSigs

\* A step that accepts nothing, keeps the nonces, and keeps the votes and the
\* slots of an open round bars what was barred.
LEMMA QuietNoReplay ==
  ASSUME ReplayInv, UNCHANGED <<nonceVars, historyVars>>,
         RecoveryActive => /\ UNCHANGED setVars
                           /\ activeRecovery'.newOwner = activeRecovery.newOwner
                           /\ activeRecovery.approvals \subseteq activeRecovery'.approvals
                           /\ activeRecovery.cancellations \subseteq activeRecovery'.cancellations
  PROVE  ReplayInv'
<1>1. ASSUME NEW m \in consumed, Barred(m)
      PROVE  Barred(m)'
  BY <1>1 DEF Barred, RecoveryActive, nonceVars, setVars, Identity, IsP256
<1>2. ASSUME NEW m \in consumed
      PROVE  Spent(m)'
  BY <1>1, <1>2 DEF ReplayInv, Spent, nonceVars
<1>3. QED
  BY <1>2 DEF ReplayInv, historyVars

\* A P-256 vote that the handlers accept was not accepted before: in an earlier
\* round it was signed under another nonce, in this one its slot's bit is set.
LEMMA VoteIsFresh ==
  ASSUME IInv, ReplayInv, NEW i \in Slot, NEW op \in RoundOps, NEW newOwner,
         SignedBy(i, op, newOwner),
         \/ op = "PROPOSE_RECOVERY" /\ ~RecoveryActive
         \/ op = "APPROVE_RECOVERY" /\ i \notin activeRecovery.approvals
         \/ op = "CANCEL_RECOVERY" /\ i \notin activeRecovery.cancellations
  PROVE  ~replayed' /\ consumed' = consumed \cup {Signature(op, recoveryNonce, <<newOwner>>, i)}
<1> DEFINE m == Signature(op, recoveryNonce, <<newOwner>>, i)
<1>1. m.op = op /\ m.nonce = recoveryNonce /\ m.by = Identity(i) /\ i \in Occupied
  BY DEF Signature, SignedBy
<1>2. recoveryNonce \in Nat
  BY DEF IInv, TypeOK
<1>3. \A j \in Occupied : Identity(j) = Identity(i) => j = i
  BY <1>1 DEF IInv, SlotsWellFormed
<1>4. activeRecovery.approvals \subseteq Occupied /\ activeRecovery.cancellations \subseteq Occupied
  BY DEF IInv, VotersAreGuardians
<1> HIDE DEF m
<1>5. ~Barred(m)
  BY <1>1, <1>3, <1>4 DEF Barred
<1>6. m \notin consumed
  <2>1. ~(m.nonce < recoveryNonce)
    BY <1>1, <1>2, SMT
  <2>2. QED
    BY <1>1, <1>5, <2>1 DEF ReplayInv, Spent
<1>7. QED
  BY <1>6 DEF SignedBy, Accept, ReplayInv, m

\* The signatures that a step accepts for the first time.
Fresh == consumed' \ consumed

\* What remains to check of a step of a round: that the round it leaves bars the
\* votes accepted in it, or is over.
LEMMA RoundNoReplay ==
  ASSUME IInv, ReplayInv, ~replayed', UNCHANGED <<additionNonce, removalNonce>>,
         \A m \in Fresh : m.op \in RoundOps /\ m.nonce = recoveryNonce,
         \/ recoveryNonce' = recoveryNonce + 1
         \/ /\ recoveryNonce' = recoveryNonce
            /\ \A m \in consumed' : (m \in Fresh \/ Barred(m)) => Barred(m)'
  PROVE  ReplayInv'
<1>1. recoveryNonce \in Nat /\ \A m \in consumed : m.nonce \in Nat
  BY DEF IInv, TypeOK, Message
<1>2. \A m \in Fresh : m.op \notin AdditionOps /\ m.op # "REMOVE_GUARDIAN"
  BY DEF RoundOps, AdditionOps
<1>3. \A m \in consumed' : m \in consumed \/ m \in Fresh
  BY DEF Fresh
<1>4. CASE recoveryNonce' = recoveryNonce + 1
  <2>1. ASSUME NEW m \in consumed, m.op \in RoundOps
        PROVE  m.nonce < recoveryNonce'
    <3>1. m.nonce < recoveryNonce \/ m.nonce = recoveryNonce
      BY <2>1 DEF ReplayInv, Spent, Barred
    <3>2. QED
      BY <1>1, <1>4, <3>1, SMT
  <2>2. ASSUME NEW m \in Fresh
        PROVE  m.nonce < recoveryNonce'
    BY <1>1, <1>4, SMT
  <2>3. ASSUME NEW m \in consumed'
        PROVE  Spent(m)'
    BY <1>2, <1>3, <2>1, <2>2 DEF ReplayInv, Spent
  <2>4. QED
    BY <2>3 DEF ReplayInv
<1>5. CASE /\ recoveryNonce' = recoveryNonce
           /\ \A m \in consumed' : (m \in Fresh \/ Barred(m)) => Barred(m)'
  <2>1. ASSUME NEW m \in consumed'
        PROVE  Spent(m)'
    BY <1>2, <1>3, <1>5 DEF ReplayInv, Spent
  <2>2. QED
    BY <2>1 DEF ReplayInv
<1>6. QED
  BY <1>4, <1>5

LEMMA RecoveryNoReplay ==
  ASSUME IInv, ReplayInv, RecoveryStep
  PROVE  ReplayInv'
<1>1. /\ "PROPOSE_RECOVERY" \in RoundOps /\ "APPROVE_RECOVERY" \in RoundOps
      /\ "CANCEL_RECOVERY" \in RoundOps
  BY DEF RoundOps
<1>2. ASSUME NEW i \in Slot, VoteFrame, ~replayed',
             \A m \in Fresh :
               /\ m.op \in RoundOps /\ m.nonce = recoveryNonce /\ m.by = Identity(i)
               /\ m.op = "APPROVE_RECOVERY" => i \in activeRecovery'.approvals
               /\ m.op = "CANCEL_RECOVERY" => \/ recoveryNonce' # recoveryNonce
                                              \/ i \in activeRecovery'.cancellations,
             \/ recoveryNonce' = recoveryNonce + 1
             \/ /\ recoveryNonce' = recoveryNonce /\ RecoveryActive'
                /\ RecoveryActive => /\ activeRecovery.approvals \subseteq activeRecovery'.approvals
                                     /\ activeRecovery.cancellations \subseteq activeRecovery'.cancellations
      PROVE  ReplayInv'
  <2>1. UNCHANGED <<guardian, guardianKey, additionNonce, removalNonce>>
    BY <1>2 DEF VoteFrame, setVars
  <2>2. CASE recoveryNonce' = recoveryNonce + 1
    BY <1>2, <2>1, <2>2, RoundNoReplay
  <2>3. CASE /\ recoveryNonce' = recoveryNonce /\ RecoveryActive'
             /\ RecoveryActive => /\ activeRecovery.approvals \subseteq activeRecovery'.approvals
                                  /\ activeRecovery.cancellations \subseteq activeRecovery'.cancellations
    <3>1. \A m \in consumed' : (m \in Fresh \/ Barred(m)) => Barred(m)'
      BY <1>2, <2>1, <2>3 DEF Barred, Identity, IsP256
    <3>2. QED
      BY <1>2, <2>1, <2>3, <3>1, RoundNoReplay
  <2>4. QED
    BY <1>2, <2>2, <2>3
<1>3. ASSUME NEW newOwner \in Address \cup {Sentinel}, NEW i \in Slot, CommitProposal(newOwner, i)
      PROVE  recoveryNonce' = recoveryNonce /\ RecoveryActive'
  BY <1>3, DistinctValues DEF CommitProposal, RecoveryActive
<1>4. ASSUME NEW i \in Slot, RecoveryActive, CommitApproval(i)
      PROVE  /\ recoveryNonce' = recoveryNonce /\ RecoveryActive'
             /\ i \in activeRecovery'.approvals
             /\ activeRecovery.approvals \subseteq activeRecovery'.approvals
             /\ activeRecovery.cancellations \subseteq activeRecovery'.cancellations
  BY <1>4 DEF CommitApproval, RecoveryActive, IInv, TypeOK
<1>5. ASSUME NEW i \in Slot, RecoveryActive, CommitCancelVote(i)
      PROVE  \/ recoveryNonce' = recoveryNonce + 1 /\ recoveryNonce' # recoveryNonce
             \/ /\ recoveryNonce' = recoveryNonce /\ RecoveryActive'
                /\ i \in activeRecovery'.cancellations
                /\ activeRecovery.approvals \subseteq activeRecovery'.approvals
                /\ activeRecovery.cancellations \subseteq activeRecovery'.cancellations
  <2>1. CASE Quorum(activeRecovery.cancellations \cup {i})
    <3>1. recoveryNonce' = recoveryNonce + 1
      BY <1>5, <2>1 DEF CommitCancelVote
    <3>2. QED
      BY <3>1, SMT DEF IInv, TypeOK
  <2>2. CASE ~Quorum(activeRecovery.cancellations \cup {i})
    BY <1>5, <2>2 DEF CommitCancelVote, RecoveryActive, IInv, TypeOK
  <2>3. QED
    BY <2>1, <2>2
<1>6. ASSUME NEW newOwner \in Address \cup {Sentinel}, NEW i \in Slot, NEW caller,
             ValidNewOwner(newOwner), SentBy(caller, i), CommitProposal(newOwner, i)
      PROVE  ReplayInv'
  BY <1>3, <1>6, QuietNoReplay
     DEF ValidNewOwner, SentBy, VoteFrame, nonceVars, CommitProposal
<1>7. ASSUME NEW i \in Slot, NEW caller, RecoveryActive, SentBy(caller, i),
             CommitApproval(i) \/ CommitCancelVote(i)
      PROVE  ReplayInv'
  <2>1. ~replayed' /\ Fresh = {} /\ VoteFrame
    BY <1>7 DEF SentBy, historyVars, ReplayInv, Fresh
  <2>2. QED
    BY <1>2, <1>4, <1>5, <1>7, <2>1
<1>8. ASSUME NEW newOwner \in Address \cup {Sentinel}, NEW i \in Slot,
             ProposeRecoveryWithSig(newOwner, i)
      PROVE  ReplayInv'
  <2> DEFINE s == Signature("PROPOSE_RECOVERY", recoveryNonce, <<newOwner>>, i)
  <2>1. VoteFrame /\ ~replayed' /\ ~RecoveryActive /\ Fresh \subseteq {s}
    BY <1>1, <1>8, VoteIsFresh DEF ProposeRecoveryWithSig, ValidNewOwner, SignedBy, Fresh
  <2>2. recoveryNonce' = recoveryNonce /\ RecoveryActive'
    BY <1>3, <1>8 DEF ProposeRecoveryWithSig
  <2>3. s.op = "PROPOSE_RECOVERY" /\ s.nonce = recoveryNonce /\ s.by = Identity(i)
    BY DEF Signature
  <2> HIDE DEF s
  <2>4. \A m \in Fresh : m.op = "PROPOSE_RECOVERY" /\ m.nonce = recoveryNonce /\ m.by = Identity(i)
    BY <2>1, <2>3
  <2>5. QED
    BY <1>1, <1>2, <2>1, <2>2, <2>4
<1>9. ASSUME NEW i \in Slot, ApproveRecoveryWithSig(i)
      PROVE  ReplayInv'
  <2> DEFINE s == Signature("APPROVE_RECOVERY", recoveryNonce, <<activeRecovery.newOwner>>, i)
  <2>1. /\ VoteFrame /\ ~replayed' /\ RecoveryActive /\ CommitApproval(i)
        /\ Fresh \subseteq {s}
    BY <1>1, <1>9, VoteIsFresh DEF ApproveRecoveryWithSig, SignedBy, Fresh
  <2>2. s.op = "APPROVE_RECOVERY" /\ s.nonce = recoveryNonce /\ s.by = Identity(i)
    BY DEF Signature
  <2> HIDE DEF s
  <2>3. \A m \in Fresh : m.op = "APPROVE_RECOVERY" /\ m.nonce = recoveryNonce /\ m.by = Identity(i)
    BY <2>1, <2>2
  <2>4. QED
    BY <1>1, <1>2, <1>4, <2>1, <2>3
<1>10. ASSUME NEW i \in Slot, CancelRecoveryWithSig(i)
       PROVE  ReplayInv'
  <2> DEFINE s == Signature("CANCEL_RECOVERY", recoveryNonce, <<activeRecovery.newOwner>>, i)
  <2>1. /\ VoteFrame /\ ~replayed' /\ RecoveryActive /\ CommitCancelVote(i)
        /\ Fresh \subseteq {s}
    BY <1>1, <1>10, VoteIsFresh DEF CancelRecoveryWithSig, SignedBy, Fresh
  <2>2. s.op = "CANCEL_RECOVERY" /\ s.nonce = recoveryNonce /\ s.by = Identity(i)
    BY DEF Signature
  <2> HIDE DEF s
  <2>3. \A m \in Fresh : m.op = "CANCEL_RECOVERY" /\ m.nonce = recoveryNonce /\ m.by = Identity(i)
    BY <2>1, <2>2
  <2>4. QED
    BY <1>1, <1>2, <1>5, <2>1, <2>3
<1>11. ASSUME ExecuteRecovery
       PROVE  ReplayInv'
  <2>1. /\ ~replayed' /\ Fresh = {} /\ recoveryNonce' = recoveryNonce + 1
        /\ UNCHANGED <<additionNonce, removalNonce>>
    BY <1>11 DEF ExecuteRecovery, historyVars, ReplayInv, Fresh
  <2>2. QED
    BY <2>1, RoundNoReplay
<1>12. QED
  BY <1>6, <1>7, <1>8, <1>9, <1>10, <1>11
     DEF RecoveryStep, ProposeRecovery, ApproveRecovery, CancelRecovery

\* Every guardian signature authorises one operation, once.
THEOREM NoSignatureIsReplayed == Spec => []NoReplay
<1>1. Init => ReplayInv
  BY DEF Init, ReplayInv
<1>2. IInv /\ ReplayInv /\ [Next]_vars => ReplayInv'
  <2> SUFFICES ASSUME IInv, ReplayInv, [Next]_vars
               PROVE  ReplayInv'
    OBVIOUS
  <2>1. CASE BootstrapStep
    BY <2>1, QuietNoReplay
       DEF BootstrapStep, SetP256Key, AddGuardian, ProposeGuardianAddition, AddP256Guardian,
           ProposeP256GuardianAddition, Bootstrap
  <2>2. CASE ConsensusStep
    BY <2>2, ConsensusNoReplay
  <2>3. CASE RecoveryStep
    BY <2>3, RecoveryNoReplay
  <2>4. CASE WeightStep
    BY <2>4, QuietNoReplay
       DEF WeightStep, SetWeightConfig, ProposeWeightChange, ApproveWeightChange,
           ExecuteWeightChange, CancelWeightChange, WeightFrame
  <2>5. CASE Tick
    BY <2>5, QuietNoReplay DEF Tick, IInv, TypeOK
  <2>6. CASE UNCHANGED vars
    BY <2>6, QuietNoReplay DEF vars
  <2>7. QED
    BY <2>1, <2>2, <2>3, <2>4, <2>5, <2>6 DEF Next
<1>3. ReplayInv => NoReplay
  BY DEF ReplayInv, NoReplay
<1>4. QED
  BY <1>1, <1>2, <1>3, SpecIInv, PTL DEF Spec

--------------------------------------------------------------------------------
(* What no step may do                                                     *)

\* There are guardianCount occupied slots.
LEMMA OccupiedCount ==
  ASSUME SetTypes
  PROVE  IsFiniteSet(Occupied) /\ Cardinality(Occupied) = guardianCount
<1>1. guardianCount \in 0 .. 3 /\ 0 \in Int /\ guardianCount - 1 \in Int
  BY SMT DEF SetTypes, MaxGuardians
<1>2. /\ IsFiniteSet(0 .. guardianCount - 1)
      /\ Cardinality(0 .. guardianCount - 1)
           = IF 0 > guardianCount - 1 THEN 0 ELSE guardianCount - 1 - 0 + 1
  BY <1>1, FS_Interval
<1>3. QED
  BY <1>1, <1>2, SMT DEF Occupied

\* A quorum of occupied slots takes two guardians.
LEMMA QuorumTakesTwo ==
  ASSUME SetTypes, NEW slots, slots \subseteq Occupied, Quorum(slots)
  PROVE  guardianCount >= 2
<1>1. Cardinality(slots) <= guardianCount /\ IsFiniteSet(slots)
  BY OccupiedCount, FS_Subset
<1>2. Cardinality(slots) \in Nat /\ Cardinality(slots) >= 2
  BY <1>1, FS_CardinalityType DEF Quorum, RECOVERY_THRESHOLD
<1>3. QED
  BY <1>1, <1>2, SMT DEF SetTypes, MaxGuardians

\* Only an executed recovery changes the owner, or a passkey that is set.
LEMMA ControlMoves ==
  ASSUME [Next]_vars
  PROVE  \/ ExecuteRecovery
         \/ UNCHANGED owner /\ (passkey = NoKey \/ UNCHANGED passkey)
<1>1. CASE BootstrapStep
  BY <1>1 DEF BootstrapStep, SetP256Key, AddGuardian, ProposeGuardianAddition,
       AddP256Guardian, ProposeP256GuardianAddition
<1>2. CASE ConsensusStep
  BY <1>2 DEF ConsensusStep, AddGuardianWithMixedSigs, AddP256GuardianWithMixedSigs,
       RemoveGuardian, RemoveGuardianWithMixedSigs, Remove
<1>3. CASE RecoveryStep
  BY <1>3 DEF RecoveryStep, ProposeRecovery, ApproveRecovery, CancelRecovery, SentBy,
       ProposeRecoveryWithSig, ApproveRecoveryWithSig, CancelRecoveryWithSig, SignedBy, VoteFrame
<1>4. CASE WeightStep
  BY <1>4 DEF WeightStep, SetWeightConfig, ProposeWeightChange, ApproveWeightChange,
       ExecuteWeightChange, CancelWeightChange, WeightFrame
<1>5. CASE Tick \/ UNCHANGED vars
  BY <1>5 DEF Tick, vars
<1>6. QED
  BY <1>1, <1>2, <1>3, <1>4, <1>5 DEF Next

\* The candidate of a round is not the owner whom it would replace: it was not
\* when the round was opened, and the owner only changes when it ends.
CandidateIsNew == activeRecovery.newOwner # owner

LEMMA CandidateIsNewStep ==
  ASSUME IInv, CandidateIsNew, [Next]_vars
  PROVE  CandidateIsNew'
<1>1. owner \in Address \cup {Sentinel} /\ owner # NoAddress
  BY DistinctValues DEF IInv, TypeOK
<1>2. CASE ExecuteRecovery
  <2>1. /\ owner' = activeRecovery.newOwner /\ activeRecovery.newOwner # NoAddress
        /\ activeRecovery' = NoRecovery
    BY <1>2 DEF ExecuteRecovery, RecoveryDue, RecoveryActive, HandOver
  <2>2. QED
    BY <2>1, DeletedRound DEF CandidateIsNew
<1>3. CASE /\ UNCHANGED owner
           /\ \/ activeRecovery'.newOwner = activeRecovery.newOwner
              \/ activeRecovery'.newOwner = NoAddress
              \/ activeRecovery'.newOwner # owner
  BY <1>1, <1>3 DEF CandidateIsNew
<1>4. CASE ~ExecuteRecovery
  <2>1. UNCHANGED owner
    BY <1>4, ControlMoves
  <2>2. \/ activeRecovery'.newOwner = activeRecovery.newOwner
        \/ activeRecovery'.newOwner = NoAddress
        \/ activeRecovery'.newOwner # owner
    <3>1. CASE BootstrapStep
      BY <3>1 DEF BootstrapStep, SetP256Key, AddGuardian, ProposeGuardianAddition,
           AddP256Guardian, ProposeP256GuardianAddition
    <3>2. CASE ConsensusStep
      BY <3>2 DEF ConsensusStep, AddGuardianWithMixedSigs, AddP256GuardianWithMixedSigs,
           RemoveGuardian, RemoveGuardianWithMixedSigs, Remove
    <3>3. CASE RecoveryStep
      <4>1. ASSUME NEW newOwner, NEW i, ValidNewOwner(newOwner), CommitProposal(newOwner, i)
            PROVE  activeRecovery'.newOwner # owner
        BY <4>1 DEF ValidNewOwner, CommitProposal
      <4>2. ASSUME NEW i, CommitApproval(i) \/ CommitCancelVote(i)
            PROVE  \/ activeRecovery'.newOwner = activeRecovery.newOwner
                   \/ activeRecovery'.newOwner = NoAddress
        BY <4>2, DeletedRound DEF CommitApproval, CommitCancelVote, IInv, TypeOK
      <4>3. QED
        BY <1>4, <3>3, <4>1, <4>2 DEF RecoveryStep, ProposeRecovery, ApproveRecovery,
             CancelRecovery, ProposeRecoveryWithSig, ApproveRecoveryWithSig, CancelRecoveryWithSig
    <3>4. CASE WeightStep
      BY <3>4 DEF WeightStep, SetWeightConfig, ProposeWeightChange, ApproveWeightChange,
           ExecuteWeightChange, CancelWeightChange, WeightFrame
    <3>5. CASE Tick \/ UNCHANGED vars
      BY <3>5 DEF Tick, vars, IInv, TypeOK
    <3>6. QED
      BY <3>1, <3>2, <3>3, <3>4, <3>5 DEF Next
  <2>3. QED
    BY <1>3, <2>1, <2>2
<1>5. QED
  BY <1>2, <1>4

\* Control changes hands by a recovery that two guardians approved and that
\* waited, and the new owner inherits no passkey and no pending weight change.
THEOREM ControlOnlyByRecovery == Spec => ControlIsRecovered
<1>1. Init => CandidateIsNew
  BY DeletedRound, DistinctValues DEF Init, CandidateIsNew
<1>2. IInv /\ CandidateIsNew /\ [Next]_vars => CandidateIsNew'
  BY CandidateIsNewStep
<1>3. ASSUME CandidateIsNew, [Next]_vars
      PROVE  /\ owner' # owner =>
                  /\ owner' = activeRecovery.newOwner
                  /\ Quorum(activeRecovery.approvals)
                  /\ activeRecovery.age >= RecoveryTimelock
                  /\ passkey' = NoKey /\ pendingWeightChange' = NoWeightChange
             /\ passkey # NoKey /\ passkey' # passkey => owner' # owner
  BY <1>3, ControlMoves DEF CandidateIsNew, ExecuteRecovery, RecoveryDue, HandOver
<1>4. Spec => []CandidateIsNew
  BY <1>1, <1>2, SpecIInv, PTL DEF Spec
<1>5. CandidateIsNew /\ [Next]_vars =>
        [/\ owner' # owner =>
              /\ owner' = activeRecovery.newOwner
              /\ Quorum(activeRecovery.approvals)
              /\ activeRecovery.age >= RecoveryTimelock
              /\ passkey' = NoKey /\ pendingWeightChange' = NoWeightChange
         /\ passkey # NoKey /\ passkey' # passkey => owner' # owner]_vars
  BY <1>3
<1>6. QED
  BY <1>4, <1>5, PTL DEF Spec, ControlIsRecovered

\* With one guardian a round can be neither executed, nor cancelled, nor voted
\* down by new guardians.
THEOREM OneGuardianFreezes == Spec => LoneGuardianFreezes
<1>1. ASSUME IInv, [Next]_vars, guardianCount = 1, RecoveryActive
      PROVE  /\ RecoveryActive' /\ activeRecovery.newOwner' = activeRecovery.newOwner
             /\ UNCHANGED <<owner, setVars>>
  <2>1. SetTypes /\ ~(guardianCount >= 2)
    BY <1>1, SMT DEF IInv, TypeOK, SetTypes
  <2>2. \A slots : slots \subseteq Occupied => ~Quorum(slots)
    BY <2>1, QuorumTakesTwo
  <2>3. activeRecovery.approvals \subseteq Occupied /\ activeRecovery.cancellations \subseteq Occupied
    BY <1>1 DEF IInv, VotersAreGuardians
  <2>4. ~ExecuteRecovery
    BY <2>2, <2>3 DEF ExecuteRecovery, RecoveryDue
  <2>5. ASSUME NEW i \in Occupied, CommitApproval(i) \/ CommitCancelVote(i)
        PROVE  activeRecovery'.newOwner = activeRecovery.newOwner
    <3>1. ~Quorum(activeRecovery.cancellations \cup {i})
      BY <2>2, <2>3
    <3>2. QED
      BY <1>1, <2>5, <3>1 DEF CommitApproval, CommitCancelVote, IInv, TypeOK
  <2>6. UNCHANGED <<owner, setVars>> /\ activeRecovery'.newOwner = activeRecovery.newOwner
    <3>1. CASE BootstrapStep
      BY <1>1, <3>1 DEF BootstrapStep, SetP256Key, AddGuardian, ProposeGuardianAddition,
           AddP256Guardian, ProposeP256GuardianAddition, Bootstrap
    <3>2. CASE ConsensusStep
      BY <1>1, <3>2 DEF ConsensusStep, AddGuardianWithMixedSigs, AddP256GuardianWithMixedSigs,
           RemoveGuardian, RemoveGuardianWithMixedSigs, Remove
    <3>3. CASE RecoveryStep
      BY <1>1, <2>4, <2>5, <3>3
         DEF RecoveryStep, ProposeRecovery, ApproveRecovery, CancelRecovery, SentBy, GuardianIndex,
             ProposeRecoveryWithSig, ApproveRecoveryWithSig, CancelRecoveryWithSig, SignedBy,
             VoteFrame, ValidNewOwner
    <3>4. CASE WeightStep
      BY <3>4 DEF WeightStep, SetWeightConfig, ProposeWeightChange, ApproveWeightChange,
           ExecuteWeightChange, CancelWeightChange, WeightFrame
    <3>5. CASE Tick \/ UNCHANGED vars
      BY <1>1, <3>5 DEF Tick, vars, IInv, TypeOK
    <3>6. QED
      BY <1>1, <3>1, <3>2, <3>3, <3>4, <3>5 DEF Next
  <2>7. QED
    BY <1>1, <2>6 DEF RecoveryActive
<1>2. IInv /\ [Next]_vars =>
        [guardianCount = 1 /\ RecoveryActive
           => /\ RecoveryActive' /\ activeRecovery.newOwner' = activeRecovery.newOwner
              /\ UNCHANGED <<owner, setVars>>]_vars
  BY <1>1
<1>3. QED
  BY <1>2, SpecIInv, PTL DEF Spec, LoneGuardianFreezes

\* What may become of an open round.
RunsOn ==
  /\ activeRecovery'.newOwner = activeRecovery.newOwner
  /\ activeRecovery'.age >= activeRecovery.age
  /\ activeRecovery.approvals \subseteq activeRecovery'.approvals
  /\ activeRecovery.cancellations \subseteq activeRecovery'.cancellations
  /\ UNCHANGED setVars
CarriedOut == ~RecoveryActive' /\ owner' = activeRecovery.newOwner
CalledOff  == ~RecoveryActive' /\ \E i, j \in Occupied : i # j /\ j \in activeRecovery.cancellations

\* A vote is added to the round, or is the second one to cancel it.
LEMMA VotesCount ==
  ASSUME IInv, RecoveryActive, UNCHANGED setVars, NEW i \in Occupied,
         CommitApproval(i) \/ (i \notin activeRecovery.cancellations /\ CommitCancelVote(i))
  PROVE  RunsOn \/ CalledOff
<1>1. activeRecovery.age \in Int
  BY TimeConstants, SMT DEF IInv, TypeOK, RoundAge, Never
<1>2. CASE CommitApproval(i)
  BY <1>1, <1>2 DEF CommitApproval, RunsOn, IInv, TypeOK
<1>3. CASE i \notin activeRecovery.cancellations /\ CommitCancelVote(i)
  <2>1. CASE Quorum(activeRecovery.cancellations \cup {i})
    <3>1. activeRecovery.cancellations # {}
      <4> SUFFICES ASSUME activeRecovery.cancellations = {} PROVE FALSE
        OBVIOUS
      <4>1. Cardinality({i}) = 1
        BY FS_Singleton
      <4>2. QED
        BY <2>1, <4>1 DEF Quorum, RECOVERY_THRESHOLD
    <3>2. PICK j \in activeRecovery.cancellations : TRUE
      BY <3>1
    <3>3. j \in Occupied /\ i # j
      BY <1>3, <3>2 DEF IInv, VotersAreGuardians
    <3>4. ~RecoveryActive'
      BY <1>3, <2>1, DeletedRound DEF CommitCancelVote, RecoveryActive
    <3>5. QED
      BY <3>2, <3>3, <3>4 DEF CalledOff
  <2>2. CASE ~Quorum(activeRecovery.cancellations \cup {i})
    BY <1>1, <1>3, <2>2 DEF CommitCancelVote, RunsOn, IInv, TypeOK
  <2>3. QED
    BY <2>1, <2>2
<1>4. QED
  BY <1>2, <1>3

\* The set does not change while a round is open, and no step but a second vote to
\* cancel or the execution ends it.
LEMMA RoundSteps ==
  ASSUME IInv, [Next]_vars, RecoveryActive
  PROVE  RunsOn \/ CarriedOut \/ CalledOff
<1>1. activeRecovery.age \in Int
  BY TimeConstants, SMT DEF IInv, TypeOK, RoundAge, Never
<1>2. ASSUME UNCHANGED <<activeRecovery, setVars>>
      PROVE  RunsOn
  BY <1>1, <1>2 DEF RunsOn
<1>3. CASE BootstrapStep
  BY <1>2, <1>3 DEF BootstrapStep, SetP256Key, AddGuardian, ProposeGuardianAddition,
       AddP256Guardian, ProposeP256GuardianAddition, Bootstrap
<1>4. CASE ConsensusStep
  BY <1>4 DEF ConsensusStep, AddGuardianWithMixedSigs, AddP256GuardianWithMixedSigs,
       RemoveGuardian, RemoveGuardianWithMixedSigs, Remove
<1>5. CASE RecoveryStep
  <2>1. CASE \E newOwner \in Address \cup {Sentinel} :
               \/ \E caller \in Address : ProposeRecovery(caller, newOwner)
               \/ \E i \in Slot : ProposeRecoveryWithSig(newOwner, i)
    BY <2>1 DEF ProposeRecovery, ProposeRecoveryWithSig, ValidNewOwner
  <2>2. CASE \/ \E caller \in Address : ApproveRecovery(caller) \/ CancelRecovery(caller)
             \/ \E i \in Slot : ApproveRecoveryWithSig(i) \/ CancelRecoveryWithSig(i)
    <3>1. PICK i \in Occupied :
            /\ UNCHANGED setVars
            /\ CommitApproval(i) \/ (i \notin activeRecovery.cancellations /\ CommitCancelVote(i))
      BY <2>2 DEF ApproveRecovery, CancelRecovery, SentBy, GuardianIndex, ApproveRecoveryWithSig,
           CancelRecoveryWithSig, SignedBy, VoteFrame
    <3>2. QED
      BY <3>1, VotesCount
  <2>3. CASE ExecuteRecovery
    BY <2>3, DeletedRound DEF ExecuteRecovery, HandOver, CarriedOut, RecoveryActive
  <2>4. QED
    BY <1>5, <2>1, <2>2, <2>3 DEF RecoveryStep
<1>6. CASE WeightStep
  BY <1>2, <1>6 DEF WeightStep, SetWeightConfig, ProposeWeightChange, ApproveWeightChange,
       ExecuteWeightChange, CancelWeightChange, WeightFrame
<1>7. CASE Tick
  <2>1. /\ activeRecovery'.newOwner = activeRecovery.newOwner
        /\ activeRecovery'.age = Older(activeRecovery.age, RoundAge)
        /\ activeRecovery'.approvals = activeRecovery.approvals
        /\ activeRecovery'.cancellations = activeRecovery.cancellations
        /\ UNCHANGED setVars
    BY <1>7 DEF Tick, IInv, TypeOK
  <2>2. Older(activeRecovery.age, RoundAge) >= activeRecovery.age
    BY <1>1, SMT DEF Older
  <2>3. QED
    BY <2>1, <2>2 DEF RunsOn
<1>8. CASE UNCHANGED vars
  BY <1>2, <1>8 DEF vars
<1>9. QED
  BY <1>3, <1>4, <1>5, <1>6, <1>7, <1>8 DEF Next

\* An open round keeps its candidate, its votes and its voters until it is executed
\* or cancelled by two: what ApprovedRecoveryEnds needs besides fairness.
THEOREM OpenRoundsRunOn == Spec => RoundsRunOn
<1>1. IInv /\ [Next]_vars => [RecoveryActive => RunsOn \/ CarriedOut \/ CalledOff]_vars
  BY RoundSteps
<1>2. QED
  BY <1>1, SpecIInv, PTL DEF Spec, RoundsRunOn, RunsOn, CarriedOut, CalledOff

\* A guardian appended to a set of fewer than two completes a quorum only when
\* it was announced long enough before.
LEMMA CompletionIsAnnounced ==
  ASSUME SetTypes, SlotsWellFormed, NEW n \in Slot, n = guardianCount,
         guardianCount < 2, guardianCount' >= 2, guardianCount' = guardianCount + 1,
         NEW m, ConsumeAnnouncement(m),
         guardian'[n] # NoAddress, Identity(n)' = m
  PROVE  \E i \in Slot : /\ guardian[i] = NoAddress /\ guardian'[i] # NoAddress
                         /\ Identity(i)' = pendingGuardian
                         /\ pendingGuardianAge >= GuardianAddTimelock
<1>1. n \notin Occupied /\ CompletesQuorum
  BY SMT DEF SetTypes, MaxGuardians, Slot, Occupied, CompletesQuorum, RECOVERY_THRESHOLD
<1>2. guardian[n] = NoAddress
  BY <1>1 DEF SlotsWellFormed, Vacant
<1>3. pendingGuardian = m /\ pendingGuardianAge >= GuardianAddTimelock
  BY <1>1 DEF ConsumeAnnouncement, Announced
<1>4. QED
  BY <1>2, <1>3

\* A quorum of guardians is never lost again, and it is only ever formed by a
\* guardian that was announced by name and has waited out the timelock.
THEOREM QuorumsAreAnnounced == Spec => QuorumIsAnnounced
<1>1. ASSUME IInv, [Next]_vars
      PROVE  /\ guardianCount >= 2 => guardianCount' >= 2
             /\ guardianCount < 2 /\ guardianCount' >= 2
                  => \E i \in Slot : /\ guardian[i] = NoAddress /\ guardian'[i] # NoAddress
                                     /\ Identity(i)' = pendingGuardian
                                     /\ pendingGuardianAge >= GuardianAddTimelock
  <2>1. SetTypes /\ SlotsWellFormed /\ guardianCount \in 0 .. 3
    BY <1>1 DEF IInv, TypeOK, SetTypes, MaxGuardians
  <2>2. guardianCount < 2 => guardianCount \in Slot
    BY <2>1, SMT DEF Slot
  <2>3. ASSUME NEW g \in Address, AddGuardian(g), guardianCount < 2, guardianCount' >= 2
        PROVE  \E i \in Slot : /\ guardian[i] = NoAddress /\ guardian'[i] # NoAddress
                               /\ Identity(i)' = pendingGuardian
                               /\ pendingGuardianAge >= GuardianAddTimelock
    <3>1. PICK n \in Slot : n = guardianCount
      BY <2>2, <2>3
    <3>2. /\ guardianCount' = guardianCount + 1 /\ ConsumeAnnouncement(g)
          /\ guardian' = [guardian EXCEPT ![n] = g]
      BY <2>3, <3>1 DEF AddGuardian, AppendAddress
    <3>3. guardian'[n] = g /\ g # NoAddress /\ g # Sentinel
      BY <2>1, <3>1, <3>2, DistinctValues DEF SetTypes
    <3>4. Identity(n)' = g
      BY <3>3 DEF Identity, IsP256
    <3>5. QED
      BY <2>1, <2>3, <3>1, <3>2, <3>3, <3>4, CompletionIsAnnounced
  <2>4. ASSUME NEW key \in P256Key, AddP256Guardian(key), guardianCount < 2, guardianCount' >= 2
        PROVE  \E i \in Slot : /\ guardian[i] = NoAddress /\ guardian'[i] # NoAddress
                               /\ Identity(i)' = pendingGuardian
                               /\ pendingGuardianAge >= GuardianAddTimelock
    <3>1. PICK n \in Slot : n = guardianCount
      BY <2>2, <2>4
    <3>2. /\ guardianCount' = guardianCount + 1 /\ ConsumeAnnouncement(key)
          /\ guardian' = [guardian EXCEPT ![n] = Sentinel]
          /\ guardianKey' = [guardianKey EXCEPT ![n] = key]
      BY <2>4, <3>1 DEF AddP256Guardian, AppendKey
    <3>3. guardian'[n] = Sentinel /\ guardianKey'[n] = key /\ Sentinel # NoAddress
      BY <2>1, <3>1, <3>2, DistinctValues DEF SetTypes
    <3>4. Identity(n)' = key
      BY <3>3 DEF Identity, IsP256
    <3>5. QED
      BY <2>1, <2>4, <3>1, <3>2, <3>3, <3>4, CompletionIsAnnounced
  <2>5. ASSUME NEW slots, MixedSigners(slots)
        PROVE  guardianCount >= 2
    BY <2>1, <2>5, QuorumTakesTwo DEF MixedSigners
  <2>6. CASE BootstrapStep
    <3>1. CASE UNCHANGED guardianCount
      BY <2>1, <3>1, SMT
    <3>2. ASSUME ~UNCHANGED guardianCount
          PROVE  \/ \E g \in Address : AddGuardian(g)
                 \/ \E key \in P256Key : AddP256Guardian(key)
      BY <2>6, <3>2 DEF BootstrapStep, SetP256Key, ProposeGuardianAddition,
           ProposeP256GuardianAddition, setVars
    <3>3. ASSUME ~UNCHANGED guardianCount
          PROVE  ~(guardianCount >= 2)
      BY <2>1, <3>2, <3>3, SMT
         DEF AddGuardian, AddP256Guardian, Bootstrap, RECOVERY_THRESHOLD
    <3>4. QED
      BY <2>3, <2>4, <3>1, <3>2, <3>3
  <2>7. CASE ConsensusStep
    <3>1. ASSUME NEW slots \in SUBSET Slot, NEW g \in Address, AddGuardianWithMixedSigs(g, slots)
          PROVE  guardianCount >= 2 /\ guardianCount' = guardianCount + 1
      BY <2>5, <3>1 DEF AddGuardianWithMixedSigs, AppendAddress
    <3>2. ASSUME NEW slots \in SUBSET Slot, NEW key \in P256Key,
                 AddP256GuardianWithMixedSigs(key, slots)
          PROVE  guardianCount >= 2 /\ guardianCount' = guardianCount + 1
      BY <2>5, <3>2 DEF AddP256GuardianWithMixedSigs, AppendKey
    <3>3. ASSUME NEW slots \in SUBSET Slot, NEW index \in Slot, Remove(index, slots)
          PROVE  guardianCount > 2 /\ guardianCount' = guardianCount - 1
      BY <3>3 DEF Remove, WithoutSlot
    <3>4. \/ guardianCount >= 2 /\ guardianCount' = guardianCount + 1
          \/ guardianCount > 2 /\ guardianCount' = guardianCount - 1
      BY <2>7, <3>1, <3>2, <3>3 DEF ConsensusStep, RemoveGuardian, RemoveGuardianWithMixedSigs
    <3>5. QED
      BY <2>1, <3>4, SMT
  <2>8. CASE RecoveryStep \/ WeightStep \/ Tick \/ UNCHANGED vars
    <3>1. UNCHANGED guardianCount
      BY <2>8 DEF RecoveryStep, ProposeRecovery, ApproveRecovery, CancelRecovery, SentBy,
           ProposeRecoveryWithSig, ApproveRecoveryWithSig, CancelRecoveryWithSig, SignedBy,
           VoteFrame, ExecuteRecovery, WeightStep, SetWeightConfig, ProposeWeightChange,
           ApproveWeightChange, ExecuteWeightChange, CancelWeightChange, WeightFrame, Tick,
           setVars, vars
    <3>2. QED
      BY <2>1, <3>1, SMT
  <2>9. QED
    BY <1>1, <2>6, <2>7, <2>8 DEF Next
<1>2. IInv /\ [Next]_vars =>
        [/\ guardianCount >= RECOVERY_THRESHOLD => guardianCount' >= RECOVERY_THRESHOLD
         /\ guardianCount < RECOVERY_THRESHOLD /\ guardianCount' >= RECOVERY_THRESHOLD
              => \E i \in Slot : /\ guardian[i] = NoAddress /\ guardian'[i] # NoAddress
                                 /\ Identity(i)' = pendingGuardian
                                 /\ pendingGuardianAge >= GuardianAddTimelock]_vars
  BY <1>1 DEF RECOVERY_THRESHOLD
<1>3. QED
  BY <1>2, SpecIInv, PTL DEF Spec, QuorumIsAnnounced

--------------------------------------------------------------------------------
(* The refinement: the instance counts, and measures policies, like the module that makes it *)

\* Cardinalities are the same in both.
LEMMA SameCardinality == \A S : Consensus!Cardinality(S) = Cardinality(S)
BY DEF Consensus!Cardinality, Cardinality

\* So are the tier of a set of signatures and the policy of a new account.
LEMMA SamePolicies ==
  /\ \A p, B : Consensus!TierOf(p, B) = TierOf(p, B)
  /\ Consensus!Unset = Unset
<1>1. \A p, B : Consensus!TierOf(p, B) = TierOf(p, B)
  BY DEF Consensus!TierOf, Consensus!ResolvedTier, Consensus!Accumulated, Consensus!Share,
         TierOf, ResolvedTier, Accumulated, Share
<1>2. Consensus!Unset = Unset
  BY DEF Consensus!Unset, Consensus!Source, Unset, Source
<1>3. QED
  BY <1>1, <1>2

--------------------------------------------------------------------------------
(* Slots and the guardians in them *)

\* A slot has voted exactly when the guardian in it is among the voters.
LEMMA VoterOfSlot ==
  ASSUME SlotsWellFormed, NEW slots, slots \subseteq Occupied, NEW i \in Occupied
  PROVE  Identity(i) \in Voters(slots) <=> i \in slots
BY DEF Voters, SlotsWellFormed

\* Distinct slots are distinct guardians: a bitmap of slots and the guardians that
\* it stands for are as many.
LEMMA VotersCount ==
  ASSUME SetTypes, SlotsWellFormed, NEW slots, slots \subseteq Occupied
  PROVE  /\ IsFiniteSet(slots) /\ IsFiniteSet(Voters(slots))
         /\ Cardinality(Voters(slots)) = Cardinality(slots)
<1>1. IsFiniteSet(slots)
  BY OccupiedCount, FS_Subset
<1> DEFINE f == [i \in slots |-> Identity(i)]
<1>2. f \in [slots -> Voters(slots)]
  BY DEF Voters
<1>3. \A i, j \in slots : f[i] = f[j] => i = j
  BY DEF SlotsWellFormed
<1>4. \A m \in Voters(slots) : \E i \in slots : f[i] = m
  BY DEF Voters
<1>5. f \in Bijection(slots, Voters(slots))
  <2> HIDE DEF f
  <2>1. f \in Injection(slots, Voters(slots))
    BY <1>2, <1>3 DEF Injection, IsInjective
  <2>2. f \in Surjection(slots, Voters(slots))
    BY <1>2, <1>4 DEF Surjection
  <2>3. QED
    BY <2>1, <2>2 DEF Bijection
<1>6. ExistsBijection(slots, Voters(slots))
  BY <1>5 DEF ExistsBijection
<1>7. QED
  BY <1>1, <1>6, FS_Bijection

\* There are as many guardians as _guardianCount says.
LEMMA MembersCount ==
  ASSUME SetTypes, SlotsWellFormed
  PROVE  Cardinality(Members) = guardianCount
BY OccupiedCount, VotersCount DEF Members

\* The guardians of the code are electors.
LEMMA MembersAreElectors ==
  ASSUME SetTypes, SlotsWellFormed
  PROVE  Members \subseteq Address \cup P256Key
BY OccupiedIdentity DEF Members, Voters

\* An address that no ECDSA slot holds, and that is an address, is no guardian; and
\* neither is the sentinel.
LEMMA NotAMember ==
  ASSUME SetTypes, SlotsWellFormed, NEW g \in Address \cup {Sentinel},
         \A i \in Occupied : guardian[i] # g
  PROVE  g \notin Members
<1>1. ASSUME NEW i \in Occupied
      PROVE  Identity(i) # g
  <2>1. CASE IsP256(i)
    <3>1. i \in Slot /\ guardianKey[i] # NoKey
      BY <2>1, OccupiedIdentity DEF SlotsWellFormed
    <3>2. Identity(i) \in P256Key
      BY <2>1, <3>1 DEF Identity, SetTypes
    <3>3. QED
      BY <3>2, DistinctValues
  <2>2. CASE ~IsP256(i)
    BY <2>2 DEF Identity
  <2>3. QED
    BY <2>1, <2>2
<1>2. QED
  BY <1>1 DEF Members, Voters

\* A P-256 key that no P-256 slot holds is no guardian.
LEMMA NotAKeyMember ==
  ASSUME SetTypes, SlotsWellFormed, NEW key \in P256Key, KeyIsNew(key)
  PROVE  key \notin Members
<1>1. ASSUME NEW i \in Occupied
      PROVE  Identity(i) # key
  <2>1. CASE IsP256(i)
    BY <2>1 DEF KeyIsNew, Identity
  <2>2. CASE ~IsP256(i)
    BY <2>2, OccupiedIdentity, DistinctValues DEF Identity, SetTypes
  <2>3. QED
    BY <2>1, <2>2
<1>2. QED
  BY <1>1 DEF Members, Voters

--------------------------------------------------------------------------------
(* What a step leaves alone *)

\* Slots that are not written keep their guardians.
LEMMA IdentityFrame ==
  ASSUME UNCHANGED setVars
  PROVE  Members' = Members /\ \A i : Identity(i)' = Identity(i)
BY DEF setVars, Members, Voters, Occupied, Identity, IsP256

\* A closed round is an empty ballot; a round with the same record and the same
\* slots is the same ballot.
LEMMA BallotFrame ==
  ASSUME UNCHANGED activeRecovery, ~RecoveryActive \/ UNCHANGED setVars
  PROVE  Ballot' = Ballot /\ (~RecoveryActive => Ballot = {})
BY IdentityFrame DEF Ballot, RecoveryActive, Voters

\* A weight change whose voters keep their slots is the same draft.
LEMMA DraftFrame ==
  ASSUME UNCHANGED pendingWeightChange,
         \A i \in pendingWeightChange.approvals : Identity(i)' = Identity(i)
  PROVE  Draft' = Draft
BY DEF Draft, WeightChangeOpen, Voters

\* A deleted weight change is no draft.
LEMMA DraftVoided ==
  ASSUME pendingWeightChange' = NoWeightChange
  PROVE  Draft' = {}
BY DEF Draft, WeightChangeOpen, NoWeightChange

--------------------------------------------------------------------------------
(* Arrivals and departures *)

\* An appended address is one more guardian, and the others keep their slots.
LEMMA AppendAddressMembers ==
  ASSUME SetTypes, SlotsWellFormed, guardianCount < MaxGuardians,
         NEW g \in Address, AppendAddress(g)
  PROVE  /\ Members' = Members \cup {g}
         /\ \A i \in Occupied : Identity(i)' = Identity(i)
<1>1. PICK n \in Slot : n = guardianCount
  BY SMT DEF SetTypes, MaxGuardians, Slot
<1>2. /\ Occupied' = Occupied \cup {n}
      /\ n \notin Occupied /\ Occupied \subseteq Slot
  BY <1>1, SMT DEF Occupied, AppendAddress, Slot
<1>3. /\ guardianKey' = guardianKey
      /\ guardian'[n] = g
      /\ \A i \in Slot \ {n} : guardian'[i] = guardian[i]
  BY <1>1 DEF AppendAddress, SetTypes
<1>4. /\ Identity(n)' = g
      /\ \A i \in Occupied : Identity(i)' = Identity(i)
  BY <1>2, <1>3, DistinctValues DEF Identity, IsP256
<1>5. QED
  BY <1>2, <1>4 DEF Members, Voters

\* So is an appended P-256 key.
LEMMA AppendKeyMembers ==
  ASSUME SetTypes, SlotsWellFormed, NEW key \in P256Key, AppendKey(key)
  PROVE  /\ Members' = Members \cup {key}
         /\ \A i \in Occupied : Identity(i)' = Identity(i)
<1>1. PICK n \in Slot : n = guardianCount
  BY SMT DEF SetTypes, MaxGuardians, Slot, AppendKey
<1>2. /\ Occupied' = Occupied \cup {n}
      /\ n \notin Occupied /\ Occupied \subseteq Slot
  BY <1>1, SMT DEF Occupied, AppendKey, Slot
<1>3. /\ guardian'[n] = Sentinel /\ guardianKey'[n] = key
      /\ \A i \in Slot \ {n} : guardian'[i] = guardian[i] /\ guardianKey'[i] = guardianKey[i]
  BY <1>1 DEF AppendKey, SetTypes
<1>4. /\ Identity(n)' = key
      /\ \A i \in Occupied : Identity(i)' = Identity(i)
  BY <1>2, <1>3 DEF Identity, IsP256
<1>5. QED
  BY <1>2, <1>4 DEF Members, Voters

\* A removal takes away the guardian of the removed slot and nobody else, wherever
\* the others move.
LEMMA WithoutSlotMembers ==
  ASSUME SetTypes, SlotsWellFormed, NEW index \in Occupied, WithoutSlot(index)
  PROVE  Members' = Members \ {Identity(index)}
<1>1. /\ guardianCount \in 1 .. 3 /\ index \in 0 .. guardianCount - 1
      /\ Occupied = 0 .. guardianCount - 1 /\ Occupied' = 0 .. guardianCount - 2
  BY SMT DEF SetTypes, MaxGuardians, Occupied, WithoutSlot
<1>2. \A i \in Occupied' : /\ Origin(index, i) \in Occupied
                           /\ Identity(i)' = Identity(Origin(index, i))
  BY WithoutSlotMoves DEF Identity, IsP256
<1>3. \A i \in Occupied' : Origin(index, i) # index
  BY <1>1, SMT DEF Origin
<1>4. \A j \in Occupied \ {index} : \E i \in Occupied' : Origin(index, i) = j
  <2>1. ASSUME NEW j \in Occupied \ {index}
        PROVE  \E i \in Occupied' : Origin(index, i) = j
    <3>1. CASE j < index
      <4>1. j \in Occupied' /\ Origin(index, j) = j
        BY <1>1, <3>1, SMT DEF Origin
      <4>2. QED
        BY <4>1
    <3>2. CASE ~(j < index)
      <4>1. j - 1 \in Occupied' /\ Origin(index, j - 1) = j
        BY <1>1, <3>2, SMT DEF Origin
      <4>2. QED
        BY <4>1
    <3>3. QED
      BY <3>1, <3>2
  <2>2. QED
    BY <2>1
<1>5. \A j \in Occupied : Identity(j) = Identity(index) => j = index
  BY DEF SlotsWellFormed
<1>6. ASSUME NEW m \in Members'
      PROVE  m \in Members \ {Identity(index)}
  <2>1. PICK i \in Occupied' : m = Identity(i)'
    BY <1>6 DEF Members, Voters
  <2>2. QED
    BY <1>2, <1>3, <1>5, <2>1 DEF Members, Voters
<1>7. ASSUME NEW m \in Members \ {Identity(index)}
      PROVE  m \in Members'
  <2>1. PICK j \in Occupied \ {index} : m = Identity(j)
    BY <1>7 DEF Members, Voters
  <2>2. PICK i \in Occupied' : Origin(index, i) = j
    BY <1>4, <2>1
  <2>3. m = Identity(i)'
    BY <1>2, <2>1, <2>2
  <2>4. QED
    BY <2>2, <2>3 DEF Members, Voters
<1>8. QED
  BY <1>6, <1>7

\* An arrival, as the consensus sees it.
LEMMA JoinMaps ==
  ASSUME IInv, ~RecoveryActive, guardianCount < MaxGuardians,
         NEW m \in Address \cup P256Key, m \notin Members, m # owner,
         Members' = Members \cup {m},
         UNCHANGED <<owner, activeRecovery, weightConfig>>,
         \/ pendingWeightChange' = NoWeightChange
         \/ /\ UNCHANGED pendingWeightChange
            /\ \A i \in Occupied : Identity(i)' = Identity(i)
  PROVE  Consensus!Next
<1>1. Cardinality(Members) < 3
  BY MembersCount DEF IInv, TypeOK, SetTypes, MaxGuardians
<1>2. Ballot = {} /\ Ballot' = Ballot
  BY BallotFrame
<1>3. Draft' = Draft \/ Draft' = {}
  BY DraftFrame, DraftVoided DEF IInv, VotersAreGuardians
<1>4. Consensus!Join(m)
  BY <1>1, <1>2, <1>3, SameCardinality DEF Consensus!Join, Consensus!Full
<1>5. QED
  BY <1>4 DEF Consensus!Next

\* Everything that the bootstrap does is an arrival or nothing.
LEMMA BootstrapMaps ==
  ASSUME IInv, BootstrapStep
  PROVE  Consensus!Next \/ UNCHANGED Consensus!vars
<1>1. SetTypes /\ SlotsWellFormed
  BY DEF IInv, TypeOK, SetTypes
<1>2. ASSUME UNCHANGED <<owner, setVars, activeRecovery, weightConfig, pendingWeightChange>>
      PROVE  UNCHANGED Consensus!vars
  BY <1>2, IdentityFrame, BallotFrame, DraftFrame DEF Consensus!vars
<1>3. ASSUME NEW g \in Address, AddGuardian(g)
      PROVE  Consensus!Next
  <2>1. /\ ~RecoveryActive /\ g # owner /\ AddressIsNew(g) /\ AppendAddress(g)
        /\ pendingWeightChange' = NoWeightChange
        /\ UNCHANGED <<owner, activeRecovery, weightConfig>>
    BY <1>3 DEF AddGuardian, Bootstrap, EligibleAddress
  <2>2. guardianCount < MaxGuardians
    BY <1>1, <1>3, SMT DEF AddGuardian, Bootstrap, RECOVERY_THRESHOLD, MaxGuardians, SetTypes
  <2>3. g \notin Members
    BY <1>1, <2>1, NotAMember DEF AddressIsNew
  <2>4. Members' = Members \cup {g}
    BY <1>1, <2>1, <2>2, AppendAddressMembers
  <2>5. QED
    BY <2>1, <2>2, <2>3, <2>4, JoinMaps
<1>4. ASSUME NEW key \in P256Key, AddP256Guardian(key)
      PROVE  Consensus!Next
  <2>1. /\ ~RecoveryActive /\ AppendKey(key) /\ KeyIsNew(key) /\ guardianCount < MaxGuardians
        /\ pendingWeightChange' = NoWeightChange
        /\ UNCHANGED <<owner, activeRecovery, weightConfig>>
    BY <1>4 DEF AddP256Guardian, Bootstrap, AppendKey
  <2>2. key # owner
    BY DistinctValues DEF IInv, TypeOK
  <2>3. key \notin Members
    BY <1>1, <2>1, NotAKeyMember
  <2>4. Members' = Members \cup {key}
    BY <1>1, <2>1, AppendKeyMembers
  <2>5. QED
    BY <2>1, <2>2, <2>3, <2>4, JoinMaps
<1>5. QED
  BY <1>2, <1>3, <1>4
     DEF BootstrapStep, SetP256Key, ProposeGuardianAddition, ProposeP256GuardianAddition

\* Additions and removals that the guardians sign are arrivals and departures.
LEMMA ConsensusMaps ==
  ASSUME IInv, ConsensusStep
  PROVE  Consensus!Next
<1>1. SetTypes /\ SlotsWellFormed
  BY DEF IInv, TypeOK, SetTypes
<1>2. ASSUME NEW slots \in SUBSET Slot, NEW g \in Address, AddGuardianWithMixedSigs(g, slots)
      PROVE  Consensus!Next
  <2>1. /\ ~RecoveryActive /\ g # owner /\ AddressIsNew(g) /\ AppendAddress(g)
        /\ guardianCount < MaxGuardians
        /\ UNCHANGED <<owner, activeRecovery, weightConfig, pendingWeightChange>>
    BY <1>2 DEF AddGuardianWithMixedSigs, EligibleAddress
  <2>2. g \notin Members
    BY <1>1, <2>1, NotAMember DEF AddressIsNew
  <2>3. Members' = Members \cup {g} /\ \A i \in Occupied : Identity(i)' = Identity(i)
    BY <1>1, <2>1, AppendAddressMembers
  <2>4. QED
    BY <2>1, <2>2, <2>3, JoinMaps
<1>3. ASSUME NEW slots \in SUBSET Slot, NEW key \in P256Key, AddP256GuardianWithMixedSigs(key, slots)
      PROVE  Consensus!Next
  <2>1. /\ ~RecoveryActive /\ AppendKey(key) /\ KeyIsNew(key) /\ guardianCount < MaxGuardians
        /\ UNCHANGED <<owner, activeRecovery, weightConfig, pendingWeightChange>>
    BY <1>3 DEF AddP256GuardianWithMixedSigs, AppendKey
  <2>2. key # owner
    BY DistinctValues DEF IInv, TypeOK
  <2>3. key \notin Members
    BY <1>1, <2>1, NotAKeyMember
  <2>4. Members' = Members \cup {key} /\ \A i \in Occupied : Identity(i)' = Identity(i)
    BY <1>1, <2>1, AppendKeyMembers
  <2>5. QED
    BY <2>1, <2>2, <2>3, <2>4, JoinMaps
<1>4. ASSUME NEW slots \in SUBSET Slot, NEW index \in Slot, Remove(index, slots)
      PROVE  Consensus!Next
  <2>1. /\ ~RecoveryActive /\ guardianCount > 2 /\ index \in Occupied /\ WithoutSlot(index)
        /\ pendingWeightChange' = NoWeightChange
        /\ UNCHANGED <<owner, activeRecovery, weightConfig>>
    BY <1>4 DEF Remove, VoidWeightChange
  <2>2. Members' = Members \ {Identity(index)} /\ Identity(index) \in Members
    BY <1>1, <2>1, WithoutSlotMembers DEF Members, Voters
  <2>3. Cardinality(Members) > 2 /\ Identity(index) \in Address \cup P256Key
    BY <1>1, <2>1, <2>2, MembersCount, MembersAreElectors
  <2>4. Ballot = {} /\ Ballot' = Ballot /\ Draft' = {}
    BY <2>1, BallotFrame, DraftVoided
  <2>5. Consensus!Leave(Identity(index))
    BY <2>1, <2>2, <2>3, <2>4, SameCardinality DEF Consensus!Leave, Consensus!Quorum
  <2>6. QED
    BY <2>3, <2>5 DEF Consensus!Next
<1>5. QED
  BY <1>2, <1>3, <1>4 DEF ConsensusStep, RemoveGuardian, RemoveGuardianWithMixedSigs

--------------------------------------------------------------------------------
(* Recovery *)

\* A vote, by transaction or by signature, is cast by the guardian of its slot.
LEMMA RecoveryMaps ==
  ASSUME IInv, RecoveryStep
  PROVE  Consensus!Next
<1>1. SetTypes /\ SlotsWellFormed /\ TypeOK
  BY DEF IInv, TypeOK, SetTypes
<1>2. ASSUME VoteFrame
      PROVE  /\ Members' = Members /\ Draft' = Draft
             /\ UNCHANGED <<owner, weightConfig>>
             /\ \A i : Identity(i)' = Identity(i)
  BY <1>2, IdentityFrame, DraftFrame DEF VoteFrame
<1>3. ASSUME NEW i \in Occupied
      PROVE  Identity(i) \in Address \cup P256Key /\ Identity(i) \in Members
  BY <1>1, OccupiedIdentity DEF Members, Voters
<1>4. ASSUME NEW newOwner \in Address \cup {Sentinel}, NEW i \in Occupied,
             VoteFrame, ValidNewOwner(newOwner), CommitProposal(newOwner, i)
      PROVE  Consensus!Next
  <2>1. newOwner \notin Members
    BY <1>1, <1>4, NotAMember DEF ValidNewOwner
  <2>2. Ballot = {} /\ newOwner # owner
    BY <1>4 DEF ValidNewOwner, Ballot
  <2>3. Ballot' = {[candidate |-> newOwner, age |-> 0, yes |-> {Identity(i)}, no |-> {}]}
    <3>1. newOwner # NoAddress
      BY DistinctValues
    <3>2. Voters({i})' = {Identity(i)} /\ Voters({})' = {}
      BY <1>2, <1>4 DEF Voters
    <3>3. /\ activeRecovery'.newOwner = newOwner /\ activeRecovery'.age = 0
          /\ activeRecovery'.approvals = {i} /\ activeRecovery'.cancellations = {}
      BY <1>4 DEF CommitProposal
    <3>4. QED
      BY <3>1, <3>2, <3>3 DEF Ballot, RecoveryActive, Voters
  <2>4. Consensus!OpenBallot(Identity(i), newOwner)
    BY <1>2, <1>3, <1>4, <2>1, <2>2, <2>3 DEF Consensus!OpenBallot
  <2>5. QED
    BY <1>3, <2>4 DEF Consensus!Next
<1> DEFINE b == [candidate |-> activeRecovery.newOwner, age |-> activeRecovery.age,
                 yes |-> Voters(activeRecovery.approvals),
                 no |-> Voters(activeRecovery.cancellations)]
<1>5. RecoveryActive => Ballot = {b}
  BY DEF Ballot
<1>6. /\ b.candidate = activeRecovery.newOwner /\ b.age = activeRecovery.age
      /\ b.yes = Voters(activeRecovery.approvals) /\ b.no = Voters(activeRecovery.cancellations)
  OBVIOUS
<1>7. activeRecovery.approvals \subseteq Occupied /\ activeRecovery.cancellations \subseteq Occupied
  BY DEF IInv, VotersAreGuardians
<1>8. ASSUME NEW i \in Occupied, i \notin activeRecovery.approvals,
             VoteFrame, RecoveryActive, CommitApproval(i)
      PROVE  Consensus!Next
  <2>1. Identity(i) \notin b.yes
    BY <1>1, <1>6, <1>7, <1>8, VoterOfSlot
  <2>2. Ballot' = {[b EXCEPT !.yes = @ \cup {Identity(i)}]}
    <3>1. /\ activeRecovery'.newOwner = activeRecovery.newOwner
          /\ activeRecovery'.age = activeRecovery.age
          /\ activeRecovery'.approvals = activeRecovery.approvals \cup {i}
          /\ activeRecovery'.cancellations = activeRecovery.cancellations
      BY <1>1, <1>8 DEF CommitApproval, TypeOK
    <3>2. /\ Voters(activeRecovery.approvals)' = Voters(activeRecovery.approvals) \cup {Identity(i)}
          /\ Voters(activeRecovery.cancellations)' = Voters(activeRecovery.cancellations)
      BY <1>2, <1>8, <3>1 DEF Voters
    <3>3. QED
      BY <1>8, <3>1, <3>2 DEF Ballot, RecoveryActive
  <2>3. Consensus!VoteYes(Identity(i))
    <3> HIDE DEF b
    <3>1. QED
      BY <1>2, <1>3, <1>5, <1>8, <2>1, <2>2 DEF Consensus!VoteYes
  <2>4. QED
    BY <1>3, <2>3 DEF Consensus!Next
<1>9. ASSUME NEW i \in Occupied, i \notin activeRecovery.cancellations,
             VoteFrame, RecoveryActive, CommitCancelVote(i)
      PROVE  Consensus!Next
  <2> DEFINE votes == activeRecovery.cancellations \cup {i}
  <2>1. Identity(i) \notin b.no
    BY <1>1, <1>6, <1>7, <1>9, VoterOfSlot
  <2>2. b.no \cup {Identity(i)} = Voters(votes)
    BY <1>6 DEF Voters
  <2>3. Cardinality(b.no \cup {Identity(i)}) = Cardinality(votes)
    <3>1. votes \subseteq Occupied
      BY <1>7
    <3>2. QED
      BY <1>1, <2>2, <3>1, VotersCount
  <2>4. Ballot' = IF Cardinality(b.no \cup {Identity(i)}) >= 2
                    THEN {} ELSE {[b EXCEPT !.no = @ \cup {Identity(i)}]}
    <3>1. CASE Quorum(votes)
      <4>1. activeRecovery' = NoRecovery
        BY <1>9, <3>1 DEF CommitCancelVote
      <4>2. Ballot' = {}
        BY <4>1, DeletedRound DEF Ballot, RecoveryActive
      <4>3. QED
        BY <2>3, <3>1, <4>2 DEF Quorum, RECOVERY_THRESHOLD
    <3>2. CASE ~Quorum(votes)
      <4>1. /\ activeRecovery'.newOwner = activeRecovery.newOwner
            /\ activeRecovery'.age = activeRecovery.age
            /\ activeRecovery'.approvals = activeRecovery.approvals
            /\ activeRecovery'.cancellations = votes
        BY <1>1, <1>9, <3>2 DEF CommitCancelVote, TypeOK
      <4>2. /\ Voters(activeRecovery.approvals)' = Voters(activeRecovery.approvals)
            /\ Voters(activeRecovery.cancellations)' = b.no \cup {Identity(i)}
        BY <1>2, <1>9, <2>2, <4>1 DEF Voters
      <4>3. Ballot' = {[b EXCEPT !.no = @ \cup {Identity(i)}]}
        BY <1>9, <4>1, <4>2 DEF Ballot, RecoveryActive
      <4>4. QED
        BY <2>3, <3>2, <4>3 DEF Quorum, RECOVERY_THRESHOLD
    <3>3. QED
      BY <3>1, <3>2
  <2>5. Consensus!VoteNo(Identity(i))
    <3> HIDE DEF b
    <3>1. QED
      BY <1>2, <1>3, <1>5, <1>9, <2>1, <2>4, SameCardinality
         DEF Consensus!VoteNo, Consensus!Quorum
  <2>6. QED
    BY <1>3, <2>5 DEF Consensus!Next
<1>10. ASSUME ExecuteRecovery
       PROVE  Consensus!Next
  <2>1. /\ RecoveryActive /\ activeRecovery.age >= RecoveryTimelock
        /\ Quorum(activeRecovery.approvals)
        /\ owner' = activeRecovery.newOwner /\ pendingWeightChange' = NoWeightChange
        /\ activeRecovery' = NoRecovery /\ UNCHANGED <<setVars, weightConfig>>
    BY <1>10 DEF ExecuteRecovery, RecoveryDue, HandOver
  <2>2. Members' = Members /\ Draft' = {} /\ Ballot' = {}
    BY <2>1, IdentityFrame, DraftVoided, DeletedRound DEF Ballot, RecoveryActive
  <2>3. Cardinality(b.yes) >= 2
    BY <1>1, <1>6, <1>7, <2>1, VotersCount DEF Quorum, RECOVERY_THRESHOLD
  <2>4. Consensus!Elect
    <3> HIDE DEF b
    <3>1. QED
      BY <1>5, <1>6, <2>1, <2>2, <2>3, SameCardinality DEF Consensus!Elect, Consensus!Quorum
  <2>5. QED
    BY <2>4 DEF Consensus!Next
<1>11. ASSUME NEW caller, NEW i \in Slot, SentBy(caller, i)
       PROVE  i \in Occupied /\ VoteFrame
  BY <1>11 DEF SentBy, GuardianIndex
<1>12. ASSUME NEW i, NEW op, NEW newOwner, SignedBy(i, op, newOwner)
       PROVE  i \in Occupied /\ VoteFrame
  BY <1>12 DEF SignedBy
<1> HIDE DEF b
<1>13. ASSUME NEW newOwner \in Address \cup {Sentinel},
              \/ \E caller \in Address : ProposeRecovery(caller, newOwner)
              \/ \E i \in Slot : ProposeRecoveryWithSig(newOwner, i)
       PROVE  Consensus!Next
  BY <1>4, <1>11, <1>12, <1>13 DEF ProposeRecovery, ProposeRecoveryWithSig
<1>14. ASSUME NEW caller \in Address, ApproveRecovery(caller) \/ CancelRecovery(caller)
       PROVE  Consensus!Next
  BY <1>8, <1>9, <1>11, <1>14 DEF ApproveRecovery, CancelRecovery
<1>15. ASSUME NEW i \in Slot, ApproveRecoveryWithSig(i) \/ CancelRecoveryWithSig(i)
       PROVE  Consensus!Next
  BY <1>8, <1>9, <1>12, <1>15 DEF ApproveRecoveryWithSig, CancelRecoveryWithSig
<1>16. QED
  BY <1>10, <1>13, <1>14, <1>15 DEF RecoveryStep

--------------------------------------------------------------------------------
(* The weighted-signature policy *)

\* A direct change of the policy tightens it; a weaker one is drafted, supported
\* and enacted, or withdrawn.
LEMMA WeightMaps ==
  ASSUME IInv, WeightStep
  PROVE  Consensus!Next
<1>1. SetTypes /\ SlotsWellFormed /\ TypeOK
  BY DEF IInv, TypeOK, SetTypes
<1>2. ASSUME WeightFrame
      PROVE  /\ Members' = Members /\ Ballot' = Ballot /\ UNCHANGED owner
             /\ \A i : Identity(i)' = Identity(i)
  BY <1>2, IdentityFrame, BallotFrame DEF WeightFrame
<1> DEFINE d == [policy |-> pendingWeightChange.proposed, age |-> pendingWeightChange.age,
                 yes |-> Voters(pendingWeightChange.approvals)]
<1>3. Draft = IF WeightChangeOpen THEN {d} ELSE {}
  BY DEF Draft
<1>4. /\ d.policy = pendingWeightChange.proposed /\ d.age = pendingWeightChange.age
      /\ d.yes = Voters(pendingWeightChange.approvals)
  OBVIOUS
<1>5. pendingWeightChange.approvals \subseteq Occupied
  BY DEF IInv, VotersAreGuardians
<1>6. ASSUME NEW config \in Configs, SetWeightConfig(config)
      PROVE  Consensus!Next
  <2>1. /\ WeightFrame /\ weightConfig' = config /\ UNCHANGED pendingWeightChange
        /\ ~WeightChangeOpen
        /\ weightConfig.tier1 # 0 => ~IsWeakening(weightConfig, config)
    BY <1>6 DEF SetWeightConfig
  <2>2. Draft' = Draft /\ Draft = {}
    BY <1>2, <1>3, <2>1, DraftFrame
  <2>3. weightConfig # Unset => weightConfig.tier1 # 0
    BY DEF IInv, PoliciesChecked, ValidConfig
  <2>4. ASSUME weightConfig # Unset, NEW B
        PROVE  TierOf(config, B) <= TierOf(weightConfig, B)
    BY <1>1, <2>1, <2>3, <2>4, ConfigsAreRecords, NoWeakeningNoGain DEF TypeOK
  <2>5. Consensus!Tighten(config)
    BY <1>2, <2>1, <2>2, <2>4, SamePolicies DEF Consensus!Tighten
  <2>6. QED
    BY <2>5 DEF Consensus!Next
<1>7. ASSUME NEW config \in Configs, ProposeWeightChange(config)
      PROVE  Consensus!Next
  <2>1. /\ WeightFrame /\ ~WeightChangeOpen /\ ~RecoveryActive /\ UNCHANGED weightConfig
        /\ pendingWeightChange' = [proposed |-> config, age |-> 0, approvals |-> {}]
    BY <1>7 DEF ProposeWeightChange
  <2>2. Draft' = {[policy |-> config, age |-> 0, yes |-> {}]}
    <3>1. 0 # Never
      BY SMT DEF Never
    <3>2. /\ pendingWeightChange'.proposed = config /\ pendingWeightChange'.age = 0
          /\ pendingWeightChange'.approvals = {}
      BY <2>1
    <3>3. Voters(pendingWeightChange.approvals)' = {}
      BY <3>2 DEF Voters
    <3>4. QED
      BY <3>1, <3>2, <3>3 DEF Draft, WeightChangeOpen
  <2>3. Draft = {} /\ Ballot = {}
    BY <1>3, <2>1 DEF Ballot
  <2>4. Consensus!Propose(config)
    BY <1>2, <2>1, <2>2, <2>3 DEF Consensus!Propose
  <2>5. QED
    BY <2>4 DEF Consensus!Next
<1>8. ASSUME NEW caller \in Address, ApproveWeightChange(caller)
      PROVE  Consensus!Next
  <2>1. PICK i \in Occupied \ pendingWeightChange.approvals :
           pendingWeightChange' = [pendingWeightChange EXCEPT !.approvals = @ \cup {i}]
    BY <1>8 DEF ApproveWeightChange, GuardianIndex
  <2>2. WeightFrame /\ WeightChangeOpen /\ UNCHANGED weightConfig
    BY <1>8 DEF ApproveWeightChange
  <2>3. /\ Identity(i) \in Address \cup P256Key /\ Identity(i) \in Members
        /\ Identity(i) \notin d.yes
    <3>1. Identity(i) \in Address \cup P256Key /\ Identity(i) \in Members
      BY <1>1, OccupiedIdentity DEF Members, Voters
    <3>2. Identity(i) \notin d.yes
      BY <1>1, <1>4, <1>5, VoterOfSlot
    <3>3. QED
      BY <3>1, <3>2
  <2>4. Draft' = {[d EXCEPT !.yes = @ \cup {Identity(i)}]}
    <3>1. /\ pendingWeightChange'.proposed = pendingWeightChange.proposed
          /\ pendingWeightChange'.age = pendingWeightChange.age
          /\ pendingWeightChange'.approvals = pendingWeightChange.approvals \cup {i}
      BY <1>1, <2>1 DEF TypeOK
    <3>2. Voters(pendingWeightChange.approvals)'
            = Voters(pendingWeightChange.approvals) \cup {Identity(i)}
      BY <1>2, <2>2, <3>1 DEF Voters
    <3>3. QED
      BY <2>2, <3>1, <3>2 DEF Draft, WeightChangeOpen
  <2>5. Consensus!Support(Identity(i))
    <3> HIDE DEF d
    <3>1. QED
      BY <1>2, <1>3, <2>2, <2>3, <2>4 DEF Consensus!Support
  <2>6. QED
    BY <2>3, <2>5 DEF Consensus!Next
<1>9. ASSUME ExecuteWeightChange
      PROVE  Consensus!Next
  <2>1. /\ WeightFrame /\ WeightChangeOpen
        /\ Cardinality(pendingWeightChange.approvals) >= 2
        /\ weightConfig' = pendingWeightChange.proposed
        /\ pendingWeightChange' = NoWeightChange
    BY <1>9 DEF ExecuteWeightChange, WEIGHT_CHANGE_THRESHOLD
  <2>2. d.age \in WeightTimelock .. WeightExpiry
    <3>1. pendingWeightChange.age \in Int
      BY <1>1, TimeConstants, SMT DEF TypeOK, ChangeAge, Never
    <3>2. QED
      BY <1>4, <1>9, <3>1, TimeConstants, SMT DEF ExecuteWeightChange
  <2>3. Cardinality(d.yes) >= 2
    BY <1>1, <1>4, <1>5, <2>1, VotersCount
  <2>4. Draft' = {}
    BY <2>1, DraftVoided
  <2>5. Consensus!Enact
    <3> HIDE DEF d
    <3>1. QED
      BY <1>2, <1>3, <1>4, <2>1, <2>2, <2>3, <2>4, SameCardinality
         DEF Consensus!Enact, Consensus!Quorum
  <2>6. QED
    BY <2>5 DEF Consensus!Next
<1>10. ASSUME NEW caller \in Address, CancelWeightChange(caller)
       PROVE  Consensus!Next
  <2>1. /\ WeightFrame /\ WeightChangeOpen /\ UNCHANGED weightConfig
        /\ pendingWeightChange' = NoWeightChange
    BY <1>10 DEF CancelWeightChange
  <2>2. Consensus!Withdraw
    BY <1>2, <1>3, <2>1, DraftVoided DEF Consensus!Withdraw
  <2>3. QED
    BY <2>2 DEF Consensus!Next
<1>11. QED
  BY <1>6, <1>7, <1>8, <1>9, <1>10 DEF WeightStep

--------------------------------------------------------------------------------
(* Time *)

\* An open round has an age: it got one when it was proposed.
RoundsHaveAge == RecoveryActive => activeRecovery.age # Never

\* Growing older neither takes an age away nor gives one.
LEMMA OlderAge ==
  ASSUME NEW n \in Nat, NEW a \in Never .. n
  PROVE  /\ Older(a, Never .. n) = Never <=> a = Never
         /\ a # Never => Older(a, Never .. n) = Consensus!Older(a, n)
BY SMT DEF Older, Consensus!Older, Never

\* Only recovery and the clock touch the round, and both leave it an age.
LEMMA RoundsHaveAgeStep ==
  ASSUME IInv, RoundsHaveAge, [Next]_vars
  PROVE  RoundsHaveAge'
<1>1. ASSUME UNCHANGED activeRecovery
      PROVE  RoundsHaveAge'
  BY <1>1 DEF RoundsHaveAge, RecoveryActive
<1>2. CASE RecoveryStep
  <2>1. ASSUME NEW newOwner, NEW i, CommitProposal(newOwner, i)
        PROVE  RoundsHaveAge'
    <3>1. 0 # Never
      BY SMT DEF Never
    <3>2. QED
      BY <2>1, <3>1 DEF CommitProposal, RoundsHaveAge
  <2>2. ASSUME NEW i, RecoveryActive, CommitApproval(i) \/ CommitCancelVote(i)
        PROVE  RoundsHaveAge'
    BY <2>2, DeletedRound
       DEF CommitApproval, CommitCancelVote, RoundsHaveAge, RecoveryActive, IInv, TypeOK
  <2>3. ASSUME ExecuteRecovery
        PROVE  RoundsHaveAge'
    BY <2>3, DeletedRound DEF ExecuteRecovery, RoundsHaveAge, RecoveryActive
  <2>4. QED
    BY <1>2, <2>1, <2>2, <2>3
       DEF RecoveryStep, ProposeRecovery, ProposeRecoveryWithSig, ApproveRecovery,
           ApproveRecoveryWithSig, CancelRecovery, CancelRecoveryWithSig
<1>3. CASE Tick
  <2>1. activeRecovery'.newOwner = activeRecovery.newOwner
    BY <1>3 DEF Tick, IInv, TypeOK
  <2>2. activeRecovery'.age = Older(activeRecovery.age, RoundAge)
    BY <1>3 DEF Tick, IInv, TypeOK
  <2>3. activeRecovery.age \in Never .. RecoveryTimelock
    BY DEF IInv, TypeOK, RoundAge
  <2>4. activeRecovery'.age = Never <=> activeRecovery.age = Never
    BY <2>2, <2>3, OlderAge, TimeConstants DEF RoundAge
  <2>5. QED
    BY <2>1, <2>4 DEF RoundsHaveAge, RecoveryActive
<1>4. CASE BootstrapStep \/ ConsensusStep \/ WeightStep \/ UNCHANGED vars
  BY <1>1, <1>4
     DEF BootstrapStep, SetP256Key, AddGuardian, ProposeGuardianAddition, AddP256Guardian,
         ProposeP256GuardianAddition, ConsensusStep, AddGuardianWithMixedSigs,
         AddP256GuardianWithMixedSigs, RemoveGuardian, RemoveGuardianWithMixedSigs, Remove,
         WeightStep, SetWeightConfig, ProposeWeightChange, ApproveWeightChange,
         ExecuteWeightChange, CancelWeightChange, WeightFrame, vars
<1>5. QED
  BY <1>2, <1>3, <1>4 DEF Next

\* A block ages the ballot and the draft alike.
LEMMA TickMaps ==
  ASSUME IInv, RoundsHaveAge, Tick
  PROVE  Consensus!Next
<1>1. /\ UNCHANGED <<owner, setVars, weightConfig>>
      /\ activeRecovery' = [activeRecovery EXCEPT !.age = Older(activeRecovery.age, RoundAge)]
      /\ pendingWeightChange' = [pendingWeightChange EXCEPT !.age = Older(pendingWeightChange.age, ChangeAge)]
  BY DEF Tick
<1>2. Members' = Members /\ \A slots : Voters(slots)' = Voters(slots)
  BY <1>1, IdentityFrame DEF Voters
<1>3. /\ activeRecovery'.newOwner = activeRecovery.newOwner
      /\ activeRecovery'.approvals = activeRecovery.approvals
      /\ activeRecovery'.cancellations = activeRecovery.cancellations
      /\ activeRecovery'.age = Older(activeRecovery.age, RoundAge)
  BY <1>1 DEF IInv, TypeOK
<1>4. /\ pendingWeightChange'.proposed = pendingWeightChange.proposed
      /\ pendingWeightChange'.approvals = pendingWeightChange.approvals
      /\ pendingWeightChange'.age = Older(pendingWeightChange.age, ChangeAge)
  BY <1>1 DEF IInv, TypeOK
<1>5. /\ activeRecovery.age \in Never .. RecoveryTimelock
      /\ pendingWeightChange.age \in Never .. WeightExpiry + 1
  BY DEF IInv, TypeOK, RoundAge, ChangeAge
<1>6. Ballot' = {[b EXCEPT !.age = Consensus!Older(@, RecoveryTimelock)] : b \in Ballot}
  <2>1. CASE ~RecoveryActive
    BY <1>3, <2>1 DEF Ballot, RecoveryActive
  <2>2. CASE RecoveryActive
    <3> DEFINE b == [candidate |-> activeRecovery.newOwner, age |-> activeRecovery.age,
                     yes |-> Voters(activeRecovery.approvals),
                     no |-> Voters(activeRecovery.cancellations)]
    <3>1. activeRecovery'.age = Consensus!Older(activeRecovery.age, RecoveryTimelock)
      BY <1>3, <1>5, <2>2, OlderAge, TimeConstants DEF RoundsHaveAge, RoundAge
    <3>2. /\ Voters(activeRecovery.approvals)' = Voters(activeRecovery.approvals)
          /\ Voters(activeRecovery.cancellations)' = Voters(activeRecovery.cancellations)
      BY <1>2, <1>3 DEF Voters
    <3>3. Ballot' = {[b EXCEPT !.age = Consensus!Older(b.age, RecoveryTimelock)]}
      BY <1>3, <2>2, <3>1, <3>2 DEF Ballot, RecoveryActive
    <3>4. Ballot = {b}
      BY <2>2 DEF Ballot
    <3> HIDE DEF b
    <3>5. QED
      BY <3>3, <3>4
  <2>3. QED
    BY <2>1, <2>2
<1>7. Draft' = {[d EXCEPT !.age = Consensus!Older(@, WeightExpiry + 1)] : d \in Draft}
  <2>1. /\ pendingWeightChange'.age = Never <=> pendingWeightChange.age = Never
        /\ WeightChangeOpen
             => pendingWeightChange'.age = Consensus!Older(pendingWeightChange.age, WeightExpiry + 1)
    <3>1. WeightExpiry + 1 \in Nat
      BY TimeConstants, SMT
    <3>2. QED
      BY <1>4, <1>5, <3>1, OlderAge DEF ChangeAge, WeightChangeOpen
  <2>2. CASE ~WeightChangeOpen
    BY <2>1, <2>2 DEF Draft, WeightChangeOpen
  <2>3. CASE WeightChangeOpen
    <3> DEFINE d == [policy |-> pendingWeightChange.proposed, age |-> pendingWeightChange.age,
                     yes |-> Voters(pendingWeightChange.approvals)]
    <3>1. Voters(pendingWeightChange.approvals)' = Voters(pendingWeightChange.approvals)
      BY <1>2, <1>4 DEF Voters
    <3>2. Draft' = {[d EXCEPT !.age = Consensus!Older(d.age, WeightExpiry + 1)]}
      BY <1>4, <2>1, <2>3, <3>1 DEF Draft, WeightChangeOpen
    <3>3. Draft = {d}
      BY <2>3 DEF Draft
    <3> HIDE DEF d
    <3>4. QED
      BY <3>2, <3>3
  <2>4. QED
    BY <2>2, <2>3
<1>8. Consensus!Tick
  BY <1>1, <1>2, <1>6, <1>7 DEF Consensus!Tick
<1>9. QED
  BY <1>8 DEF Consensus!Next

--------------------------------------------------------------------------------
(* The refinement *)

\* A new account has at most three guardians, none of them its owner, no ballot
\* and no draft.
LEMMA InitMaps == Init => Consensus!Init
<1> SUFFICES ASSUME Init
             PROVE  Consensus!Init
  OBVIOUS
<1>1. IInv /\ SetTypes /\ SlotsWellFormed
  BY InitIInv DEF IInv, TypeOK, SetTypes
<1>2. owner \in Address \cup {Sentinel} /\ weightConfig = Consensus!Unset
  BY SamePolicies DEF Init
<1>3. Members \in SUBSET ((Address \cup P256Key) \ {owner})
  <2>1. \A i \in Occupied : guardian[i] # owner
    BY <1>1 DEF IInv, OwnerNotGuardian
  <2>2. owner \notin Members
    BY <1>1, <1>2, <2>1, NotAMember
  <2>3. QED
    BY <1>1, <2>2, MembersAreElectors
<1>4. Consensus!Cardinality(Members) <= 3
  <2>1. guardianCount <= 3
    BY <1>1, SMT DEF SetTypes, MaxGuardians
  <2>2. QED
    BY <1>1, <2>1, MembersCount, SameCardinality
<1>5. Ballot = {} /\ Draft = {}
  BY DeletedRound, DeletedChange DEF Init, Ballot, Draft, RecoveryActive, WeightChangeOpen
<1>6. QED
  BY <1>2, <1>3, <1>4, <1>5 DEF Consensus!Init, Consensus!Full

\* Every step maps to a step of the consensus or to none.
LEMMA StepMaps ==
  IInv /\ RoundsHaveAge /\ [Next]_vars => [Consensus!Next]_(Consensus!vars)
<1> SUFFICES ASSUME IInv, RoundsHaveAge, [Next]_vars
             PROVE  Consensus!Next \/ UNCHANGED Consensus!vars
  OBVIOUS
<1>1. CASE Next
  BY <1>1, BootstrapMaps, ConsensusMaps, RecoveryMaps, WeightMaps, TickMaps DEF Next
<1>2. CASE UNCHANGED vars
  BY <1>2, IdentityFrame, BallotFrame, DraftFrame DEF vars, Consensus!vars
<1>3. QED
  BY <1>1, <1>2

\* The account keeps the promise of the consensus: no removal, addition or recovery,
\* in whatever order, moves a vote to a guardian that did not cast it, and nobody
\* but two guardians changes the owner or weakens the policy.
THEOREM AccountImplementsConsensus == Spec => ImplementsConsensus
<1>1. Init => RoundsHaveAge
  BY DeletedRound DEF Init, RoundsHaveAge, RecoveryActive
<1>2. IInv /\ RoundsHaveAge /\ [Next]_vars => RoundsHaveAge'
  BY RoundsHaveAgeStep
<1>3. Spec => []RoundsHaveAge
  BY <1>1, <1>2, SpecIInv, PTL DEF Spec
<1>4. QED
  BY <1>3, InitMaps, StepMaps, SpecIInv, PTL DEF Spec, ImplementsConsensus, Consensus!Spec

================================================================================
