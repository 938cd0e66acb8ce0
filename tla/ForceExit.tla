------------------------------- MODULE ForceExit -------------------------------
(***************************************************************************)
(* ForceExitModule: an executor module with which an account on a rollup   *)
(* withdraws to L1 through the native bridge when two of its guardians     *)
(* approve.  The account proposes, guardians approve with ECDSA            *)
(* signatures over the proposal, anybody executes, the owner cancels.      *)
(*                                                                         *)
(* The module keeps its own state per account and reads the account's      *)
(* guardians by calls; between a proposal and its execution the account's  *)
(* owner and guardians, and whether the module is still installed, change. *)
(* One account is modelled, with the state of it that the module reads.    *)
(***************************************************************************)
EXTENDS Integers, FiniteSets, Sequences

CONSTANTS
  Address,      \* accounts that can hold a key and send transactions
  P256Key,      \* P-256 public keys
  NoAddress,    \* address(0)
  Sentinel,     \* P256_GUARDIAN_SENTINEL, what guardians(i) says of a P-256 guardian
  Payload,      \* (target, value, data) of a withdrawal
  MaxTime       \* bound: the clock stops here

ASSUME DistinctAddresses ==
  /\ NoAddress \notin Address /\ Sentinel \notin Address /\ NoAddress # Sentinel
  /\ P256Key \cap (Address \cup {NoAddress, Sentinel}) = {}

ASSUME MaxTimeIsPositive == MaxTime \in Nat \ {0}

VARIABLES
  now,            \* block.timestamp
  guardian,       \* the account's guardians in slot order, an address or a P-256 key each
  initialized,    \* _initialized[account]
  l2Type,         \* accountL2Type[account]
  pendingExit,    \* pendingExit[account]
  withdrawn,      \* history: has a withdrawal left the account (in the last step)?
  backing         \* history: who signed the approvals of one proposal, and which

moduleState == <<initialized, l2Type, pendingExit>>

APPROVAL_THRESHOLD == 2
L2Types == {"op", "arbitrum"}
Unsupported == "none"                  \* accountL2Type 0
Slot == 0 .. 2
NoExit == <<>>                         \* proposedAt = 0
NoBacking == [of |-> NoExit, by |-> {}]

\* What the account's guardians(i) returns.
Guardians ==
  [i \in Slot |-> IF i >= Len(guardian) THEN NoAddress
                  ELSE IF guardian[i + 1] \in P256Key THEN Sentinel
                  ELSE guardian[i + 1]]

Present(a) == \E i \in Slot : Guardians[i] = a

ProposalHash(p) == <<p.payload, p.proposedAt>>

(***************************************************************************)
(* The callbacks of the account's module manager.                          *)
(***************************************************************************)
\* data is the L2 type, or "" for no data, which keeps the stored type.
OnInstall(data) ==
  /\ Guardians[0] # NoAddress
  /\ initialized' = TRUE
  /\ l2Type' = IF data = "" THEN l2Type ELSE data
  /\ UNCHANGED pendingExit

OnUninstall ==
  /\ initialized' = FALSE
  /\ l2Type' = Unsupported
  /\ pendingExit' = NoExit

(***************************************************************************)
(* The life of a proposal.                                                 *)
(***************************************************************************)
ProposeForceExit(payload) ==
  /\ initialized
  /\ pendingExit = NoExit
  /\ pendingExit' = [payload |-> payload, proposedAt |-> now, approvals |-> {},
                     guardians |-> Guardians]
  /\ withdrawn' = FALSE
  /\ UNCHANGED <<now, guardian, initialized, l2Type, backing>>

\* The first slot of the snapshot that holds the signer.
GuardianBit(snapshot, signer) ==
  {i \in Slot : snapshot[i] = signer /\ \A j \in Slot : j < i => snapshot[j] # signer}

ApproveForceExit(signer) ==
  /\ pendingExit # NoExit
  /\ Present(signer)
  /\ \E bit \in GuardianBit(pendingExit.guardians, signer) \ pendingExit.approvals :
       pendingExit' = [pendingExit EXCEPT !.approvals = @ \cup {bit}]
  /\ backing' = IF backing.of = ProposalHash(pendingExit)
                THEN [backing EXCEPT !.by = @ \cup {signer}]
                ELSE [of |-> ProposalHash(pendingExit), by |-> {signer}]
  /\ withdrawn' = FALSE
  /\ UNCHANGED <<now, guardian, initialized, l2Type>>

\* A change a bug could make: an approval counts for ever (issue #70).
RecordedApprovals(p) == p.approvals

\* Approvals by guardians who still are guardians.
LiveApprovals(p) ==
  {i \in p.approvals : p.guardians[i] # NoAddress /\ Present(p.guardians[i])}

\* The account's executeFromExecutor refuses a module that is not installed; when it
\* refuses the withdrawal for its amount, the whole call reverts.
ExecuteForceExit(isExecutor) ==
  /\ pendingExit # NoExit
  /\ Cardinality(pendingExit.approvals) >= APPROVAL_THRESHOLD
  /\ Cardinality(LiveApprovals(pendingExit)) >= APPROVAL_THRESHOLD
  /\ l2Type \in L2Types
  /\ isExecutor
  /\ pendingExit' = NoExit
  /\ withdrawn' = TRUE
  /\ UNCHANGED <<now, guardian, initialized, l2Type, backing>>

\* The account itself, or its present owner.
CancelForceExit ==
  /\ pendingExit # NoExit
  /\ pendingExit' = NoExit
  /\ withdrawn' = FALSE
  /\ UNCHANGED <<now, guardian, initialized, l2Type, backing>>

ExitStep(isExecutor) ==
  \/ \E payload \in Payload : ProposeForceExit(payload)
  \/ \E signer \in Address : ApproveForceExit(signer)
  \/ ExecuteForceExit(isExecutor)
  \/ CancelForceExit

ExitTypeOK ==
  /\ now \in 1 .. MaxTime
  /\ guardian \in UNION {[1 .. n -> Address \cup P256Key] : n \in 0 .. 3}
  /\ initialized \in BOOLEAN
  /\ l2Type \in L2Types \cup {Unsupported}
  /\ pendingExit # NoExit =>
       /\ pendingExit.payload \in Payload
       /\ pendingExit.proposedAt \in 1 .. now
       /\ pendingExit.approvals \subseteq {i \in Slot : pendingExit.guardians[i] \in Address}
       /\ pendingExit.guardians \in [Slot -> Address \cup {Sentinel, NoAddress}]
  /\ withdrawn \in BOOLEAN
================================================================================
