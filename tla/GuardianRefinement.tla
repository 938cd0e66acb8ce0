--------------------------- MODULE GuardianRefinement ---------------------------
(***************************************************************************)
(* GuardianGovernance implements GuardianConsensus.  The mapping forgets   *)
(* the slots: a slot stands for the key that speaks for it, a bitmap of    *)
(* slots for the guardians that voted.  A vote that a removal made point   *)
(* at another guardian would be a change of the abstract votes that no     *)
(* abstract step makes.                                                    *)
(***************************************************************************)
EXTENDS GuardianGovernance

Voters(slots) == {Identity(i) : i \in slots}

Members == Voters(Occupied)

Ballot ==
  IF RecoveryActive
    THEN {[candidate |-> activeRecovery.newOwner, age |-> activeRecovery.age,
           yes |-> Voters(activeRecovery.approvals),
           no |-> Voters(activeRecovery.cancellations)]}
    ELSE {}

Draft ==
  IF WeightChangeOpen
    THEN {[policy |-> pendingWeightChange.proposed, age |-> pendingWeightChange.age,
           yes |-> Voters(pendingWeightChange.approvals)]}
    ELSE {}

Consensus == INSTANCE GuardianConsensus WITH
  Elector <- Address \cup P256Key,
  Owner <- Address \cup {Sentinel},
  Policies <- Configs,
  Delay <- RecoveryTimelock,
  DraftDelay <- WeightTimelock,
  DraftExpiry <- WeightExpiry,
  members <- Members,
  ballot <- Ballot,
  policy <- weightConfig,
  draft <- Draft

\* Read by who holds a slot instead of where, every transaction of the account is
\* one step of the guardians' consensus or none: in particular no removal,
\* addition or recovery moves a vote to a guardian that did not cast it.
ImplementsConsensus == Consensus!Spec
=================================================================================
