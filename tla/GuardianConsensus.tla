--------------------------- MODULE GuardianConsensus ----------------------------
(***************************************************************************)
(* What the guardians of an account promise its owner, in terms of who     *)
(* they are and not of where their slots are: an electorate, at most one   *)
(* open ballot on a new owner, and at most one open draft of a weaker      *)
(* signature policy.  A vote belongs to the guardian that cast it for as   *)
(* long as it counts.                                                      *)
(***************************************************************************)
EXTENDS Integers, FiniteSets, WeightPolicy

CONSTANTS
  Elector,        \* whoever can be a guardian: an address or a P-256 key
  Owner,           \* whoever can be made the owner
  Policies,        \* the policies that can be put in force
  Delay,           \* a ballot is decided no earlier than this
  DraftDelay,      \* a draft takes effect no earlier than this ...
  DraftExpiry      \* ... and no later than this

Quorum == 2
Full == 3
Older(a, limit) == IF a < limit THEN a + 1 ELSE a

VARIABLES
  owner,
  members,         \* the guardians
  ballot,          \* {} or one [candidate, age, yes, no]
  policy,          \* the policy in force, Unset at first
  draft            \* {} or one [policy, age, yes]

vars == <<owner, members, ballot, policy, draft>>

Init ==
  /\ owner \in Owner
  /\ members \in SUBSET (Elector \ {owner}) /\ Cardinality(members) <= Full
  /\ ballot = {} /\ policy = Unset /\ draft = {}

\* The electorate only changes while no ballot is open.  A departure voids the
\* open draft; an arrival may void it.
Join(m) ==
  /\ ballot = {} /\ m \notin members \cup {owner} /\ Cardinality(members) < Full
  /\ members' = members \cup {m}
  /\ draft' \in {draft, {}}
  /\ UNCHANGED <<owner, ballot, policy>>

Leave(m) ==
  /\ ballot = {} /\ m \in members /\ Cardinality(members) > Quorum
  /\ members' = members \ {m}
  /\ draft' = {}
  /\ UNCHANGED <<owner, ballot, policy>>

OpenBallot(m, candidate) ==
  /\ ballot = {} /\ m \in members /\ candidate \notin members \cup {owner}
  /\ ballot' = {[candidate |-> candidate, age |-> 0, yes |-> {m}, no |-> {}]}
  /\ UNCHANGED <<owner, members, policy, draft>>

VoteYes(m) ==
  \E b \in ballot :
    /\ m \in members \ b.yes
    /\ ballot' = {[b EXCEPT !.yes = @ \cup {m}]}
    /\ UNCHANGED <<owner, members, policy, draft>>

VoteNo(m) ==
  \E b \in ballot :
    /\ m \in members \ b.no
    /\ ballot' = IF Cardinality(b.no \cup {m}) >= Quorum
                   THEN {} ELSE {[b EXCEPT !.no = @ \cup {m}]}
    /\ UNCHANGED <<owner, members, policy, draft>>

\* The new owner starts without the drafts of the old one.
Elect ==
  \E b \in ballot :
    /\ Cardinality(b.yes) >= Quorum /\ b.age >= Delay
    /\ owner' = b.candidate
    /\ ballot' = {} /\ draft' = {}
    /\ UNCHANGED <<members, policy>>

\* Without a draft a policy is only ever replaced by one that gives no set of
\* signatures more than it had; the first policy has nothing to be compared with.
Tighten(p) ==
  /\ draft = {}
  /\ policy # Unset => \A B \in SUBSET Source : TierOf(p, B) <= TierOf(policy, B)
  /\ policy' = p
  /\ UNCHANGED <<owner, members, ballot, draft>>

Propose(p) ==
  /\ draft = {} /\ ballot = {}
  /\ draft' = {[policy |-> p, age |-> 0, yes |-> {}]}
  /\ UNCHANGED <<owner, members, ballot, policy>>

Support(m) ==
  \E d \in draft :
    /\ m \in members \ d.yes
    /\ draft' = {[d EXCEPT !.yes = @ \cup {m}]}
    /\ UNCHANGED <<owner, members, ballot, policy>>

Enact ==
  \E d \in draft :
    /\ Cardinality(d.yes) >= Quorum /\ d.age \in DraftDelay .. DraftExpiry
    /\ policy' = d.policy /\ draft' = {}
    /\ UNCHANGED <<owner, members, ballot>>

Withdraw ==
  /\ draft # {} /\ draft' = {}
  /\ UNCHANGED <<owner, members, ballot, policy>>

Tick ==
  /\ ballot' = {[b EXCEPT !.age = Older(@, Delay)] : b \in ballot}
  /\ draft' = {[d EXCEPT !.age = Older(@, DraftExpiry + 1)] : d \in draft}
  /\ UNCHANGED <<owner, members, policy>>

Next ==
  \/ \E m \in Elector :
       \/ Join(m) \/ Leave(m) \/ VoteYes(m) \/ VoteNo(m) \/ Support(m)
       \/ \E candidate \in Owner : OpenBallot(m, candidate)
  \/ \E p \in Policies : Tighten(p) \/ Propose(p)
  \/ Elect \/ Enact \/ Withdraw \/ Tick

Spec == Init /\ [][Next]_vars
=================================================================================
