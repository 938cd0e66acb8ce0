----------------------------- MODULE DelegateRescue -----------------------------
(***************************************************************************)
(* AirAccountDelegate: an EOA that delegates its code to AirAccount        *)
(* (EIP-7702).  The owner is the EOA's key for ever, so guardians cannot   *)
(* replace it: two of them rescue the balance to another address instead,  *)
(* after a timelock, and two of them can cancel the rescue.                *)
(*                                                                         *)
(* The timestamp of the pending rescue is kept as its age, which a Tick    *)
(* makes one older until RESCUE_TIMELOCK; the code compares it with        *)
(* nothing else.  The bitmaps of guardian slots are sets of slots.  Of the *)
(* balance it matters only whether there is any.                           *)
(***************************************************************************)
EXTENDS Integers

CONSTANTS
  Address,          \* guardians and destinations
  NoAddress,        \* address(0)
  Refusing,         \* addresses that do not accept a transfer
  RESCUE_TIMELOCK   \* in ticks

ASSUME AddressIsReal == NoAddress \notin Address /\ Refusing \subseteq Address

ASSUME TimelockIsNatural == RESCUE_TIMELOCK \in Nat

VARIABLES
  initialized,          \* the delegate storage: initialized,
  guardians,            \*   guardians,
  rescueTo,             \*   rescueTo, NoAddress when no rescue is pending,
  rescueAge,            \*   the age of rescueTimestamp,
  rescueApprovals,      \*   rescueApprovals,
  rescueApproved,       \*   rescueApproved,
  rescueCancellations,  \*   rescueCancellations
  funds,                \* address(this).balance > 0
  rescued,              \* history: the balance left by a rescue (in the last step)
  supporters            \* history: who called for the pending rescue

rescueState == <<rescueTo, rescueAge, rescueApprovals, rescueApproved, rescueCancellations>>
vars == <<initialized, guardians, rescueState, funds, rescued, supporters>>

Slot == 0 .. 2
Pending == rescueTo # NoAddress        \* rescueTimestamp # 0: the two are set together

\* RESCUE_THRESHOLD bits of the bitmap are set, and the threshold is two.
Quorum(bits) == \E i, j \in bits : i # j

\* A change a bug could make: whoever holds two slots has two votes.
EverySlotOf(who) == {i \in Slot : guardians[i] = who}

\* The first slot that holds the caller, if one does.
GuardianIndex(who) ==
  {i \in Slot : guardians[i] = who /\ \A j \in Slot : j < i => guardians[j] # who}

NoRescue ==
  /\ rescueTo' = NoAddress /\ rescueAge' = 0
  /\ rescueApprovals' = {} /\ rescueApproved' = FALSE /\ rescueCancellations' = {}

\* Both guardians accept with a signature; nothing says that they are two.
Initialize(guardian1, guardian2) ==
  /\ ~initialized
  /\ initialized' = TRUE
  /\ guardians' = [i \in Slot |-> IF i = 0 THEN guardian1 ELSE IF i = 1 THEN guardian2
                                                               ELSE NoAddress]
  /\ rescued' = FALSE
  /\ UNCHANGED <<rescueState, funds, supporters>>

InitiateRescue(sender, to) ==
  /\ initialized
  /\ ~Pending
  /\ \E i \in GuardianIndex(sender) : rescueApprovals' = {i}
  /\ rescueTo' = to /\ rescueAge' = 0
  /\ rescueApproved' = FALSE /\ rescueCancellations' = {}
  /\ supporters' = {sender}
  /\ rescued' = FALSE
  /\ UNCHANGED <<initialized, guardians, funds>>

ApproveRescue(sender) ==
  /\ initialized
  /\ Pending
  /\ \E i \in GuardianIndex(sender) \ rescueApprovals :
       rescueApprovals' = rescueApprovals \cup {i}
  /\ rescueApproved' = (rescueApproved \/ Quorum(rescueApprovals'))
  /\ supporters' = supporters \cup {sender}
  /\ rescued' = FALSE
  /\ UNCHANGED <<initialized, guardians, rescueTo, rescueAge, rescueCancellations, funds>>

\* A change a bug could make: a single vote to cancel holds the rescue up.
DueUnopposed ==
  /\ initialized /\ Pending /\ rescueApproved /\ rescueAge >= RESCUE_TIMELOCK
  /\ rescueCancellations = {}
  /\ funds => rescueTo \notin Refusing

\* What anybody may execute now.  A destination that refuses the transfer makes the
\* call revert.
Due ==
  /\ initialized
  /\ Pending
  /\ rescueApproved
  /\ rescueAge >= RESCUE_TIMELOCK
  /\ funds => rescueTo \notin Refusing

ExecuteRescue ==
  /\ Due
  /\ NoRescue
  /\ funds' = FALSE
  /\ rescued' = funds
  /\ supporters' = {}
  /\ UNCHANGED <<initialized, guardians>>

\* A guardian may vote to cancel what it has approved.
CancelRescue(sender) ==
  /\ initialized
  /\ Pending
  /\ \E i \in GuardianIndex(sender) \ rescueCancellations :
       LET votes == rescueCancellations \cup {i} IN
       IF Quorum(votes)
       THEN NoRescue /\ supporters' = {}
       ELSE /\ rescueCancellations' = votes
            /\ UNCHANGED <<rescueTo, rescueAge, rescueApprovals, rescueApproved, supporters>>
  /\ rescued' = FALSE
  /\ UNCHANGED <<initialized, guardians, funds>>

\* The owner's operations and calls spend the balance; anybody's transfer refills it.
Balance ==
  /\ \/ initialized /\ funds /\ funds' = FALSE
     \/ ~funds /\ funds' = TRUE
  /\ rescued' = FALSE
  /\ UNCHANGED <<initialized, guardians, rescueState, supporters>>

Tick ==
  /\ Pending /\ rescueAge < RESCUE_TIMELOCK
  /\ rescueAge' = rescueAge + 1
  /\ rescued' = FALSE
  /\ UNCHANGED <<initialized, guardians, rescueTo, rescueApprovals, rescueApproved,
                 rescueCancellations, funds, supporters>>

Init ==
  /\ initialized = FALSE
  /\ guardians = [i \in Slot |-> NoAddress]
  /\ rescueTo = NoAddress /\ rescueAge = 0
  /\ rescueApprovals = {} /\ rescueApproved = FALSE /\ rescueCancellations = {}
  /\ funds \in BOOLEAN
  /\ rescued = FALSE /\ supporters = {}

Next ==
  \/ \E guardian1, guardian2 \in Address : Initialize(guardian1, guardian2)
  \/ \E sender, to \in Address : InitiateRescue(sender, to)
  \/ \E sender \in Address : ApproveRescue(sender) \/ CancelRescue(sender)
  \/ ExecuteRescue
  \/ Balance
  \/ Tick

Spec == Init /\ [][Next]_vars

\* Time passes; and anybody can execute a rescue that is due, so somebody does.
FairSpec == Spec /\ WF_vars(Tick) /\ WF_vars(ExecuteRescue)

(***************************************************************************)
(* Properties *)
(***************************************************************************)
TypeOK ==
  /\ initialized \in BOOLEAN /\ funds \in BOOLEAN
  /\ rescueApproved \in BOOLEAN /\ rescued \in BOOLEAN
  /\ guardians \in [Slot -> Address \cup {NoAddress}]
  /\ rescueTo \in Address \cup {NoAddress}
  /\ rescueAge \in 0 .. RESCUE_TIMELOCK
  /\ rescueApprovals \subseteq Slot /\ rescueCancellations \subseteq Slot
  /\ supporters \subseteq Address

\* The balance leaves by a rescue only when two different guardians called for this
\* destination and the timelock has passed since the first did, whatever was proposed
\* and cancelled before; two slots held by one guardian are not enough
\* (AirAccountDelegate.sol: approveRescue, executeRescue).
RescuesAreBacked ==
  [][rescued' => /\ rescueAge >= RESCUE_TIMELOCK
                 /\ \E g, h \in supporters :
                      g # h /\ \E i, j \in Slot : guardians[i] = g /\ guardians[j] = h]_vars

\* A pending rescue keeps its destination, its age and its votes until it is due and
\* executed, or until the second of two different guardians votes to cancel it;
\* neither one guardian nor the owner ends or redirects it, and what a guardian has
\* approved it approves for good (AirAccountDelegate.sol: cancelRescue).
RescuesRunOn ==
  [][Pending =>
       \/ /\ rescueTo' = rescueTo /\ rescueAge' >= rescueAge
          /\ rescueApprovals \subseteq rescueApprovals' /\ (rescueApproved => rescueApproved')
          /\ rescueCancellations \subseteq rescueCancellations'
       \/ ~Pending' /\ rescueApproved /\ rescueAge >= RESCUE_TIMELOCK
       \/ ~Pending' /\ \E i \in Slot, j \in rescueCancellations :
            guardians[i] \in Address /\ guardians[i] # guardians[j]]_vars

\* A rescue that two guardians approved, to a destination that accepts the balance,
\* comes to an end: one guardian alone does not hold it up, nor does the owner.
ApprovedRescueEnds ==
  (Pending /\ rescueApproved /\ rescueTo \notin Refusing) ~> ~Pending

\* One guardian in both slots never rescues anything, and no rescue that it starts is
\* ever over: it can neither be approved nor cancelled.
LoneGuardianIsStuck ==
  [][Pending /\ guardians[0] = guardians[1] => UNCHANGED rescueTo]_vars
=================================================================================
