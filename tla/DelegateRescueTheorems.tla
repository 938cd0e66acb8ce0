-------------------------- MODULE DelegateRescueTheorems --------------------------
(***************************************************************************)
(* What holds of DelegateRescue for every set of addresses and every       *)
(* timelock.  The invariant says what a bit of a bitmap means: the first   *)
(* slot of a guardian, one that called for this rescue.                    *)
(***************************************************************************)
EXTENDS DelegateRescue, TLAPS

\* Bits are first slots of guardians; approval bits, of supporters.
Votes(bits) ==
  \A i \in bits : /\ guardians[i] \in Address
                  /\ \A j \in Slot : j < i => guardians[j] # guardians[i]

VotesMeanGuardians ==
  /\ Votes(rescueApprovals) /\ Votes(rescueCancellations)
  /\ \A i \in rescueApprovals : guardians[i] \in supporters
  /\ rescueApproved => Quorum(rescueApprovals)

\* Before a delegate is initialised nothing is pending; no third guardian is ever set.
Shape ==
  /\ ~initialized => ~Pending
  /\ ~Pending => rescueApprovals = {} /\ rescueCancellations = {} /\ ~rescueApproved
  /\ guardians[2] = NoAddress

IInv == TypeOK /\ Shape /\ VotesMeanGuardians

USE DEF Slot

\* The invariant holds of an account that has just delegated.
LEMMA InitImpliesIInv == Init => IInv
<1> SUFFICES ASSUME Init PROVE IInv OBVIOUS
<1>1. 0 \in 0 .. RESCUE_TIMELOCK BY TimelockIsNatural
<1>2. TypeOK BY <1>1 DEF Init, TypeOK
<1>3. Shape BY DEF Init, Shape, Pending
<1>4. VotesMeanGuardians BY DEF Init, VotesMeanGuardians, Votes
<1> QED BY <1>2, <1>3, <1>4 DEF IInv

\* Clearing the rescue keeps the invariant.
LEMMA NoRescueKeepsIInv ==
  ASSUME IInv, NoRescue, UNCHANGED <<initialized, guardians>>,
         funds' \in BOOLEAN, rescued' \in BOOLEAN, supporters' = {}
  PROVE  IInv'
<1>1. 0 \in 0 .. RESCUE_TIMELOCK BY TimelockIsNatural
<1>2. TypeOK' BY <1>1 DEF IInv, TypeOK, NoRescue
<1>3. Shape' BY DEF IInv, Shape, Pending, NoRescue
<1>4. VotesMeanGuardians' BY DEF VotesMeanGuardians, Votes, NoRescue
<1> QED BY <1>2, <1>3, <1>4 DEF IInv

\* A slot that GuardianIndex returns is the first slot of the caller.
LEMMA GuardianIndexIsFirst ==
  ASSUME IInv, NEW who \in Address, NEW i \in GuardianIndex(who)
  PROVE  /\ i \in Slot /\ guardians[i] = who
         /\ \A j \in Slot : j < i => guardians[j] # guardians[i]
  BY DEF GuardianIndex

\* Every step keeps the invariant.
LEMMA NextKeepsIInv == IInv /\ [Next]_vars => IInv'
<1> SUFFICES ASSUME IInv, [Next]_vars PROVE IInv' OBVIOUS
<1>1. ASSUME NEW g \in Address, NEW h \in Address, Initialize(g, h) PROVE IInv'
  <2>1. TypeOK'
    BY <1>1 DEF Initialize, rescueState, IInv, TypeOK
  <2>2. Shape'
    BY <1>1 DEF Initialize, rescueState, IInv, Shape, Pending
  <2>3. rescueApprovals = {} /\ rescueCancellations = {} /\ ~rescueApproved
    BY <1>1 DEF Initialize, IInv, Shape
  <2>4. VotesMeanGuardians'
    BY <1>1, <2>3 DEF Initialize, rescueState, VotesMeanGuardians, Votes
  <2> QED BY <2>1, <2>2, <2>4 DEF IInv
<1>2. ASSUME NEW sender \in Address, NEW to \in Address, InitiateRescue(sender, to) PROVE IInv'
  <2>1. PICK i \in GuardianIndex(sender) : rescueApprovals' = {i}
    BY <1>2 DEF InitiateRescue
  <2>2. /\ i \in Slot /\ guardians[i] = sender
        /\ \A j \in Slot : j < i => guardians[j] # guardians[i]
    BY <2>1, GuardianIndexIsFirst
  <2>3. TypeOK'
    <3>1. 0 \in 0 .. RESCUE_TIMELOCK BY TimelockIsNatural
    <3> QED BY <1>2, <2>1, <2>2, <3>1 DEF InitiateRescue, IInv, TypeOK
  <2>4. Shape'
    BY <1>2, AddressIsReal DEF InitiateRescue, IInv, Shape, Pending
  <2>5. VotesMeanGuardians'
    BY <1>2, <2>1, <2>2 DEF InitiateRescue, VotesMeanGuardians, Votes
  <2> QED BY <2>3, <2>4, <2>5 DEF IInv
<1>3. ASSUME NEW sender \in Address, ApproveRescue(sender) PROVE IInv'
  <2>1. PICK i \in GuardianIndex(sender) : rescueApprovals' = rescueApprovals \cup {i}
    BY <1>3 DEF ApproveRescue
  <2>2. /\ i \in Slot /\ guardians[i] = sender
        /\ \A j \in Slot : j < i => guardians[j] # guardians[i]
    BY <2>1, GuardianIndexIsFirst
  <2>3. TypeOK'
    BY <1>3, <2>1, <2>2 DEF ApproveRescue, IInv, TypeOK
  <2>4. Shape'
    BY <1>3 DEF ApproveRescue, IInv, Shape, Pending
  <2>5. VotesMeanGuardians'
    BY <1>3, <2>1, <2>2 DEF ApproveRescue, IInv, VotesMeanGuardians, Votes, Quorum
  <2> QED BY <2>3, <2>4, <2>5 DEF IInv
<1>4. CASE ExecuteRescue
  BY <1>4, NoRescueKeepsIInv DEF ExecuteRescue, IInv, TypeOK
<1>5. ASSUME NEW sender \in Address, CancelRescue(sender) PROVE IInv'
  <2>1. PICK i \in GuardianIndex(sender) \ rescueCancellations :
          LET votes == rescueCancellations \cup {i} IN
          IF Quorum(votes)
          THEN NoRescue /\ supporters' = {}
          ELSE /\ rescueCancellations' = votes
               /\ UNCHANGED <<rescueTo, rescueAge, rescueApprovals, rescueApproved, supporters>>
    BY <1>5 DEF CancelRescue
  <2>2. /\ i \in Slot /\ guardians[i] = sender
        /\ \A j \in Slot : j < i => guardians[j] # guardians[i]
    BY <2>1, GuardianIndexIsFirst
  <2>3. CASE NoRescue /\ supporters' = {}
    BY <1>5, <2>3, NoRescueKeepsIInv DEF CancelRescue, IInv, TypeOK
  <2>4. CASE /\ rescueCancellations' = rescueCancellations \cup {i}
             /\ UNCHANGED <<rescueTo, rescueAge, rescueApprovals, rescueApproved, supporters>>
    <3>1. TypeOK'
      BY <1>5, <2>2, <2>4 DEF CancelRescue, IInv, TypeOK
    <3>2. Shape'
      BY <1>5, <2>4 DEF CancelRescue, IInv, Shape, Pending
    <3>3. VotesMeanGuardians'
      BY <1>5, <2>2, <2>4 DEF CancelRescue, IInv, VotesMeanGuardians, Votes, Quorum
    <3> QED BY <3>1, <3>2, <3>3 DEF IInv
  <2> QED BY <2>1, <2>3, <2>4
<1>6. CASE Balance
  <2>1. TypeOK'
    BY <1>6 DEF Balance, rescueState, IInv, TypeOK
  <2>2. Shape' /\ VotesMeanGuardians'
    BY <1>6 DEF Balance, rescueState, IInv, Shape, VotesMeanGuardians, Votes, Pending, Quorum
  <2> QED BY <2>1, <2>2 DEF IInv
<1>7. CASE Tick
  <2>1. rescueAge' \in 0 .. RESCUE_TIMELOCK
    BY <1>7, TimelockIsNatural DEF Tick, IInv, TypeOK
  <2>2. TypeOK'
    BY <1>7, <2>1 DEF Tick, IInv, TypeOK
  <2>3. Shape' /\ VotesMeanGuardians'
    BY <1>7 DEF Tick, IInv, Shape, VotesMeanGuardians, Votes, Pending, Quorum
  <2> QED BY <2>2, <2>3 DEF IInv
<1>8. CASE UNCHANGED vars
  BY <1>8 DEF vars, rescueState, IInv, TypeOK, Shape, VotesMeanGuardians, Votes, Pending,
              Quorum
<1> QED BY <1>1, <1>2, <1>3, <1>4, <1>5, <1>6, <1>7, <1>8 DEF Next

\* The inductive invariant holds of every behaviour of the delegate.
THEOREM InvariantHolds == Spec => []IInv
  BY InitImpliesIInv, NextKeepsIInv, PTL DEF Spec

\* The delegate's state keeps its types.
THEOREM TypesAreKept == Spec => []TypeOK
<1>1. IInv => TypeOK BY DEF IInv
<1> QED BY <1>1, InvariantHolds, PTL

\* The balance leaves by a rescue only when two different guardians called for its
\* destination and the timelock has passed (executeRescue).
THEOREM OnlyBackedRescues == Spec => RescuesAreBacked
<1> DEFINE Backed == /\ rescueAge >= RESCUE_TIMELOCK
                     /\ \E g, h \in supporters :
                          g # h /\ \E i, j \in Slot : guardians[i] = g /\ guardians[j] = h
<1>1. ASSUME IInv, ExecuteRescue PROVE Backed
  <2>1. PICK i, j \in rescueApprovals : i # j
    BY <1>1 DEF ExecuteRescue, Due, IInv, VotesMeanGuardians, Quorum
  <2>2. i \in Slot /\ j \in Slot /\ (i < j \/ j < i)
    BY <1>1, <2>1 DEF IInv, TypeOK
  <2>3. guardians[i] # guardians[j]
    BY <1>1, <2>1, <2>2 DEF IInv, VotesMeanGuardians, Votes
  <2>4. guardians[i] \in supporters /\ guardians[j] \in supporters
    BY <1>1, <2>1 DEF IInv, VotesMeanGuardians
  <2> QED BY <1>1, <2>2, <2>3, <2>4 DEF ExecuteRescue, Due
<1>2. ASSUME Next, ~ExecuteRescue PROVE rescued' = FALSE
  BY <1>2 DEF Next, Initialize, InitiateRescue, ApproveRescue, CancelRescue, Balance, Tick
<1>3. IInv /\ [Next]_vars => [rescued' => Backed]_vars
  BY <1>1, <1>2
<1> QED BY <1>3, InvariantHolds, PTL DEF Spec, RescuesAreBacked

\* One guardian in both slots rescues nothing, and neither ends nor redirects the rescue
\* it started (initialize does not compare the two guardians).
THEOREM LoneGuardianIsStuckForEver == Spec => LoneGuardianIsStuck
<1> DEFINE Stuck == Pending /\ guardians[0] = guardians[1] => UNCHANGED rescueTo
<1>1. ASSUME IInv, guardians[0] = guardians[1], NEW bits \in SUBSET Slot, Votes(bits)
      PROVE  ~Quorum(bits)
  <2>1. \A i \in bits : i = 0
    BY <1>1, AddressIsReal DEF Votes, IInv, Shape
  <2> QED BY <2>1 DEF Quorum
<1>2. ASSUME IInv, Next PROVE Stuck
  <2> SUFFICES ASSUME Pending, guardians[0] = guardians[1] PROVE UNCHANGED rescueTo OBVIOUS
  <2>1. ~ExecuteRescue
    BY <1>1, <1>2 DEF ExecuteRescue, Due, IInv, TypeOK, VotesMeanGuardians
  <2>2. ASSUME NEW sender \in Address, CancelRescue(sender) PROVE UNCHANGED rescueTo
    <3>1. PICK i \in GuardianIndex(sender) \ rescueCancellations :
            LET votes == rescueCancellations \cup {i} IN
            IF Quorum(votes)
            THEN NoRescue /\ supporters' = {}
            ELSE /\ rescueCancellations' = votes
                 /\ UNCHANGED <<rescueTo, rescueAge, rescueApprovals, rescueApproved, supporters>>
      BY <2>2 DEF CancelRescue
    <3>2. /\ i \in Slot /\ guardians[i] = sender
          /\ \A j \in Slot : j < i => guardians[j] # guardians[i]
      BY <1>2, <3>1, GuardianIndexIsFirst
    <3>3. Votes(rescueCancellations \cup {i}) /\ rescueCancellations \cup {i} \in SUBSET Slot
      BY <1>2, <3>2 DEF IInv, TypeOK, VotesMeanGuardians, Votes
    <3>4. ~Quorum(rescueCancellations \cup {i})
      BY <1>1, <1>2, <3>3
    <3> QED BY <3>1, <3>4
  <2> QED BY <1>2, <2>1, <2>2 DEF Next, Initialize, InitiateRescue, ApproveRescue, Balance,
                                 Tick, rescueState, IInv, Shape
<1>3. IInv /\ [Next]_vars => [Stuck]_vars
  BY <1>2
<1> QED BY <1>3, InvariantHolds, PTL DEF Spec, LoneGuardianIsStuck
\* A vote to cancel either is counted or ends the rescue, as the vote of a second guardian.
LEMMA CancelVotesCount ==
  ASSUME IInv, Pending, NEW sender \in Address, CancelRescue(sender)
  PROVE  \/ /\ UNCHANGED <<rescueTo, rescueAge, rescueApprovals, rescueApproved>>
            /\ rescueCancellations \subseteq rescueCancellations'
         \/ ~Pending' /\ \E i \in Slot, j \in rescueCancellations :
              guardians[i] \in Address /\ guardians[i] # guardians[j]
<1>1. PICK i \in GuardianIndex(sender) \ rescueCancellations :
        LET votes == rescueCancellations \cup {i} IN
        IF Quorum(votes)
        THEN NoRescue /\ supporters' = {}
        ELSE /\ rescueCancellations' = votes
             /\ UNCHANGED <<rescueTo, rescueAge, rescueApprovals, rescueApproved, supporters>>
  BY DEF CancelRescue
<1>2. /\ i \in Slot /\ guardians[i] = sender
      /\ \A j \in Slot : j < i => guardians[j] # guardians[i]
  BY <1>1, GuardianIndexIsFirst
<1>3. CASE Quorum(rescueCancellations \cup {i})
  <2>1. PICK j \in rescueCancellations : i # j
    BY <1>3 DEF Quorum
  <2>2. j \in Slot /\ (i < j \/ j < i)
    BY <1>2, <2>1 DEF IInv, TypeOK
  <2>3. guardians[i] # guardians[j]
    BY <1>2, <2>1, <2>2 DEF IInv, VotesMeanGuardians, Votes
  <2> QED BY <1>1, <1>2, <1>3, <2>1, <2>3 DEF NoRescue, Pending
<1>4. CASE ~Quorum(rescueCancellations \cup {i})
  BY <1>1, <1>4
<1> QED BY <1>3, <1>4

\* A pending rescue keeps its destination, its age and its votes until it is due and
\* executed or two different guardians cancel it; the owner cannot (cancelRescue).
THEOREM PendingRescuesRunOn == Spec => RescuesRunOn
<1> DEFINE Goes == /\ rescueTo' = rescueTo /\ rescueAge' >= rescueAge
                   /\ rescueApprovals \subseteq rescueApprovals'
                   /\ (rescueApproved => rescueApproved')
                   /\ rescueCancellations \subseteq rescueCancellations'
           Executed == ~Pending' /\ rescueApproved /\ rescueAge >= RESCUE_TIMELOCK
           Cancelled == ~Pending' /\ \E i \in Slot, j \in rescueCancellations :
                          guardians[i] \in Address /\ guardians[i] # guardians[j]
<1>1. ASSUME IInv, Pending, Next PROVE Goes \/ Executed \/ Cancelled
  <2>1. rescueAge \in Int BY <1>1 DEF IInv, TypeOK
  <2>2. CASE \/ \E g, h \in Address : Initialize(g, h)
             \/ Balance
    BY <1>1, <2>1, <2>2 DEF Initialize, Balance, rescueState
  <2>3. ASSUME NEW sender \in Address, NEW to \in Address, InitiateRescue(sender, to) PROVE FALSE
    BY <1>1, <2>3 DEF InitiateRescue
  <2>4. ASSUME NEW sender \in Address, ApproveRescue(sender) PROVE Goes
    <3>1. PICK i \in GuardianIndex(sender) \ rescueApprovals :
            rescueApprovals' = rescueApprovals \cup {i}
      BY <2>4 DEF ApproveRescue
    <3>2. rescueApprovals \subseteq rescueApprovals' BY <3>1
    <3>3. rescueApproved => rescueApproved' BY <2>4 DEF ApproveRescue
    <3>4. UNCHANGED <<rescueTo, rescueAge, rescueCancellations>> BY <2>4 DEF ApproveRescue
    <3> QED BY <2>1, <3>2, <3>3, <3>4
  <2>5. ASSUME NEW sender \in Address, CancelRescue(sender) PROVE Goes \/ Cancelled
    BY <1>1, <2>1, <2>5, CancelVotesCount
  <2>6. CASE ExecuteRescue
    BY <2>6 DEF ExecuteRescue, Due, NoRescue, Pending
  <2>7. CASE Tick
    BY <2>1, <2>7 DEF Tick
  <2> QED BY <1>1, <2>2, <2>3, <2>4, <2>5, <2>6, <2>7 DEF Next
<1>2. IInv /\ [Next]_vars => [Pending => Goes \/ Executed \/ Cancelled]_vars
  BY <1>1
<1> QED BY <1>2, InvariantHolds, PTL DEF Spec, RescuesRunOn
===================================================================================
