-------------------------- MODULE ModuleManagerTheorems --------------------------
(***************************************************************************)
(* What holds of the module manager and the exit module for all addresses, *)
(* keys, modules and timelocks, and any number of operations.  The proofs  *)
(* share what they need of the guardian list: it is a list of distinct     *)
(* guardians, three at most.                                               *)
(***************************************************************************)
EXTENDS ModuleManager, FiniteSetTheorems, TLAPS

Guardian == Address \cup P256Key

\* Slots are packed and hold distinct guardians.
GuardiansAreDistinct ==
  /\ guardian \in Seq(Guardian)
  /\ Len(guardian) <= 3
  /\ \A i, j \in Occupied : guardian[i] = guardian[j] => i = j

(***************************************************************************)
(* Two signatures are signatures of two guardians.                         *)
(***************************************************************************)
\* A finite set of two elements or more has two different ones.
LEMMA TwoOrMore ==
  ASSUME NEW S, IsFiniteSet(S), Cardinality(S) >= 2
  PROVE  Several(S)
<1>1. Cardinality(S) # 0 /\ Cardinality(S) # 1 BY FS_CardinalityType
<1>2. S # {} BY <1>1, FS_EmptySet
<1>3. PICK x : x \in S BY <1>2
<1>4. S # {x} BY <1>1, FS_Singleton
<1>5. PICK y : y \in S /\ y # x BY <1>3, <1>4
<1> QED BY <1>3, <1>5 DEF Several

\* Signatures of two slots or more are signatures of two guardians.
LEMMA SlotsAreGuardians ==
  ASSUME GuardiansAreDistinct, NEW slots \in SUBSET Occupied, Cardinality(slots) >= 2
  PROVE  Several({guardian[i] : i \in slots})
<1>1. Len(guardian) \in Nat BY DEF GuardiansAreDistinct
<1>2. IsFiniteSet(Occupied) BY <1>1, FS_Interval DEF Occupied
<1>3. IsFiniteSet(slots) BY <1>2, FS_Subset
<1>4. Several(slots) BY <1>3, TwoOrMore
<1> QED BY <1>4 DEF Several, GuardiansAreDistinct

\* What an uninstallation or a lower timelock asks for.
LEMMA SignatureCounts ==
  ASSUME GuardiansAreDistinct
  PROVE  /\ AvailableSigs \in 0 .. 2 /\ DefaultInstallSigs = 1 /\ SigsToInstall \in 1 .. 2
         /\ Len(guardian) >= 2 => AvailableSigs = 2
<1>1. Len(guardian) \in Nat BY DEF GuardiansAreDistinct
<1>2. AvailableSigs \in 0 .. 2 /\ (Len(guardian) >= 2 => AvailableSigs = 2)
  <2>1. CASE Len(guardian) < 2
    <3>1. AvailableSigs = Len(guardian) BY <2>1 DEF AvailableSigs
    <3> QED BY <1>1, <2>1, <3>1
  <2>2. CASE ~(Len(guardian) < 2)
    <3>1. AvailableSigs = 2 BY <2>2 DEF AvailableSigs
    <3> QED BY <3>1
  <2> QED BY <2>1, <2>2
<1>3. DefaultInstallSigs = 1 /\ SigsToInstall \in 1 .. 2
  BY DEF DefaultInstallSigs, SigsToInstall, MODULE_INSTALL_BYPASS_SIGS
<1> QED BY <1>2, <1>3

(***************************************************************************)
(* The guardian list.                                                      *)
(***************************************************************************)
\* An account starts with distinct guardians.
LEMMA InitDistinct == Init => GuardiansAreDistinct
<1> SUFFICES ASSUME Init PROVE GuardiansAreDistinct OBVIOUS
<1>1. PICK n \in 0 .. 3 : guardian \in [1 .. n -> (Address \ {owner}) \cup P256Key] BY DEF Init
<1>2. guardian \in Seq(Guardian) /\ Len(guardian) = n BY <1>1 DEF Guardian
<1> QED BY <1>2 DEF Init, GuardiansAreDistinct

\* Additions and removals keep the guardians distinct.
LEMMA AddKeepsDistinct ==
  ASSUME GuardiansAreDistinct, NEW g \in Guardian, AddGuardian(g)
  PROVE  GuardiansAreDistinct'
<1>1. /\ guardian' = Append(guardian, g) /\ Len(guardian) < 3
      /\ \A i \in Occupied : guardian[i] # g
  BY DEF AddGuardian, IsGuardian
<1>2. guardian' \in Seq(Guardian) /\ Len(guardian') = Len(guardian) + 1
  BY <1>1 DEF GuardiansAreDistinct
<1>3. \A i \in Occupied' : guardian'[i] = IF i \in Occupied THEN guardian[i] ELSE g
  BY <1>1, <1>2 DEF GuardiansAreDistinct, Occupied
<1>4. \A i \in Occupied' : i \notin Occupied => i = Len(guardian) + 1
  BY <1>2 DEF GuardiansAreDistinct, Occupied
<1>5. \A i, j \in Occupied' : guardian'[i] = guardian'[j] => i = j
  BY <1>1, <1>3, <1>4 DEF GuardiansAreDistinct
<1>6. Len(guardian') <= 3 BY <1>1, <1>2 DEF GuardiansAreDistinct
<1> QED BY <1>2, <1>5, <1>6 DEF GuardiansAreDistinct

\* A removal moves the later guardians up and keeps two at least.
LEMMA RemoveKeepsDistinct ==
  ASSUME GuardiansAreDistinct, NEW slot \in Occupied, RemoveGuardian(slot)
  PROVE  GuardiansAreDistinct' /\ Len(guardian') >= 2
<1> DEFINE from(i) == IF i < slot THEN i ELSE i + 1
<1>1. /\ guardian' = [i \in 1 .. Len(guardian) - 1 |-> guardian[from(i)]]
      /\ Len(guardian) > 2
  BY DEF RemoveGuardian
<1>2. Len(guardian) \in Nat /\ Len(guardian) - 1 \in Nat BY <1>1 DEF GuardiansAreDistinct
<1>3. \A i \in 1 .. Len(guardian) - 1 : from(i) \in Occupied
  BY <1>2 DEF Occupied
<1>4. \A i \in 1 .. Len(guardian) - 1 : guardian[from(i)] \in Guardian
  BY <1>3 DEF GuardiansAreDistinct, Occupied
<1> HIDE DEF from
<1>5. guardian' \in Seq(Guardian) /\ Len(guardian') = Len(guardian) - 1
  BY <1>1, <1>2, <1>4
<1>6. \A i, j \in 1 .. Len(guardian) - 1 : from(i) = from(j) => i = j
  BY <1>2 DEF from, Occupied
<1>7. \A i, j \in Occupied' : guardian'[i] = guardian'[j] => i = j
  BY <1>1, <1>3, <1>5, <1>6 DEF GuardiansAreDistinct, Occupied
<1>8. Len(guardian') <= 3 /\ Len(guardian') >= 2
  BY <1>1, <1>2, <1>5 DEF GuardiansAreDistinct
<1> QED BY <1>5, <1>7, <1>8 DEF GuardiansAreDistinct

\* Guardians stay distinct, and once there are two, there always are.
LEMMA NextKeepsDistinct ==
  ASSUME GuardiansAreDistinct, [Next]_vars
  PROVE  GuardiansAreDistinct' /\ (Len(guardian) >= 2 => Len(guardian') >= 2)
<1>1. CASE UNCHANGED guardian BY <1>1 DEF GuardiansAreDistinct, Occupied
<1>2. ASSUME NEW g \in Guardian, AddGuardian(g)
      PROVE  GuardiansAreDistinct' /\ (Len(guardian) >= 2 => Len(guardian') >= 2)
  <2>1. Len(guardian') = Len(guardian) + 1 BY <1>2 DEF AddGuardian, GuardiansAreDistinct
  <2> QED BY <1>2, <2>1, AddKeepsDistinct DEF GuardiansAreDistinct
<1>3. ASSUME NEW slot \in Occupied, RemoveGuardian(slot)
      PROVE  GuardiansAreDistinct' /\ Len(guardian') >= 2
  BY <1>3, RemoveKeepsDistinct
<1>4. ASSUME Next PROVE \/ UNCHANGED guardian
                        \/ \E g \in Guardian : AddGuardian(g)
                        \/ \E slot \in Occupied : RemoveGuardian(slot)
  BY <1>4 DEF Next, AccountStep, ManagementStep, InstallModule, ProposeModuleInstall,
       UninstallModule, LowerTimelock, RaiseTimelock, ExecuteModuleInstall, CancelModuleInstall,
       ExecuteRecovery, Tick, ExitStep, ProposeForceExit, ApproveForceExit,
       ExecuteForceExit, CancelForceExit, Guardian
<1> QED BY <1>1, <1>2, <1>3, <1>4 DEF vars

(***************************************************************************)
(* No signature counts twice.                                              *)
(***************************************************************************)
\* A message that guardians sign under a nonce.
MessageOf(nonce, message) ==
  \/ \E install, data : message = <<"INSTALL_MODULE", install, data, nonce>>
  \/ \E install : message = <<"UNINSTALL_MODULE", install, nonce>>
  \/ \E newTimelock : message = <<"SET_MODULE_TIMELOCK", newTimelock, nonce>>

\* The last message accepted was signed under a nonce that is gone.
LastNonceIsGone ==
  /\ managementNonce \in Nat
  /\ lastMessage # NoModule =>
       \E nonce \in Nat : nonce < managementNonce /\ MessageOf(nonce, lastMessage)

\* Messages under different nonces differ, and none is empty.
LEMMA NoncesTellApart ==
  ASSUME NEW m \in Nat, NEW n \in Nat, NEW p, NEW q, m # n, MessageOf(m, p), MessageOf(n, q)
  PROVE  p # q /\ p # NoModule
  BY DEF MessageOf, NoModule

\* What guardians sign for: nothing, or a message that is now the last.
LEMMA SigningIsRecorded ==
  ASSUME NEW n, NEW message, GuardiansSign(n, message)
  PROVE  UNCHANGED <<accepted, lastMessage>> \/ lastMessage' = message
  BY DEF GuardiansSign, signatures

\* A step accepts nothing, or a message under a nonce that it uses up.
LEMMA StepsUseUpNonces ==
  ASSUME [Next]_vars
  PROVE  \/ UNCHANGED <<accepted, lastMessage, managementNonce>>
         \/ /\ managementNonce' = managementNonce + 1
            /\ \/ UNCHANGED <<accepted, lastMessage>>
               \/ MessageOf(managementNonce, lastMessage')
<1>1. ASSUME NEW install \in Installable, NEW data \in InitData(install),
             InstallModule(install, data) \/ ProposeModuleInstall(install, data)
      PROVE  /\ managementNonce' = managementNonce + 1
             /\ \/ UNCHANGED <<accepted, lastMessage>>
                \/ MessageOf(managementNonce, lastMessage')
  <2>1. /\ NextNonce
        /\ \E n : GuardiansSign(n, InstallMessage(install, data))
    BY <1>1 DEF InstallModule, ProposeModuleInstall
  <2>2. \/ UNCHANGED <<accepted, lastMessage>>
        \/ lastMessage' = InstallMessage(install, data)
    BY <2>1, SigningIsRecorded
  <2> QED BY <2>1, <2>2 DEF NextNonce, InstallMessage, MessageOf
<1>2. ASSUME NEW install \in Installable, UninstallModule(install)
      PROVE  /\ managementNonce' = managementNonce + 1
             /\ \/ UNCHANGED <<accepted, lastMessage>>
                \/ MessageOf(managementNonce, lastMessage')
  <2>1. NextNonce /\ GuardiansSign(AvailableSigs, <<"UNINSTALL_MODULE", install, managementNonce>>)
    BY <1>2 DEF UninstallModule
  <2>2. \/ UNCHANGED <<accepted, lastMessage>>
        \/ lastMessage' = <<"UNINSTALL_MODULE", install, managementNonce>>
    BY <2>1, SigningIsRecorded
  <2> QED BY <2>1, <2>2 DEF NextNonce, MessageOf
<1>3. ASSUME NEW newTimelock \in Timelocks, LowerTimelock(newTimelock)
      PROVE  /\ managementNonce' = managementNonce + 1
             /\ \/ UNCHANGED <<accepted, lastMessage>>
                \/ MessageOf(managementNonce, lastMessage')
  <2>1. /\ NextNonce
        /\ GuardiansSign(AvailableSigs, <<"SET_MODULE_TIMELOCK", newTimelock, managementNonce>>)
    BY <1>3 DEF LowerTimelock
  <2>2. \/ UNCHANGED <<accepted, lastMessage>>
        \/ lastMessage' = <<"SET_MODULE_TIMELOCK", newTimelock, managementNonce>>
    BY <2>1, SigningIsRecorded
  <2> QED BY <2>1, <2>2 DEF NextNonce, MessageOf
<1>4. ASSUME AccountStep, ~ManagementStep
      PROVE  UNCHANGED <<accepted, lastMessage, managementNonce>>
  BY <1>4 DEF AccountStep, RaiseTimelock, ExecuteModuleInstall, CancelModuleInstall,
       ExecuteRecovery, AddGuardian, RemoveGuardian, Change, Tick, signatures, managerVars
<1>5. ASSUME Next, ~AccountStep
      PROVE  UNCHANGED <<accepted, lastMessage, managementNonce>>
  BY <1>5 DEF Next, signatures, managerVars
<1> QED BY <1>1, <1>2, <1>3, <1>4, <1>5 DEF Next, ManagementStep, vars, signatures, managerVars

\* The nonce of the last message stays behind.
LEMMA LastNonceStaysGone ==
  ASSUME LastNonceIsGone, [Next]_vars
  PROVE  LastNonceIsGone' /\ (accepted' # accepted => lastMessage' # lastMessage)
<1>1. CASE UNCHANGED <<accepted, lastMessage, managementNonce>>
  BY <1>1 DEF LastNonceIsGone
<1>2. CASE managementNonce' = managementNonce + 1 /\ UNCHANGED <<accepted, lastMessage>>
  BY <1>2 DEF LastNonceIsGone
<1>3. CASE managementNonce' = managementNonce + 1 /\ MessageOf(managementNonce, lastMessage')
  <2>1. LastNonceIsGone' BY <1>3 DEF LastNonceIsGone
  <2>2. CASE lastMessage = NoModule
    <3>1. managementNonce \in Nat /\ managementNonce + 1 # managementNonce BY DEF LastNonceIsGone
    <3> QED BY <1>3, <2>1, <2>2, <3>1 DEF MessageOf, NoModule
  <2>3. CASE lastMessage # NoModule
    <3>1. PICK nonce \in Nat : nonce < managementNonce /\ MessageOf(nonce, lastMessage)
      BY <2>3 DEF LastNonceIsGone
    <3>2. managementNonce \in Nat /\ nonce # managementNonce BY <3>1 DEF LastNonceIsGone
    <3> QED BY <1>3, <2>1, <3>1, <3>2, NoncesTellApart
  <2> QED BY <2>2, <2>3
<1> QED BY <1>1, <1>2, <1>3, StepsUseUpNonces

\* SignaturesAreSpent, for any number of operations: two acceptances of guardian
\* signatures in a row are of different messages (AirAccountExtension.sol, issue #75).
THEOREM NoSignatureCountsTwice == Spec => SignaturesAreSpent
<1>1. Init => LastNonceIsGone BY DEF Init, LastNonceIsGone
<1>2. LastNonceIsGone /\ [Next]_vars => LastNonceIsGone' BY LastNonceStaysGone
<1>3. LastNonceIsGone /\ [Next]_vars => [accepted' # accepted => lastMessage' # lastMessage]_vars
  BY LastNonceStaysGone
<1> QED BY <1>1, <1>2, <1>3, PTL DEF Spec, SignaturesAreSpent

(***************************************************************************)
(* A lone guardian gives notice.                                           *)
(***************************************************************************)
\* _moduleAuthHash of an owner and a list of guardians.
AuthHash(own, list) ==
  [owner |-> own,
   guardians |-> [i \in Slot |-> IF i >= Len(list) THEN NoAddress
                                 ELSE IF list[i + 1] \in P256Key THEN Sentinel
                                 ELSE list[i + 1]],
   count |-> Len(list),
   keys |-> [i \in Slot |-> IF i < Len(list) /\ list[i + 1] \in P256Key
                            THEN list[i + 1] ELSE NoAddress]]

\* Whoever signed for modules since a timelock began to protect two guardians: without
\* a timelock, two of them took it away.
ProtectionStands ==
  /\ moduleInstallTimelock \in Nat
  /\ assent \subseteq Guardian
  /\ guarded => Len(guardian) >= 2
  /\ guarded /\ moduleInstallTimelock = 0 => Several(assent)

\* The pending proposal is the one that was announced.
ProposalWasAnnounced ==
  pendingModuleInstall # NoModule =>
    /\ announced # NoModule
    /\ announced.install = pendingModuleInstall.install
    /\ pendingModuleInstall.executeAfter = announced.at + announced.notice
    /\ pendingModuleInstall.authHash = AuthHash(announced.owner, announced.guardian)
    /\ announced.guardian \in Seq(Guardian) /\ Len(announced.guardian) <= 3

NoticeInv == GuardiansAreDistinct /\ ProtectionStands /\ ProposalWasAnnounced

\* Equal hashes are of one owner and of one list of guardians, P-256 keys included.
LEMMA HashTellsApart ==
  ASSUME NEW o, NEW p, NEW g \in Seq(Guardian), NEW h \in Seq(Guardian),
         Len(g) <= 3, AuthHash(o, g) = AuthHash(p, h)
  PROVE  o = p /\ g = h
<1>1. o = p /\ Len(g) = Len(h) BY DEF AuthHash
<1>2. Len(g) \in Nat OBVIOUS
<1>3. ASSUME NEW i \in 1 .. Len(g) PROVE g[i] = h[i]
  <2> DEFINE s == i - 1
  <2>1. s \in Slot /\ s < Len(g) /\ s + 1 = i BY <1>2 DEF Slot
  <2>2. AuthHash(o, g).guardians[s] = IF g[i] \in P256Key THEN Sentinel ELSE g[i]
    BY <1>2, <2>1 DEF AuthHash
  <2>3. AuthHash(p, h).guardians[s] = IF h[i] \in P256Key THEN Sentinel ELSE h[i]
    BY <1>1, <1>2, <2>1 DEF AuthHash
  <2>4. g[i] \in P256Key => AuthHash(o, g).keys[s] = g[i] BY <2>1 DEF AuthHash
  <2>5. h[i] \in P256Key => AuthHash(p, h).keys[s] = h[i] BY <1>1, <2>1 DEF AuthHash
  <2>6. g[i] \in Guardian /\ h[i] \in Guardian BY <1>1
  <2> HIDE DEF s
  <2> QED BY <2>2, <2>3, <2>4, <2>5, <2>6, DistinctAddresses DEF Guardian
<1> QED BY <1>1, <1>3

\* It is the hash that the account computes.
LEMMA AuthHashOfAccount == ModuleAuthHash = AuthHash(owner, guardian)
  BY DEF ModuleAuthHash, AuthHash, Guardians

\* Signing never loses assent, and the signatures of two slots are those of two guardians.
LEMMA SigningKeepsAssent ==
  ASSUME GuardiansAreDistinct, assent \subseteq Guardian,
         NEW n \in 0 .. 2, NEW message, GuardiansSign(n, message)
  PROVE  /\ guarded' = guarded
         /\ assent' \subseteq Guardian
         /\ guarded /\ (n = 2 \/ Several(assent)) => Several(assent')
<1>1. CASE n = 0 BY <1>1 DEF GuardiansSign, signatures
<1>2. CASE n # 0
  <2>1. PICK slots \in SUBSET Occupied :
          /\ Cardinality(slots) = n
          /\ guarded' = guarded
          /\ assent' = IF guarded THEN AtMostTwo(assent \cup {guardian[i] : i \in slots}) ELSE {}
    BY <1>2 DEF GuardiansSign
  <2> DEFINE signers == {guardian[i] : i \in slots}
  <2>2. signers \subseteq Guardian
    <3>1. ASSUME NEW i \in slots PROVE guardian[i] \in Guardian
      BY DEF GuardiansAreDistinct, Occupied
    <3> QED BY <3>1
  <2>3. n = 2 => Several(signers) BY <2>1, SlotsAreGuardians
  <2>4. assent' \subseteq Guardian BY <2>1, <2>2 DEF AtMostTwo, Guardian
  <2>5. ASSUME guarded, n = 2 \/ Several(assent) PROVE Several(assent')
    <3>1. Several(assent \cup signers) BY <2>3, <2>5 DEF Several
    <3>2. assent' = Guardian BY <2>1, <2>5, <3>1 DEF AtMostTwo, Guardian
    <3>3. assent \cup signers \subseteq Guardian BY <2>2
    <3> QED BY <3>1, <3>2, <3>3 DEF Several
  <2> QED BY <2>1, <2>4, <2>5
<1> QED BY <1>1, <1>2

\* What a step does to the timelock, to the signers and to whether they matter.
LEMMA ProtectionSteps ==
  ASSUME [Next]_vars
  PROVE  \/ UNCHANGED <<moduleInstallTimelock, guarded, assent>>
         \/ /\ UNCHANGED <<moduleInstallTimelock, guardian>>
            /\ \/ \E message : GuardiansSign(SigsToInstall, message)
               \/ \E message : GuardiansSign(DefaultInstallSigs, message)
               \/ \E message : GuardiansSign(AvailableSigs, message)
         \/ \E newTimelock \in Timelocks : LowerTimelock(newTimelock)
         \/ \E newTimelock \in Timelocks : RaiseTimelock(newTimelock)
         \/ \E g \in Guardian : AddGuardian(g)
<1>1. CASE UNCHANGED vars BY <1>1 DEF vars, signatures, managerVars
<1>2. ASSUME ManagementStep, ~\E newTimelock \in Timelocks : LowerTimelock(newTimelock)
      PROVE  /\ UNCHANGED <<moduleInstallTimelock, guardian>>
             /\ \/ \E message : GuardiansSign(SigsToInstall, message)
                \/ \E message : GuardiansSign(DefaultInstallSigs, message)
                \/ \E message : GuardiansSign(AvailableSigs, message)
  BY <1>2 DEF ManagementStep, InstallModule, ProposeModuleInstall, UninstallModule,
       MarkInstalled
<1>3. ASSUME AccountStep, ~ManagementStep,
             ~\E newTimelock \in Timelocks : RaiseTimelock(newTimelock),
             ~\E g \in Guardian : AddGuardian(g)
      PROVE  UNCHANGED <<moduleInstallTimelock, guarded, assent>>
  BY <1>3 DEF AccountStep, ExecuteModuleInstall, CancelModuleInstall, ExecuteRecovery,
       RemoveGuardian, Change, Tick, signatures, managerVars, Guardian
<1>4. ASSUME Next, ~AccountStep
      PROVE  UNCHANGED <<moduleInstallTimelock, guarded, assent>>
  BY <1>4 DEF Next, signatures, managerVars
<1> QED BY <1>1, <1>2, <1>3, <1>4 DEF Next, AccountStep

\* Without a timelock over two guardians, two of them have agreed to that.
LEMMA ProtectionLasts ==
  ASSUME GuardiansAreDistinct, ProtectionStands, [Next]_vars
  PROVE  ProtectionStands'
<1>1. /\ moduleInstallTimelock \in Nat /\ assent \subseteq Guardian
      /\ guarded => Len(guardian) >= 2
      /\ guarded /\ moduleInstallTimelock = 0 => Several(assent)
  BY DEF ProtectionStands
<1>2. Len(guardian) >= 2 => Len(guardian') >= 2 BY NextKeepsDistinct
<1>3. Len(guardian) \in Nat BY DEF GuardiansAreDistinct
<1>4. /\ AvailableSigs \in 0 .. 2 /\ DefaultInstallSigs \in 0 .. 2 /\ SigsToInstall \in 0 .. 2
      /\ Len(guardian) >= 2 => AvailableSigs = 2
  BY SignatureCounts
<1>5. CASE UNCHANGED <<moduleInstallTimelock, guarded, assent>>
  BY <1>1, <1>2, <1>5 DEF ProtectionStands
<1>6. ASSUME NEW n \in 0 .. 2, NEW message, GuardiansSign(n, message),
             UNCHANGED <<moduleInstallTimelock, guardian>>
      PROVE  ProtectionStands'
  <2>1. /\ guarded' = guarded /\ assent' \subseteq Guardian
        /\ guarded /\ (n = 2 \/ Several(assent)) => Several(assent')
    BY <1>1, <1>6, SigningKeepsAssent
  <2> QED BY <1>1, <1>6, <2>1 DEF ProtectionStands
<1>7. ASSUME NEW newTimelock \in Timelocks, LowerTimelock(newTimelock) PROVE ProtectionStands'
  <2>1. /\ moduleInstallTimelock' = newTimelock /\ newTimelock \in Nat
        /\ \E message : GuardiansSign(AvailableSigs, message)
    BY <1>7, TimesAreNatural DEF LowerTimelock
  <2>2. PICK message : GuardiansSign(AvailableSigs, message) BY <2>1
  <2>3. /\ guarded' = guarded /\ assent' \subseteq Guardian
        /\ guarded /\ (AvailableSigs = 2 \/ Several(assent)) => Several(assent')
    BY <1>1, <1>4, <2>2, SigningKeepsAssent
  <2> QED BY <1>1, <1>2, <1>4, <2>1, <2>3 DEF ProtectionStands
<1>8. ASSUME NEW newTimelock \in Timelocks, RaiseTimelock(newTimelock) PROVE ProtectionStands'
  <2>1. /\ moduleInstallTimelock' = newTimelock /\ newTimelock \in Nat
        /\ newTimelock >= moduleInstallTimelock /\ guardian' = guardian
        /\ guarded' = (guarded \/ (newTimelock > 0 /\ Len(guardian) >= 2))
        /\ assent' = IF moduleInstallTimelock = 0 /\ newTimelock > 0 THEN {} ELSE assent
    BY <1>8, TimesAreNatural DEF RaiseTimelock
  <2>2. guarded' => guarded \/ (newTimelock > 0 /\ Len(guardian) >= 2) BY <2>1, Zenon
  <2>3. guarded' => Len(guardian') >= 2 BY <1>1, <2>1, <2>2
  <2>4. assent' \subseteq Guardian BY <1>1, <2>1
  <2>5. guarded' /\ newTimelock = 0 => Several(assent')
    <3>1. CASE newTimelock = 0
      <4>1. moduleInstallTimelock = 0 BY <1>1, <2>1, <3>1
      <4>2. assent' = assent /\ (guarded' => guarded) BY <2>1, <2>2, <3>1
      <4> QED BY <1>1, <4>1, <4>2
    <3> QED BY <3>1
  <2> QED BY <2>1, <2>3, <2>4, <2>5 DEF ProtectionStands
<1>9. ASSUME NEW g \in Guardian, AddGuardian(g) PROVE ProtectionStands'
  <2>1. /\ Len(guardian') = Len(guardian) + 1
        /\ guarded' = (guarded \/ (moduleInstallTimelock > 0 /\ Len(guardian) >= 1))
        /\ assent' = assent /\ moduleInstallTimelock' = moduleInstallTimelock
    BY <1>9 DEF AddGuardian, Change, managerVars, GuardiansAreDistinct
  <2>2. guarded' => guarded \/ (moduleInstallTimelock > 0 /\ Len(guardian) >= 1) BY <2>1, Zenon
  <2>3. guarded' => Len(guardian') >= 2 BY <1>1, <1>3, <2>1, <2>2
  <2>4. guarded' /\ moduleInstallTimelock = 0 => guarded BY <2>2
  <2> QED BY <1>1, <2>1, <2>3, <2>4 DEF ProtectionStands
<1> QED BY <1>4, <1>5, <1>6, <1>7, <1>8, <1>9, ProtectionSteps

\* The pending proposal is the one last announced, as it was announced.
LEMMA AnnouncementLasts ==
  ASSUME GuardiansAreDistinct, ProposalWasAnnounced, [Next]_vars
  PROVE  ProposalWasAnnounced'
<1>1. CASE UNCHANGED <<pendingModuleInstall, announced>> BY <1>1 DEF ProposalWasAnnounced
<1>2. CASE pendingModuleInstall' = NoModule BY <1>2 DEF ProposalWasAnnounced
<1>3. ASSUME NEW install \in Installable, NEW data \in InitData(install),
             ProposeModuleInstall(install, data)
      PROVE  ProposalWasAnnounced'
  <2>1. /\ announced' = [at |-> now, notice |-> moduleInstallTimelock, install |-> install,
                         owner |-> owner, guardian |-> guardian]
        /\ pendingModuleInstall' = [install |-> install, data |-> data,
                                    executeAfter |-> now + moduleInstallTimelock,
                                    authHash |-> ModuleAuthHash]
    BY <1>3 DEF ProposeModuleInstall
  <2>2. announced' # NoModule
    <3>1. announced'.at = now /\ "at" \in DOMAIN announced' BY <2>1
    <3>2. DOMAIN NoModule = {} BY DEF NoModule
    <3> QED BY <3>1, <3>2
  <2>3. /\ announced'.install = pendingModuleInstall'.install
        /\ pendingModuleInstall'.executeAfter = announced'.at + announced'.notice
    BY <2>1
  <2>4. pendingModuleInstall'.authHash = AuthHash(announced'.owner, announced'.guardian)
    <3>1. announced'.owner = owner /\ announced'.guardian = guardian BY <2>1
    <3>2. pendingModuleInstall'.authHash = AuthHash(owner, guardian) BY <2>1, AuthHashOfAccount
    <3> QED BY <3>1, <3>2
  <2>5. announced'.guardian \in Seq(Guardian) /\ Len(announced'.guardian) <= 3
    BY <2>1 DEF GuardiansAreDistinct
  <2> QED BY <2>2, <2>3, <2>4, <2>5 DEF ProposalWasAnnounced
<1>4. ASSUME AccountStep
      PROVE  \/ UNCHANGED <<pendingModuleInstall, announced>>
             \/ pendingModuleInstall' = NoModule
             \/ \E install \in Installable : \E data \in InitData(install) :
                  ProposeModuleInstall(install, data)
  BY <1>4 DEF AccountStep, ManagementStep, InstallModule, UninstallModule, LowerTimelock,
       RaiseTimelock, ExecuteModuleInstall, CancelModuleInstall, ExecuteRecovery,
       AddGuardian, RemoveGuardian, Change, Tick, managerVars
<1>5. ASSUME [Next]_vars, ~AccountStep PROVE UNCHANGED <<pendingModuleInstall, announced>>
  BY <1>5 DEF Next, vars, managerVars
<1> QED BY <1>1, <1>2, <1>3, <1>4, <1>5

\* What is installed with a step is installed on two signatures or as announced.
LEMMA NoticeIsGiven ==
  ASSUME NoticeInv, [Next]_vars,
         NEW install \in installed' \ installed, guarded
  PROVE  \/ Several(assent')
         \/ /\ announced # NoModule /\ announced.install = install
            /\ now >= announced.at + announced.notice
            /\ announced.owner = owner /\ announced.guardian = guardian
<1> USE DEF NoticeInv
<1>1. ASSUME NEW submitted \in Installable, NEW data \in InitData(submitted),
             InstallModule(submitted, data)
      PROVE  Several(assent')
  <2>1. PICK message : GuardiansSign(SigsToInstall, message) BY <1>1 DEF InstallModule
  <2>2. SigsToInstall \in 0 .. 2 /\ (moduleInstallTimelock # 0 => SigsToInstall = 2)
    BY SignatureCounts DEF SigsToInstall, MODULE_INSTALL_BYPASS_SIGS
  <2>3. SigsToInstall = 2 \/ Several(assent) BY <2>2 DEF ProtectionStands
  <2>4. assent \subseteq Guardian BY DEF ProtectionStands
  <2> QED BY <2>1, <2>2, <2>3, <2>4, SigningKeepsAssent
<1>2. ASSUME ExecuteModuleInstall
      PROVE  /\ announced # NoModule /\ announced.install = install
             /\ now >= announced.at + announced.notice
             /\ announced.owner = owner /\ announced.guardian = guardian
  <2>1. /\ pendingModuleInstall # NoModule
        /\ install = pendingModuleInstall.install
        /\ now >= pendingModuleInstall.executeAfter
        /\ pendingModuleInstall.authHash = ModuleAuthHash
    BY <1>2 DEF ExecuteModuleInstall, Executable, MarkInstalled
  <2>2. /\ announced # NoModule /\ announced.install = install
        /\ now >= announced.at + announced.notice
        /\ AuthHash(announced.owner, announced.guardian) = AuthHash(owner, guardian)
        /\ announced.guardian \in Seq(Guardian) /\ Len(announced.guardian) <= 3
    BY <2>1, AuthHashOfAccount DEF ProposalWasAnnounced
  <2>3. guardian \in Seq(Guardian) BY DEF GuardiansAreDistinct
  <2>4. announced.owner = owner /\ announced.guardian = guardian
    BY <2>2, <2>3, HashTellsApart
  <2> QED BY <2>2, <2>4
<1>3. ASSUME AccountStep, ~ExecuteModuleInstall
      PROVE  \E submitted \in Installable : \E data \in InitData(submitted) :
               InstallModule(submitted, data)
  BY <1>3 DEF AccountStep, ManagementStep, ProposeModuleInstall, UninstallModule, LowerTimelock,
       RaiseTimelock, CancelModuleInstall, ExecuteRecovery, AddGuardian, RemoveGuardian,
       Change, Tick, managerVars
<1>4. AccountStep BY DEF Next, vars, managerVars
<1> QED BY <1>1, <1>2, <1>3, <1>4

\* LoneGuardianGivesNotice, for any modules, timelocks and guardians and any number of
\* operations: once a timelock has protected two guardians, the owner with one of them
\* installs only what was announced for that long to the owner and guardians of this
\* moment (AirAccountExtension.sol, installModule and executeModuleInstall).
THEOREM OwnerAloneGivesNotice == Spec => LoneGuardianGivesNotice
<1>1. Init => NoticeInv
  <2> SUFFICES ASSUME Init PROVE NoticeInv OBVIOUS
  <2>1. GuardiansAreDistinct BY InitDistinct
  <2>2. moduleInstallTimelock = 0 /\ assent = {} /\ guarded = FALSE
        /\ pendingModuleInstall = NoModule
    BY DEF Init
  <2> QED BY <2>1, <2>2 DEF NoticeInv, ProtectionStands, ProposalWasAnnounced
<1>2. NoticeInv /\ [Next]_vars => NoticeInv'
  BY NextKeepsDistinct, ProtectionLasts, AnnouncementLasts DEF NoticeInv
<1>3. NoticeInv /\ [Next]_vars =>
        [\A install \in installed' \ installed :
           guarded => \/ Several(assent')
                      \/ /\ announced # NoModule /\ announced.install = install
                         /\ now >= announced.at + announced.notice
                         /\ announced.owner = owner /\ announced.guardian = guardian]_vars
  BY NoticeIsGiven
<1> QED BY <1>1, <1>2, <1>3, PTL DEF Spec, LoneGuardianGivesNotice

(***************************************************************************)
(* Exits are backed.                                                       *)
(***************************************************************************)
\* Every approval of the pending exit is the bit of the first slot of one address, and
\* that address has signed this proposal.
ApprovalsAreSigned ==
  /\ backing = [of |-> backing.of, by |-> backing.by]
  /\ pendingExit # NoExit =>
       /\ pendingExit = [payload |-> pendingExit.payload, proposedAt |-> pendingExit.proposedAt,
                         approvals |-> pendingExit.approvals, guardians |-> pendingExit.guardians]
       /\ pendingExit.approvals # {} => backing.of = ProposalHash(pendingExit)
       /\ \A i \in pendingExit.approvals :
            /\ i \in Slot
            /\ pendingExit.guardians[i] \in Address \cap backing.by
            /\ \A j \in Slot : j < i => pendingExit.guardians[j] # pendingExit.guardians[i]

\* What the account's own steps do to an exit: at most, they drop it.
LEMMA AccountStepsKeepExits ==
  ASSUME AccountStep
  PROVE  /\ pendingExit' \in {pendingExit, NoExit}
         /\ \/ backing' = backing
            \/ backing' = NoBacking /\ pendingExit = NoExit /\ pendingExit' = NoExit
<1>1. CASE ManagementStep
  BY <1>1 DEF ManagementStep, InstallModule, ProposeModuleInstall, UninstallModule, LowerTimelock,
       CallOnInstall, OnInstall, CallOnUninstall, OnUninstall, moduleState
<1>2. CASE ExecuteModuleInstall
  BY <1>2 DEF ExecuteModuleInstall, CallOnInstall, OnInstall, moduleState
<1>3. CASE ~ManagementStep /\ ~ExecuteModuleInstall
  BY <1>3 DEF AccountStep, RaiseTimelock, CancelModuleInstall, ExecuteRecovery, AddGuardian,
       RemoveGuardian, Change, Tick, moduleState
<1> QED BY <1>1, <1>2, <1>3

\* An approval is of a signer of this proposal, and approvals of others are forgotten.
LEMMA ApprovingIsSigning ==
  ASSUME ApprovalsAreSigned, NEW signer \in Address, ApproveForceExit(signer)
  PROVE  ApprovalsAreSigned'
<1>1. pendingExit # NoExit BY DEF ApproveForceExit
<1>2. PICK bit \in GuardianBit(pendingExit.guardians, signer) :
        pendingExit' = [pendingExit EXCEPT !.approvals = @ \cup {bit}]
  BY DEF ApproveForceExit
<1>3. /\ bit \in Slot /\ pendingExit.guardians[bit] = signer
      /\ \A j \in Slot : j < bit => pendingExit.guardians[j] # signer
  BY DEF GuardianBit
<1>4. pendingExit' = [payload |-> pendingExit.payload, proposedAt |-> pendingExit.proposedAt,
                      approvals |-> pendingExit.approvals \cup {bit},
                      guardians |-> pendingExit.guardians]
  BY <1>1, <1>2 DEF ApprovalsAreSigned
<1>5. /\ pendingExit'.payload = pendingExit.payload
      /\ pendingExit'.proposedAt = pendingExit.proposedAt
      /\ pendingExit'.approvals = pendingExit.approvals \cup {bit}
      /\ pendingExit'.guardians = pendingExit.guardians
  BY <1>4
<1>6. ProposalHash(pendingExit') = ProposalHash(pendingExit) BY <1>5 DEF ProposalHash
<1>7. /\ backing' = [of |-> backing'.of, by |-> backing'.by]
      /\ backing'.of = ProposalHash(pendingExit)
      /\ signer \in backing'.by
      /\ pendingExit.approvals # {} => backing.by \subseteq backing'.by
  <2>1. CASE backing.of = ProposalHash(pendingExit)
    <3>1. backing' = [of |-> backing.of, by |-> backing.by \cup {signer}]
      BY <2>1 DEF ApproveForceExit, ApprovalsAreSigned
    <3> QED BY <2>1, <3>1
  <2>2. CASE backing.of # ProposalHash(pendingExit)
    <3>1. backing' = [of |-> ProposalHash(pendingExit), by |-> {signer}]
      BY <2>2 DEF ApproveForceExit
    <3>2. pendingExit.approvals = {} BY <1>1, <2>2 DEF ApprovalsAreSigned
    <3> QED BY <3>1, <3>2
  <2> QED BY <2>1, <2>2
<1>8. ASSUME NEW i \in pendingExit'.approvals
      PROVE  /\ i \in Slot
             /\ pendingExit'.guardians[i] \in Address \cap backing'.by
             /\ \A j \in Slot : j < i => pendingExit'.guardians[j] # pendingExit'.guardians[i]
  <2>1. CASE i = bit BY <1>3, <1>5, <1>7, <2>1
  <2>2. CASE i \in pendingExit.approvals BY <1>1, <1>5, <1>7, <2>2 DEF ApprovalsAreSigned
  <2> QED BY <1>5, <2>1, <2>2
<1> QED BY <1>4, <1>5, <1>6, <1>7, <1>8 DEF ApprovalsAreSigned

\* Every step keeps the approvals signed, or drops the exit.
LEMMA ApprovalsStaySigned ==
  ASSUME ApprovalsAreSigned, [Next]_vars
  PROVE  ApprovalsAreSigned'
<1>1. CASE UNCHANGED <<pendingExit, backing>> BY <1>1 DEF ApprovalsAreSigned, ProposalHash
<1>2. CASE pendingExit' = NoExit /\ backing' \in {backing, NoBacking}
  BY <1>2 DEF ApprovalsAreSigned, NoBacking
<1>3. CASE AccountStep BY <1>1, <1>2, <1>3, AccountStepsKeepExits
<1>4. ASSUME NEW payload \in Payload, ProposeForceExit(payload) PROVE ApprovalsAreSigned'
  <2>1. /\ pendingExit' = [payload |-> payload, proposedAt |-> now, approvals |-> {},
                           guardians |-> Guardians]
        /\ backing' = backing
    BY <1>4 DEF ProposeForceExit
  <2> QED BY <2>1 DEF ApprovalsAreSigned
<1>5. ASSUME NEW signer \in Address, ApproveForceExit(signer) PROVE ApprovalsAreSigned'
  BY <1>5, ApprovingIsSigning
<1>6. CASE ExecuteForceExit(IsExecutor(ExitModule)) BY <1>2, <1>6 DEF ExecuteForceExit
<1>7. CASE CancelForceExit BY <1>2, <1>7 DEF CancelForceExit
<1>8. CASE UNCHANGED vars BY <1>1, <1>8 DEF vars, moduleState
<1> QED BY <1>3, <1>4, <1>5, <1>6, <1>7, <1>8 DEF Next, ExitStep

\* An exit leaves with two live approvals, which are of two guardians of this moment.
LEMMA ExecutionIsBacked ==
  ASSUME GuardiansAreDistinct, ApprovalsAreSigned, ExecuteForceExit(IsExecutor(ExitModule))
  PROVE  /\ IsExecutor(ExitModule)
         /\ backing.of = ProposalHash(pendingExit)
         /\ Several({a \in backing.by : IsGuardian(a)})
<1> DEFINE live == LiveApprovals(pendingExit)
<1>1. IsExecutor(ExitModule) /\ pendingExit # NoExit /\ Cardinality(live) >= 2
  BY DEF ExecuteForceExit, APPROVAL_THRESHOLD
<1>2. live \subseteq pendingExit.approvals /\ live \subseteq Slot
  BY <1>1 DEF LiveApprovals, ApprovalsAreSigned
<1>3. IsFiniteSet(live)
  <2>1. 0 \in Int /\ 2 \in Int OBVIOUS
  <2>2. IsFiniteSet(Slot) BY <2>1, FS_Interval, Zenon DEF Slot
  <2> QED BY <1>2, <2>2, FS_Subset
<1>4. PICK i, j \in live : i # j
  <2>1. Several(live) BY <1>1, <1>3, TwoOrMore
  <2> QED BY <2>1 DEF Several
<1>5. backing.of = ProposalHash(pendingExit) BY <1>1, <1>2, <1>4 DEF ApprovalsAreSigned
<1>6. ASSUME NEW k \in live
      PROVE  pendingExit.guardians[k] \in backing.by /\ IsGuardian(pendingExit.guardians[k])
  <2>1. pendingExit.guardians[k] \in Address /\ pendingExit.guardians[k] \in backing.by
    BY <1>1, <1>2 DEF ApprovalsAreSigned
  <2>2. PICK s \in Slot : Guardians[s] = pendingExit.guardians[k]
    BY DEF LiveApprovals, Present
  <2>3. Len(guardian) \in Nat BY DEF GuardiansAreDistinct
  <2>4. s < Len(guardian) /\ guardian[s + 1] = pendingExit.guardians[k]
    BY <2>1, <2>2, <2>3, DistinctAddresses DEF Guardians, Slot
  <2>5. s + 1 \in Occupied BY <2>3, <2>4 DEF Occupied, Slot
  <2> QED BY <2>1, <2>4, <2>5 DEF IsGuardian
<1>7. pendingExit.guardians[i] # pendingExit.guardians[j]
  <2>1. i < j \/ j < i BY <1>2, <1>4 DEF Slot
  <2> QED BY <1>1, <1>2, <2>1 DEF ApprovalsAreSigned
<1> QED BY <1>1, <1>5, <1>6, <1>7 DEF Several

\* ExitsAreBacked, for any addresses, keys and withdrawals and any number of changes: a
\* withdrawal leaves only when two guardians of this moment have signed the proposal
\* that is executed, and the module is an executor (ForceExitModule.sol, executeForceExit).
THEOREM OnlyBackedExits == Spec => ExitsAreBacked
<1>1. Init => GuardiansAreDistinct /\ ApprovalsAreSigned
  BY InitDistinct DEF Init, ApprovalsAreSigned, NoBacking
<1>2. GuardiansAreDistinct /\ ApprovalsAreSigned /\ [Next]_vars
        => (GuardiansAreDistinct /\ ApprovalsAreSigned)'
  BY NextKeepsDistinct, ApprovalsStaySigned
<1>3. GuardiansAreDistinct /\ ApprovalsAreSigned /\ [Next]_vars =>
        [withdrawn' => /\ IsExecutor(ExitModule)
                       /\ backing.of = ProposalHash(pendingExit)
                       /\ Several({a \in backing.by : IsGuardian(a)})]_vars
  <2> SUFFICES ASSUME GuardiansAreDistinct, ApprovalsAreSigned, Next, withdrawn'
               PROVE  /\ IsExecutor(ExitModule)
                      /\ backing.of = ProposalHash(pendingExit)
                      /\ Several({a \in backing.by : IsGuardian(a)})
    OBVIOUS
  <2>1. ExecuteForceExit(IsExecutor(ExitModule))
    BY DEF Next, ExitStep, ProposeForceExit, ApproveForceExit, CancelForceExit
  <2> QED BY <2>1, ExecutionIsBacked
<1> QED BY <1>1, <1>2, <1>3, PTL DEF Spec, ExitsAreBacked

(***************************************************************************)
(* Types.                                                                  *)
(***************************************************************************)
ExitIsTyped ==
  /\ now \in 1 .. MaxTime
  /\ initialized \in BOOLEAN
  /\ l2Type \in L2Types \cup {Unsupported}
  /\ withdrawn \in BOOLEAN

PendingExitIsTyped ==
  pendingExit # NoExit =>
    /\ pendingExit = [payload |-> pendingExit.payload, proposedAt |-> pendingExit.proposedAt,
                      approvals |-> pendingExit.approvals, guardians |-> pendingExit.guardians]
    /\ pendingExit.payload \in Payload
    /\ pendingExit.proposedAt \in 1 .. now
    /\ pendingExit.approvals \subseteq {i \in Slot : pendingExit.guardians[i] \in Address}
    /\ pendingExit.guardians \in [Slot -> Address \cup {Sentinel, NoAddress}]

OwnerIsNoGuardian == owner \in Address /\ ~IsGuardian(owner)

\* The hook that is dispatched to is installed.
InstalledIsTyped ==
  /\ installed \subseteq Installable
  /\ activeHook = NoModule \/ <<"hook", activeHook>> \in installed
  /\ moduleInstallTimelock \in Timelocks

\* A proposal is executed after it was announced.
ProposalIsTyped ==
  pendingModuleInstall # NoModule =>
    /\ pendingModuleInstall.install \in Installable
    /\ pendingModuleInstall.data \in InitData(pendingModuleInstall.install)
    /\ pendingModuleInstall.executeAfter > announced.at

CountsAreTyped == managementNonce \in 0 .. MaxOperations /\ guarded \in BOOLEAN

TypeInv ==
  /\ GuardiansAreDistinct /\ ProtectionStands
  /\ ExitIsTyped /\ PendingExitIsTyped /\ OwnerIsNoGuardian
  /\ InstalledIsTyped /\ ProposalIsTyped /\ CountsAreTyped

\* A module is told nothing, or the type of its rollup.
LEMMA DataIsTyped ==
  ASSUME ExitIsTyped, NEW install \in Installable, NEW data \in InitData(install),
         CallOnInstall(install, data)
  PROVE  /\ initialized' \in BOOLEAN /\ l2Type' \in L2Types \cup {Unsupported}
         /\ pendingExit' = pendingExit
<1>1. CASE UNCHANGED moduleState BY <1>1 DEF moduleState, ExitIsTyped
<1>2. CASE install[2] = ExitModule /\ OnInstall(data)
  <2>1. data \in L2Types \cup {""} BY <1>2, ExitModuleData
  <2>2. /\ initialized' = TRUE /\ l2Type' = (IF data = "" THEN l2Type ELSE data)
        /\ pendingExit' = pendingExit
    BY <1>2 DEF OnInstall
  <2> QED BY <2>1, <2>2 DEF ExitIsTyped
<1> QED BY <1>1, <1>2 DEF CallOnInstall

\* What the steps do to the state of the exit module: it is told of an installation, it
\* forgets all, or its own handlers change the pending exit.
LEMMA ExitStepKinds ==
  ASSUME ExitIsTyped, ProposalIsTyped, [Next]_vars
  PROVE  /\ now' = now \/ (now < MaxTime /\ now' = now + 1)
         /\ initialized' \in BOOLEAN /\ l2Type' \in L2Types \cup {Unsupported}
         /\ withdrawn' \in BOOLEAN
         /\ \/ pendingExit' \in {pendingExit, NoExit}
            \/ \E payload \in Payload : ProposeForceExit(payload)
            \/ \E signer \in Address : ApproveForceExit(signer)
<1> DEFINE Typed == initialized' \in BOOLEAN /\ l2Type' \in L2Types \cup {Unsupported}
<1>1. CASE UNCHANGED vars BY <1>1 DEF vars, moduleState, ExitIsTyped
<1>2. CASE ExitStep(IsExecutor(ExitModule))
  BY <1>2 DEF ExitStep, ProposeForceExit, ApproveForceExit, ExecuteForceExit, CancelForceExit,
       ExitIsTyped
<1>3. ASSUME NEW install \in Installable, NEW data \in InitData(install),
             InstallModule(install, data) \/ ProposeModuleInstall(install, data)
      PROVE  Typed /\ pendingExit' = pendingExit /\ now' = now
  BY <1>3, DataIsTyped DEF InstallModule, ProposeModuleInstall, moduleState, ExitIsTyped
<1>4. ASSUME NEW install \in Installable, UninstallModule(install)
      PROVE  Typed /\ pendingExit' \in {pendingExit, NoExit} /\ now' = now
  <2>1. now' = now /\ (UNCHANGED moduleState \/ OnUninstall)
    BY <1>4 DEF UninstallModule, CallOnUninstall
  <2> QED BY <2>1 DEF moduleState, OnUninstall, ExitIsTyped
<1>5. ASSUME ExecuteModuleInstall
      PROVE  Typed /\ pendingExit' = pendingExit /\ now' = now
  <2> DEFINE p == pendingModuleInstall
  <2>1. /\ p # NoModule /\ CallOnInstall(p.install, p.data) /\ now' = now
    BY <1>5 DEF ExecuteModuleInstall
  <2>2. p.install \in Installable /\ p.data \in InitData(p.install) BY <2>1 DEF ProposalIsTyped
  <2> HIDE DEF p
  <2> QED BY <2>1, <2>2, DataIsTyped
<1>6. ASSUME NEW t, LowerTimelock(t) \/ RaiseTimelock(t)
      PROVE  Typed /\ pendingExit' = pendingExit /\ now' = now
  BY <1>6 DEF LowerTimelock, RaiseTimelock, moduleState, ExitIsTyped
<1>7. ASSUME CancelModuleInstall \/ ExecuteRecovery
      PROVE  Typed /\ pendingExit' = pendingExit /\ now' = now
  BY <1>7 DEF CancelModuleInstall, ExecuteRecovery, Change, moduleState, ExitIsTyped
<1>8. ASSUME NEW g, AddGuardian(g) \/ RemoveGuardian(g)
      PROVE  Typed /\ pendingExit' = pendingExit /\ now' = now
  BY <1>8 DEF AddGuardian, RemoveGuardian, Change, moduleState, ExitIsTyped
<1>9. ASSUME Tick
      PROVE  Typed /\ pendingExit' = pendingExit /\ now < MaxTime /\ now' = now + 1
  BY <1>9 DEF Tick, moduleState, ExitIsTyped
<1>10. ASSUME AccountStep /\ withdrawn' = FALSE
       PROVE  /\ now' = now \/ (now < MaxTime /\ now' = now + 1)
              /\ Typed /\ withdrawn' \in BOOLEAN /\ pendingExit' \in {pendingExit, NoExit}
  <2> HIDE DEF Typed
  <2>1. CASE ManagementStep BY <2>1, <1>3, <1>4, <1>6, <1>10 DEF ManagementStep
  <2>2. CASE ~ManagementStep
    BY <2>2, <1>5, <1>6, <1>7, <1>8, <1>9, <1>10 DEF AccountStep
  <2> QED BY <2>1, <2>2
<1> QED BY <1>1, <1>2, <1>10 DEF Next

\* The exit module stays typed, and only slots of addresses hold approvals.
LEMMA ExitStaysTyped ==
  ASSUME TypeInv, [Next]_vars
  PROVE  ExitIsTyped' /\ PendingExitIsTyped'
<1>1. ExitIsTyped' /\ now \in Nat /\ now' \in Nat /\ now' >= now
  <2>1. now \in 1 .. MaxTime /\ MaxTime \in Nat BY MaxTimeIsPositive DEF TypeInv, ExitIsTyped
  <2>2. now' \in 1 .. MaxTime /\ now' >= now BY <2>1, ExitStepKinds DEF TypeInv
  <2> QED BY <2>1, <2>2, ExitStepKinds DEF TypeInv, ExitIsTyped
<1>2. CASE pendingExit' = NoExit BY <1>1, <1>2 DEF PendingExitIsTyped
<1>3. CASE pendingExit' = pendingExit
  <2>1. pendingExit # NoExit => pendingExit.proposedAt \in 1 .. now'
    BY <1>1 DEF TypeInv, PendingExitIsTyped
  <2> QED BY <1>1, <1>3, <2>1 DEF TypeInv, PendingExitIsTyped
<1>4. ASSUME NEW payload \in Payload, ProposeForceExit(payload) PROVE PendingExitIsTyped'
  <2>1. /\ pendingExit' = [payload |-> payload, proposedAt |-> now, approvals |-> {},
                           guardians |-> Guardians]
        /\ now' = now
    BY <1>4 DEF ProposeForceExit
  <2>2. Guardians \in [Slot -> Address \cup {Sentinel, NoAddress}]
    <3>1. ASSUME NEW i \in Slot, i < Len(guardian) PROVE guardian[i + 1] \in Address \cup P256Key
      BY <3>1 DEF TypeInv, GuardiansAreDistinct, Slot, Guardian
    <3>2. Len(guardian) \in Nat BY DEF TypeInv, GuardiansAreDistinct
    <3>3. \A i \in Slot : ~(i >= Len(guardian)) => i < Len(guardian) BY <3>2 DEF Slot
    <3> QED BY <3>1, <3>3 DEF Guardians
  <2>3. now \in 1 .. now BY <1>1 DEF TypeInv, ExitIsTyped
  <2> HIDE DEF Guardians
  <2> QED BY <2>1, <2>2, <2>3 DEF PendingExitIsTyped
<1>5. ASSUME NEW signer \in Address, ApproveForceExit(signer) PROVE PendingExitIsTyped'
  <2>1. pendingExit # NoExit /\ now' = now BY <1>5 DEF ApproveForceExit
  <2>2. PICK bit \in GuardianBit(pendingExit.guardians, signer) :
          pendingExit' = [pendingExit EXCEPT !.approvals = @ \cup {bit}]
    BY <1>5 DEF ApproveForceExit
  <2>3. bit \in Slot /\ pendingExit.guardians[bit] \in Address BY <2>2 DEF GuardianBit
  <2>4. pendingExit' = [payload |-> pendingExit.payload, proposedAt |-> pendingExit.proposedAt,
                        approvals |-> pendingExit.approvals \cup {bit},
                        guardians |-> pendingExit.guardians]
    BY <2>1, <2>2 DEF TypeInv, PendingExitIsTyped
  <2>5. /\ pendingExit'.payload = pendingExit.payload
        /\ pendingExit'.proposedAt = pendingExit.proposedAt
        /\ pendingExit'.approvals = pendingExit.approvals \cup {bit}
        /\ pendingExit'.guardians = pendingExit.guardians
    BY <2>4
  <2> QED BY <2>1, <2>3, <2>4, <2>5 DEF TypeInv, PendingExitIsTyped
<1> QED BY <1>1, <1>2, <1>3, <1>4, <1>5, ExitStepKinds DEF TypeInv

\* The owner is never one of the guardians, through recoveries and rotations.
LEMMA OwnerStaysNoGuardian ==
  ASSUME TypeInv, [Next]_vars
  PROVE  OwnerIsNoGuardian'
<1>1. CASE UNCHANGED <<owner, guardian>>
  BY <1>1 DEF TypeInv, OwnerIsNoGuardian, IsGuardian, Occupied
<1>2. CASE ExecuteRecovery
  BY <1>2 DEF ExecuteRecovery, OwnerIsNoGuardian, IsGuardian, Occupied
<1>3. ASSUME NEW g \in Guardian, AddGuardian(g) PROVE OwnerIsNoGuardian'
  <2>1. guardian' = Append(guardian, g) /\ g # owner /\ owner' = owner
    BY <1>3 DEF AddGuardian
  <2>2. guardian \in Seq(Guardian) BY DEF TypeInv, GuardiansAreDistinct
  <2>3. \A i \in Occupied' : guardian'[i] = IF i \in Occupied THEN guardian[i] ELSE g
    BY <2>1, <2>2 DEF Occupied
  <2> QED BY <2>1, <2>3 DEF TypeInv, OwnerIsNoGuardian, IsGuardian
<1>4. ASSUME NEW slot \in Occupied, RemoveGuardian(slot) PROVE OwnerIsNoGuardian'
  <2> DEFINE from(i) == IF i < slot THEN i ELSE i + 1
  <2>1. guardian' = [i \in 1 .. Len(guardian) - 1 |-> guardian[from(i)]] /\ owner' = owner
        /\ Len(guardian) > 2
    BY <1>4 DEF RemoveGuardian
  <2>2. Len(guardian) \in Nat BY DEF TypeInv, GuardiansAreDistinct
  <2>3. \A i \in 1 .. Len(guardian) - 1 : from(i) \in Occupied BY <2>2 DEF Occupied
  <2>4. guardian' \in Seq(Guardian) BY <1>4, RemoveKeepsDistinct DEF TypeInv, GuardiansAreDistinct
  <2> HIDE DEF from
  <2>5. Occupied' = 1 .. Len(guardian) - 1
    <3>1. DOMAIN guardian' = 1 .. Len(guardian) - 1 BY <2>1
    <3>2. DOMAIN guardian' = 1 .. Len(guardian') BY <2>4
    <3> QED BY <3>1, <3>2 DEF Occupied
  <2> QED BY <2>1, <2>3, <2>5 DEF TypeInv, OwnerIsNoGuardian, IsGuardian
<1>5. ASSUME Next PROVE \/ UNCHANGED <<owner, guardian>>
                        \/ ExecuteRecovery
                        \/ \E g \in Guardian : AddGuardian(g)
                        \/ \E slot \in Occupied : RemoveGuardian(slot)
  BY <1>5 DEF Next, AccountStep, ManagementStep, InstallModule, ProposeModuleInstall,
       UninstallModule, LowerTimelock, RaiseTimelock, ExecuteModuleInstall, CancelModuleInstall,
       Tick, ExitStep, ProposeForceExit, ApproveForceExit,
       ExecuteForceExit, CancelForceExit, Guardian
<1> QED BY <1>1, <1>2, <1>3, <1>4, <1>5 DEF vars

\* What is marked as installed is known, the active hook with it.
LEMMA MarkingKeepsTypes ==
  ASSUME InstalledIsTyped, NEW install \in Installable, MarkInstalled(install),
         UNCHANGED moduleInstallTimelock
  PROVE  InstalledIsTyped'
<1>1. install = <<install[1], install[2]>> BY InstallableModules
<1>2. install[1] = "hook" => <<"hook", install[2]>> \in installed'
  BY <1>1 DEF MarkInstalled
<1> QED BY <1>2 DEF MarkInstalled, InstalledIsTyped

\* The hook that is dispatched to stays installed.
LEMMA InstalledStaysTyped ==
  ASSUME TypeInv, [Next]_vars
  PROVE  InstalledIsTyped'
<1>1. CASE UNCHANGED <<installed, activeHook, moduleInstallTimelock>>
  BY <1>1 DEF TypeInv, InstalledIsTyped
<1>2. ASSUME NEW install \in Installable, NEW data, InstallModule(install, data)
      PROVE  InstalledIsTyped'
  BY <1>2, MarkingKeepsTypes DEF TypeInv, InstallModule
<1>3. CASE ExecuteModuleInstall
  <2>1. /\ pendingModuleInstall # NoModule /\ MarkInstalled(pendingModuleInstall.install)
        /\ UNCHANGED moduleInstallTimelock
    BY <1>3 DEF ExecuteModuleInstall
  <2>2. pendingModuleInstall.install \in Installable BY <2>1 DEF TypeInv, ProposalIsTyped
  <2> QED BY <2>1, <2>2, MarkingKeepsTypes DEF TypeInv
<1>4. ASSUME NEW install \in Installable, UninstallModule(install) PROVE InstalledIsTyped'
  <2>1. /\ installed' = installed \ {install} /\ UNCHANGED moduleInstallTimelock
        /\ activeHook' = IF install[1] = "hook" /\ activeHook = install[2] THEN NoModule
                         ELSE activeHook
    BY <1>4 DEF UninstallModule, HookWithout
  <2>2. install = <<"hook", activeHook>> => install[1] = "hook" /\ install[2] = activeHook
    OBVIOUS
  <2> QED BY <2>1, <2>2 DEF TypeInv, InstalledIsTyped
<1>5. ASSUME NEW t \in Timelocks, RaiseTimelock(t) \/ LowerTimelock(t) PROVE InstalledIsTyped'
  BY <1>5 DEF TypeInv, InstalledIsTyped, RaiseTimelock, LowerTimelock
<1>6. ASSUME AccountStep, ~ManagementStep, ~ExecuteModuleInstall,
             ~\E t \in Timelocks : RaiseTimelock(t)
      PROVE  UNCHANGED <<installed, activeHook, moduleInstallTimelock>>
  BY <1>6 DEF AccountStep, CancelModuleInstall, ExecuteRecovery, AddGuardian, RemoveGuardian,
       Change, Tick, managerVars
<1>7. ASSUME NEW install, NEW data, ProposeModuleInstall(install, data)
      PROVE  UNCHANGED <<installed, activeHook, moduleInstallTimelock>>
  BY <1>7 DEF ProposeModuleInstall
<1>8. ASSUME [Next]_vars, ~AccountStep
      PROVE  UNCHANGED <<installed, activeHook, moduleInstallTimelock>>
  BY <1>8 DEF Next, vars, managerVars
<1> QED BY <1>1, <1>2, <1>3, <1>4, <1>5, <1>6, <1>7, <1>8 DEF ManagementStep

\* A pending proposal is of a known module, and of a later moment than its announcement.
LEMMA ProposalStaysTyped ==
  ASSUME TypeInv, [Next]_vars
  PROVE  ProposalIsTyped'
<1>1. CASE UNCHANGED <<pendingModuleInstall, announced>>
  BY <1>1 DEF TypeInv, ProposalIsTyped
<1>2. CASE pendingModuleInstall' = NoModule BY <1>2 DEF ProposalIsTyped
<1>3. ASSUME NEW install \in Installable, NEW data \in InitData(install),
             ProposeModuleInstall(install, data)
      PROVE  ProposalIsTyped'
  <2>1. /\ announced'.at = now
        /\ pendingModuleInstall'.install = install /\ pendingModuleInstall'.data = data
        /\ pendingModuleInstall'.executeAfter = now + moduleInstallTimelock
        /\ moduleInstallTimelock # 0
    BY <1>3 DEF ProposeModuleInstall
  <2>2. now \in Nat /\ moduleInstallTimelock \in Nat
    BY DEF TypeInv, ProtectionStands, ExitIsTyped
  <2>3. pendingModuleInstall'.executeAfter > announced'.at BY <2>1, <2>2
  <2> QED BY <2>1, <2>3 DEF ProposalIsTyped
<1>4. ASSUME AccountStep
      PROVE  \/ UNCHANGED <<pendingModuleInstall, announced>>
             \/ pendingModuleInstall' = NoModule
             \/ \E install \in Installable : \E data \in InitData(install) :
                  ProposeModuleInstall(install, data)
  BY <1>4 DEF AccountStep, ManagementStep, InstallModule, UninstallModule, LowerTimelock,
       RaiseTimelock, ExecuteModuleInstall, CancelModuleInstall, ExecuteRecovery,
       AddGuardian, RemoveGuardian, Change, Tick, managerVars
<1>5. ASSUME [Next]_vars, ~AccountStep PROVE UNCHANGED <<pendingModuleInstall, announced>>
  BY <1>5 DEF Next, vars, managerVars
<1> QED BY <1>1, <1>2, <1>3, <1>4, <1>5

\* The nonce stays within its bound.
LEMMA CountsStayTyped ==
  ASSUME TypeInv, [Next]_vars
  PROVE  CountsAreTyped'
<1>1. managementNonce' \in 0 .. MaxOperations
  <2>1. managementNonce \in 0 .. MaxOperations /\ MaxOperations \in Nat
    BY TimesAreNatural DEF TypeInv, CountsAreTyped
  <2>2. CASE UNCHANGED managementNonce BY <2>1, <2>2
  <2>3. CASE ManagementStep
    <3>1. managementNonce < MaxOperations /\ managementNonce' = managementNonce + 1
      BY <2>3 DEF ManagementStep, InstallModule, ProposeModuleInstall, UninstallModule,
           LowerTimelock, NextNonce
    <3> QED BY <2>1, <3>1
  <2>4. ASSUME [Next]_vars, ~ManagementStep PROVE UNCHANGED managementNonce
    BY <2>4 DEF Next, AccountStep, RaiseTimelock, ExecuteModuleInstall, CancelModuleInstall,
         ExecuteRecovery, AddGuardian, RemoveGuardian, Change, Tick, vars, managerVars
  <2> QED BY <2>2, <2>3, <2>4
<1>2. guarded' \in BOOLEAN
  <2>1. CASE UNCHANGED guarded BY <2>1 DEF TypeInv, CountsAreTyped
  <2>2. ASSUME NEW n, NEW message, GuardiansSign(n, message) PROVE UNCHANGED guarded
    BY <2>2 DEF GuardiansSign, signatures
  <2>3. ASSUME NEW t, LowerTimelock(t) PROVE UNCHANGED guarded
    BY <2>2, <2>3 DEF LowerTimelock
  <2>4. ASSUME NEW t, RaiseTimelock(t) PROVE guarded' \in BOOLEAN
    <3>1. guarded' = (guarded \/ (t > 0 /\ Len(guardian) >= 2)) BY <2>4, Zenon DEF RaiseTimelock
    <3> QED BY <3>1, Zenon
  <2>5. ASSUME NEW g, AddGuardian(g) PROVE guarded' \in BOOLEAN
    <3>1. guarded' = (guarded \/ (moduleInstallTimelock > 0 /\ Len(guardian) >= 1))
      BY <2>5, Zenon DEF AddGuardian
    <3> QED BY <3>1, Zenon
  <2> QED BY <2>1, <2>2, <2>3, <2>4, <2>5, ProtectionSteps
<1> QED BY <1>1, <1>2 DEF CountsAreTyped

\* A new account is typed.
LEMMA InitTypes == Init => TypeInv
<1> SUFFICES ASSUME Init PROVE TypeInv OBVIOUS
<1>1. GuardiansAreDistinct BY InitDistinct
<1>2. ProtectionStands BY DEF Init, ProtectionStands
<1>3. ExitIsTyped
  <2>1. 1 \in 1 .. MaxTime BY MaxTimeIsPositive
  <2> QED BY <2>1 DEF Init, ExitIsTyped
<1>4. OwnerIsNoGuardian
  <2>1. PICK n \in 0 .. 3 : guardian \in [1 .. n -> (Address \ {owner}) \cup P256Key] BY DEF Init
  <2>2. Len(guardian) = n BY <2>1
  <2>3. owner \in Address BY DEF Init
  <2>4. \A i \in Occupied : guardian[i] # owner BY <2>1, <2>2, <2>3, DistinctAddresses DEF Occupied
  <2> QED BY <2>3, <2>4 DEF OwnerIsNoGuardian, IsGuardian
<1>5. PendingExitIsTyped /\ ProposalIsTyped BY DEF Init, PendingExitIsTyped, ProposalIsTyped
<1>6. InstalledIsTyped BY TimesAreNatural DEF Init, InstalledIsTyped
<1>7. CountsAreTyped
  <2>1. MaxOperations \in Nat BY TimesAreNatural
  <2>2. managementNonce \in 0 .. MaxOperations BY <2>1 DEF Init
  <2>3. guarded \in BOOLEAN BY Zenon DEF Init
  <2> QED BY <2>2, <2>3 DEF CountsAreTyped
<1> QED BY <1>1, <1>2, <1>3, <1>4, <1>5, <1>6, <1>7 DEF TypeInv

\* TypeOK, for any modules, addresses, keys and timelocks: an active hook is installed, a
\* proposal names a known module and is executed after its announcement, approvals of an
\* exit are in slots of addresses, and the owner is none of the guardians.
THEOREM ManagerIsTyped == Spec => []TypeOK
<1>1. TypeInv /\ [Next]_vars => TypeInv'
  BY NextKeepsDistinct, ProtectionLasts, ExitStaysTyped, OwnerStaysNoGuardian,
     InstalledStaysTyped, ProposalStaysTyped, CountsStayTyped DEF TypeInv
<1>2. TypeInv => TypeOK
  <2> SUFFICES ASSUME TypeInv PROVE TypeOK OBVIOUS
  <2>1. guardian \in UNION {[1 .. n -> Address \cup P256Key] : n \in 0 .. 3}
    <3>1. guardian \in Seq(Guardian) /\ Len(guardian) \in 0 .. 3
      <4>1. GuardiansAreDistinct BY DEF TypeInv
      <4>2. guardian \in Seq(Guardian) /\ Len(guardian) <= 3 BY <4>1, Zenon DEF GuardiansAreDistinct
      <4>3. Len(guardian) \in Nat BY <4>2
      <4>4. \A n \in Nat : n <= 3 => n \in 0 .. 3 OBVIOUS
      <4> QED BY <4>2, <4>3, <4>4
    <3>2. guardian \in [1 .. Len(guardian) -> Guardian] BY <3>1
    <3> QED BY <3>1, <3>2 DEF Guardian
  <2>2. ExitTypeOK BY <2>1 DEF TypeInv, ExitIsTyped, PendingExitIsTyped, ExitTypeOK
  <2>3. assent \subseteq Address \cup P256Key BY DEF TypeInv, ProtectionStands, Guardian
  <2> QED BY <2>2, <2>3
       DEF TypeInv, TypeOK, OwnerIsNoGuardian, InstalledIsTyped, ProposalIsTyped, CountsAreTyped
<1> QED BY <1>1, <1>2, InitTypes, PTL DEF Spec
================================================================================
