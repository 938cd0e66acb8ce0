------------------------------ MODULE ModuleManager ------------------------------
(***************************************************************************)
(* The ERC-7579 module manager of an account (AirAccountExtension), with   *)
(* ForceExitModule among the modules it installs: modules are installed at *)
(* once when guardians sign, or, where the account has set an install      *)
(* timelock, proposed, announced for that long and executed by anybody.    *)
(*                                                                         *)
(* The owner and the guardian set change meanwhile.  GuardianGovernance    *)
(* models how; here any change it allows may happen at any time.           *)
(* A guardian signature is the guardian and the message it signs, and any  *)
(* guardian may have signed any message.                                   *)
(***************************************************************************)
EXTENDS ForceExit

CONSTANTS
  ExitModule,      \* the ForceExitModule
  Installable,     \* pairs (module type, module) that are ever submitted
  InitData(_),     \* the module data that is ever submitted for a pair
  Timelocks,       \* install timelocks the owner ever sets, 0 among them
  Grace,           \* MODULE_INSTALL_PROPOSAL_GRACE
  MaxOperations,   \* bound: the module-management nonce stays below
  MaxChanges,      \* bound: changes of the owner and of the guardian set
  MaxEvents        \* bound: operations of that nonce and such changes together

Types == {"validator", "executor", "hook"}
NoModule == <<>>                       \* address(0), and no proposal

ASSUME InstallableModules ==
  \A i \in Installable : i = <<i[1], i[2]>> /\ i[1] \in Types /\ i[2] # NoModule

ASSUME ExitModuleData ==
  \A i \in Installable : i[2] = ExitModule => InitData(i) \subseteq L2Types \cup {""}

ASSUME TimesAreNatural ==
  /\ Timelocks \subseteq Nat /\ 0 \in Timelocks /\ Grace \in Nat
  /\ {MaxOperations, MaxChanges, MaxEvents} \subseteq Nat

VARIABLES
  owner,                  \* owner
  installed,              \* _installedModules, as the set of pairs that are TRUE
  activeHook,             \* _activeHook
  moduleInstallTimelock,  \* _moduleInstallTimelock
  pendingModuleInstall,   \* _pendingModuleInstall
  managementNonce,        \* _moduleManagementNonce
  changes,                \* how often the owner or the guardians have changed
  accepted,               \* history: how often signatures were accepted,
  lastMessage,            \*   over which message the last time,
  guarded,                \*   whether a timelock ever protected two guardians or more,
  assent,                 \*   and who signed since one last began to,
  announced               \*   and what the pending proposal told, to whom and when

managerVars == <<installed, activeHook, moduleInstallTimelock, pendingModuleInstall, managementNonce>>
signatures == <<accepted, lastMessage, guarded, assent>>
vars == <<now, guardian, owner, changes, moduleState, withdrawn, backing, managerVars, signatures, announced>>

MODULE_INSTALL_BYPASS_SIGS == 2
DefaultInstallSigs == 1               \* _installModuleThreshold is never written: 70

Occupied == 1 .. Len(guardian)
AvailableSigs == IF Len(guardian) < 2 THEN Len(guardian) ELSE 2

IsExecutor(module) == <<"executor", module>> \in installed
Live(module) == \E t \in Types : <<t, module>> \in installed

(***************************************************************************)
(* Guardian signatures.                                                    *)
(***************************************************************************)
Several(people) == \E g, h \in people : g # h

\* Of two guardians or more it does not matter who they are.
AtMostTwo(signers) == IF Several(signers) THEN Address \cup P256Key ELSE signers

\* _checkGuardianSigsMixed: n guardians sign, the fewest that it accepts; and the history.
GuardiansSign(n, message) ==
  \E slots \in SUBSET Occupied :
    /\ Cardinality(slots) = n
    /\ IF n = 0 THEN UNCHANGED signatures
       ELSE /\ accepted' = accepted + 1
            /\ lastMessage' = message
            /\ assent' = IF guarded THEN AtMostTwo(assent \cup {guardian[i] : i \in slots}) ELSE {}
            /\ UNCHANGED guarded

InstallMessage(install, data) == <<"INSTALL_MODULE", install, data, managementNonce>>

NextNonce == managementNonce' = managementNonce + 1

(***************************************************************************)
(* Installing.                                                             *)
(***************************************************************************)
CanInstall(install) ==
  /\ install \notin installed
  /\ install[1] = "hook" => activeHook = NoModule

MarkInstalled(install) ==
  /\ installed' = installed \cup {install}
  /\ activeHook' = IF install[1] = "hook" THEN install[2] ELSE activeHook

\* onInstall is called for the first installation of a module; when it fails so does
\* the installation.
CallOnInstall(install, data) ==
  IF install[2] = ExitModule /\ ~Live(ExitModule) THEN OnInstall(data)
                                                 ELSE UNCHANGED moduleState

SigsToInstall == IF moduleInstallTimelock = 0 THEN DefaultInstallSigs
                                              ELSE MODULE_INSTALL_BYPASS_SIGS

InstallModule(install, data) ==
  /\ GuardiansSign(SigsToInstall, InstallMessage(install, data))
  /\ CanInstall(install)
  /\ MarkInstalled(install)
  /\ CallOnInstall(install, data)
  /\ NextNonce
  /\ UNCHANGED <<now, guardian, owner, changes, backing,
                 moduleInstallTimelock, pendingModuleInstall, announced>>

\* A change a bug could make: the slots of two P-256 guardians look the same.
ModuleAuthHashOfAddresses == [owner |-> owner, guardians |-> Guardians, count |-> Len(guardian)]

\* The owner, the slots as addresses with their count, and the P-256 keys.
ModuleAuthHash ==
  [owner |-> owner, guardians |-> Guardians, count |-> Len(guardian),
   keys |-> [i \in Slot |-> IF i < Len(guardian) /\ guardian[i + 1] \in P256Key
                            THEN guardian[i + 1] ELSE NoAddress]]

ProposalLapsed(p) == now > p.executeAfter + Grace

\* A change a bug could make: the signatures of a proposal are not consumed.
ProposeKeepingNonce(install, data) ==
  /\ moduleInstallTimelock # 0 /\ pendingModuleInstall = NoModule /\ CanInstall(install)
  /\ GuardiansSign(DefaultInstallSigs, InstallMessage(install, data))
  /\ pendingModuleInstall' = [install |-> install, data |-> data, authHash |-> ModuleAuthHash,
                              executeAfter |-> now + moduleInstallTimelock]
  /\ announced' = [at |-> now, notice |-> moduleInstallTimelock, install |-> install,
                   owner |-> owner, guardian |-> guardian]
  /\ UNCHANGED <<now, guardian, owner, changes, moduleState, backing, managementNonce,
                 installed, activeHook, moduleInstallTimelock>>

ProposeModuleInstall(install, data) ==
  /\ moduleInstallTimelock # 0
  /\ pendingModuleInstall # NoModule => ProposalLapsed(pendingModuleInstall)
  /\ CanInstall(install)
  /\ GuardiansSign(DefaultInstallSigs, InstallMessage(install, data))
  /\ pendingModuleInstall' = [install |-> install, data |-> data,
                              executeAfter |-> now + moduleInstallTimelock,
                              authHash |-> ModuleAuthHash]
  /\ announced' = [at |-> now, notice |-> moduleInstallTimelock, install |-> install,
                   owner |-> owner, guardian |-> guardian]
  /\ NextNonce
  /\ UNCHANGED <<now, guardian, owner, changes, moduleState, backing,
                 installed, activeHook, moduleInstallTimelock>>

Executable(p) ==
  /\ now >= p.executeAfter
  /\ ~ProposalLapsed(p)
  /\ p.authHash = ModuleAuthHash

ExecuteModuleInstall ==
  /\ pendingModuleInstall # NoModule
  /\ Executable(pendingModuleInstall)
  /\ CanInstall(pendingModuleInstall.install)
  /\ MarkInstalled(pendingModuleInstall.install)
  /\ pendingModuleInstall' = NoModule
  /\ announced' = NoModule
  /\ CallOnInstall(pendingModuleInstall.install, pendingModuleInstall.data)
  /\ UNCHANGED <<now, guardian, owner, changes, backing, signatures,
                 moduleInstallTimelock, managementNonce>>

\* The owner or a guardian that is an address.
CancelModuleInstall ==
  /\ pendingModuleInstall # NoModule
  /\ pendingModuleInstall' = NoModule
  /\ announced' = NoModule
  /\ UNCHANGED <<now, guardian, owner, changes, moduleState, backing, signatures,
                 installed, activeHook, moduleInstallTimelock, managementNonce>>

(***************************************************************************)
(* Uninstalling, and the timelock itself.                                  *)
(***************************************************************************)
\* Whether onUninstall succeeds is not looked at: a module whose state is long to
\* delete can run out of its share of the gas.
CallOnUninstall(module) ==
  \/ module = ExitModule /\ OnUninstall
  \/ UNCHANGED moduleState

\* A change a bug could make: an uninstalled hook stays active.
HookKept(install) == activeHook

\* The hook that is dispatched to, after an uninstallation.
HookWithout(install) ==
  IF install[1] = "hook" /\ activeHook = install[2] THEN NoModule ELSE activeHook

UninstallModule(install) ==
  /\ GuardiansSign(AvailableSigs, <<"UNINSTALL_MODULE", install, managementNonce>>)
  /\ install \in installed
  /\ installed' = installed \ {install}
  /\ activeHook' = HookWithout(install)
  /\ IF \E t \in Types : <<t, install[2]>> \in installed' THEN UNCHANGED moduleState
                                                         ELSE CallOnUninstall(install[2])
  /\ NextNonce
  /\ UNCHANGED <<now, guardian, owner, changes, backing,
                 moduleInstallTimelock, pendingModuleInstall, announced>>

RaiseTimelock(newTimelock) ==
  /\ newTimelock >= moduleInstallTimelock
  /\ moduleInstallTimelock' = newTimelock
  /\ guarded' = (guarded \/ (newTimelock > 0 /\ Len(guardian) >= 2))
  /\ assent' = IF moduleInstallTimelock = 0 /\ newTimelock > 0 THEN {} ELSE assent
  /\ UNCHANGED <<now, guardian, owner, changes, moduleState, backing, accepted, lastMessage,
                 installed, activeHook, pendingModuleInstall, managementNonce, announced>>

LowerTimelock(newTimelock) ==
  /\ newTimelock < moduleInstallTimelock
  /\ GuardiansSign(AvailableSigs, <<"SET_MODULE_TIMELOCK", newTimelock, managementNonce>>)
  /\ moduleInstallTimelock' = newTimelock
  /\ NextNonce
  /\ UNCHANGED <<now, guardian, owner, changes, moduleState, backing,
                 installed, activeHook, pendingModuleInstall, announced>>

(***************************************************************************)
(* The rest of the account: its owner and its guardians change.            *)
(***************************************************************************)
Change ==
  /\ changes < MaxChanges /\ managementNonce + changes < MaxEvents
  /\ changes' = changes + 1
  /\ UNCHANGED <<now, moduleState, backing, managerVars, announced>>

IsGuardian(g) == \E i \in Occupied : guardian[i] = g

ExecuteRecovery ==
  /\ Len(guardian) >= 2
  /\ \E newOwner \in Address \ {owner} : ~IsGuardian(newOwner) /\ owner' = newOwner
  /\ UNCHANGED <<guardian, signatures>>
  /\ Change

AddGuardian(g) ==
  /\ Len(guardian) < 3 /\ ~IsGuardian(g) /\ g # owner
  /\ guardian' = Append(guardian, g)
  /\ guarded' = (guarded \/ (moduleInstallTimelock > 0 /\ Len(guardian) >= 1))
  /\ UNCHANGED <<owner, accepted, lastMessage, assent>>
  /\ Change

\* The guardians after the removed one move up a slot.
RemoveGuardian(slot) ==
  /\ Len(guardian) > 2
  /\ guardian' = [i \in 1 .. Len(guardian) - 1 |-> guardian[IF i < slot THEN i ELSE i + 1]]
  /\ UNCHANGED <<owner, signatures>>
  /\ Change

\* A signature of an exit proposed earlier and no longer pending is of no more use.
Tick ==
  /\ now < MaxTime
  /\ now' = now + 1
  /\ backing' = IF pendingExit = NoExit THEN NoBacking ELSE backing
  /\ UNCHANGED <<guardian, owner, changes, moduleState, managerVars, signatures, announced>>

(***************************************************************************)
(* The specification.                                                      *)
(***************************************************************************)
Init ==
  /\ now = 1
  /\ owner \in Address
  /\ guardian \in UNION {[1 .. n -> (Address \ {owner}) \cup P256Key] : n \in 0 .. 3}
  /\ \A i, j \in Occupied : guardian[i] = guardian[j] => i = j
  /\ initialized = FALSE /\ l2Type = Unsupported /\ pendingExit = NoExit
  /\ withdrawn = FALSE /\ backing = NoBacking
  /\ installed = {} /\ activeHook = NoModule
  /\ moduleInstallTimelock = 0 /\ pendingModuleInstall = NoModule
  /\ managementNonce = 0 /\ changes = 0
  /\ accepted = 0 /\ lastMessage = NoModule /\ guarded = FALSE /\ assent = {}
  /\ announced = NoModule

ManagementStep ==
  /\ managementNonce < MaxOperations /\ managementNonce + changes < MaxEvents
  /\ \/ \E install \in Installable : \E data \in InitData(install) :
          InstallModule(install, data) \/ ProposeModuleInstall(install, data)
     \/ \E install \in Installable : UninstallModule(install)
     \/ \E newTimelock \in Timelocks : LowerTimelock(newTimelock)

AccountStep ==
  \/ ManagementStep
  \/ \E newTimelock \in Timelocks : RaiseTimelock(newTimelock)
  \/ ExecuteModuleInstall
  \/ CancelModuleInstall
  \/ ExecuteRecovery
  \/ \E g \in Address \cup P256Key : AddGuardian(g)
  \/ \E slot \in Occupied : RemoveGuardian(slot)
  \/ Tick

Next ==
  \/ AccountStep /\ withdrawn' = FALSE
  \/ /\ ExitStep(IsExecutor(ExitModule))
     /\ UNCHANGED <<owner, changes, managerVars, signatures, announced>>

Spec == Init /\ [][Next]_vars

(***************************************************************************)
(* Properties *)
(***************************************************************************)
\* Types; and only guardians with an address ever hold an approval of an exit.
TypeOK ==
  /\ ExitTypeOK
  /\ owner \in Address /\ ~IsGuardian(owner)
  /\ installed \subseteq Installable
  /\ activeHook = NoModule \/ <<"hook", activeHook>> \in installed
  /\ moduleInstallTimelock \in Timelocks
  /\ pendingModuleInstall # NoModule =>
       /\ pendingModuleInstall.install \in Installable
       /\ pendingModuleInstall.data \in InitData(pendingModuleInstall.install)
       /\ pendingModuleInstall.executeAfter > announced.at
  /\ managementNonce \in 0 .. MaxOperations
  /\ guarded \in BOOLEAN /\ assent \subseteq Address \cup P256Key

\* A withdrawal leaves the account only while the module is installed as an executor,
\* and only when two guardians of this moment have signed this very proposal: through
\* rotations of the guardians, cancellations and new proposals, an uninstallation that
\* left the module's state behind, and a new installation (ForceExitModule.sol).
ExitsAreBacked ==
  [][withdrawn' =>
       /\ IsExecutor(ExitModule)
       /\ backing.of = ProposalHash(pendingExit)
       /\ Several({a \in backing.by : IsGuardian(a)})]_vars

\* Once a timelock has protected two guardians, the owner with a single one of them
\* installs nothing without notice, by no sequence of calls: two have signed since, or
\* the module was announced for the time then set, nobody cancelled, and the owner and
\* the guardians are those who were told (AirAccountExtension.sol:252-257, 219-226).
LoneGuardianGivesNotice ==
  [][\A install \in installed' \ installed :
       guarded => \/ Several(assent')
                  \/ /\ announced # NoModule /\ announced.install = install
                     /\ now >= announced.at + announced.notice
                     /\ announced.owner = owner /\ announced.guardian = guardian]_vars

\* No signature counts twice: two operations that guardians signed for, one after the
\* other, were signed for with different messages (the nonce of issue #75).
SignaturesAreSpent ==
  [][accepted' # accepted => lastMessage' # lastMessage]_vars
=================================================================================
