--------------------------- MODULE AcceptanceTests ---------------------------
(***************************************************************************)
(* The scripts that accept a release on a live chain, as data: what each   *)
(* of them sends, reads and expects to be refused, in order, and what it   *)
(* does when that is not what happens.  AcceptanceRun.tla runs them.       *)
(*                                                                         *)
(* The chain is a set of facts, tuples <<subject, attribute, ...>>.  An    *)
(* operation of a contract is what it asks of the facts and what it        *)
(* changes.  A release is known by what its script of ReleasePlans leaves  *)
(* behind and by what its contracts "are" and "reject" by their source.    *)
(* ABIs, keys, gas, fees and wording are left out, and so is an assertion  *)
(* that only looks at constants of the script itself.                      *)
(***************************************************************************)
EXTENDS ReleasePlans, FiniteSets

-----------------------------------------------------------------------------
(* Operations: the contract they are sent to, the facts that must and that *)
(* must not hold, the fact that makes them do nothing, what they add and   *)
(* what they take away.                                                    *)

Code(key) == <<key, "code">>
Op(target, needs, bars, adds, cuts) ==
  [target |-> Code(target), needs |-> needs, bars |-> bars, settled |-> <<>>, adds |-> adds, cuts |-> cuts]

\* Steps.  "facts" are read, "exact" says that the script compares the outcome,
\* "late" what becomes of it when the wait runs out; "when" and "unless" are the
\* facts a branch asks for.
TestStep(kind, op, facts, exact) ==
  [kind |-> kind, op |-> op, facts |-> facts, exact |-> exact, late |-> "fails",
   whim |-> FALSE, when |-> {}, unless |-> {}]

\* A transaction that must be mined: a revert is found when its gas is estimated.
Do(op) == TestStep("do", op, {}, TRUE)
\* The same where a contract without code is noticed: the predicted address is read
\* first, or the event is looked for.
Make(op) == TestStep("make", op, {}, TRUE)
When(fact, step)   == [step EXCEPT !.when = {fact}]
Unless(fact, step) == [step EXCEPT !.unless = {fact}]
\* Reads: of a contract, that all of some facts hold; that a fact does not.
SeeAll(c, facts) == TestStep("see", Op(c, {}, {}, {}, {}), facts, TRUE)
See(fact)        == SeeAll(fact[1], {fact})
SeeNot(fact)     == TestStep("seeNot", Op(fact[1], {}, {}, {}, {}), {fact}, TRUE)
\* A call that must be refused because of one fact: the script compares the
\* error, or takes any error; "RejectAny" is a call that returns a value, which
\* an address without code does not; "Reverts" is a transaction that must be
\* mined and fail.
Refuse(op, why)    == TestStep("refuse", op, {why}, TRUE)
RefuseAny(op, why) == TestStep("refuse", op, {why}, FALSE)
RejectAny(op, why) == TestStep("reject", op, {why}, FALSE)
Reverts(op, why)   == TestStep("reverts", op, {why}, FALSE)
\* What the source of a contract says.
Rejects(c, error) == <<c, "rejects", error>>
Refuses(c, error) == Refuse(Op(c, {}, {Rejects(c, error)}, {}, {}), Rejects(c, error))
Is(c, what)       == See(<<c, "is", what>>)

\* A case is a run of steps that ends with the first that fails; then the script
\* stops, or counts the failure and goes on, or goes on without counting it.
Cases(onFail, onError, runs) ==
  [i \in DOMAIN runs |-> [steps |-> runs[i], onFail |-> onFail, onError |-> onError]]
\* runTests; a script without a catch; check(), where only a mismatch is counted;
\* a catch that logs.
Phase(runs)   == Cases("count", "count", runs)
Strictly(runs) == Cases("stop", "stop", runs)
Checked(runs) == Cases("count", "stop", runs)
Logged(runs)  == Cases("pass", "pass", runs)
Each(steps)   == [i \in DOMAIN steps |-> <<steps[i]>>]

-----------------------------------------------------------------------------
(* What is there before a script is started. *)

Effect(step) ==
  CASE step.op \in {"deploy", "create2"} ->
         {Code(step.on), <<step.on, "by", "annie">>}
           \cup {<<step.on, "built with", step.to[i]>> : i \in DOMAIN step.to}
    [] step.op = "set" -> {<<step.on, step.slot, step.to[1]>>}
    [] OTHER -> {}
\* An inherited router has its two algorithms.
Leaves(plan) ==
  UNION {Effect(plan.steps[i]) : i \in DOMAIN plan.steps}
    \cup UNION {{Code(key), <<key, "by", "annie">>} : key \in plan.inherited}
    \cup (IF {BLS, ROUTER, SKV} \subseteq plan.inherited
          THEN {<<ROUTER, "0x01", BLS>>, <<ROUTER, "0x08", SKV>>} ELSE {})

StepsOf(cases) == UNION {{cases[i].steps[j] : j \in DOMAIN cases[i].steps} : i \in DOMAIN cases}
Mentioned(cases) == UNION {s.facts \cup s.op.needs : s \in StepsOf(cases)}
BySource(cases)  == {f \in Mentioned(cases) : f[2] \in {"is", "rejects"}}

\* "fresh" are the subjects that have a new address in every run; the facts of a
\* "once" script are used up by running it.
Test(given, fresh, cases) ==
  [given |-> given \cup BySource(cases), fresh |-> fresh, cases |-> cases, once |-> FALSE]

-----------------------------------------------------------------------------
(* Operations of the contracts. *)

A == "ACCOUNT"
FEM == "FORCE_EXIT_MODULE"
REG == "AGENT_REGISTRY"

\* createAccount hands back an account that exists; a factory with a registry
\* has the account marked there, or reverts.
Born(a, guardians, more) ==
  {Code(a), <<a, "owner">>, <<a, "moduleNonce", "0">>} \cup more \cup {<<a, "guardian", g>> : g \in guardians}
Create(a, guardians, more) ==
  [Op("FACTORY", {<<REG, "factory", "FACTORY">>}, {}, Born(a, guardians, more), {}) EXCEPT !.settled = Code(a)]
Trio == {"jason", "bob", "community"}
CreateWithDefaults(a) == Create(a, Trio, {<<a, "guard">>, <<a, "0x02 approved">>})
IsValid(a) == SeeAll(REG, {Code(a), <<"FACTORY", "agentRegistry", REG>>})

Execute(a) == Op(a, {<<a, "owner">>}, {}, {}, {})
Fund(a)    == Op("CHAIN", {}, {}, {<<a, "funded">>}, {})
Spend(a)   == Op(a, {<<a, "owner">>, <<a, "funded">>}, {}, {<<a, "spent">>}, {})
Deposit(a) == Op(a, {}, {}, {<<a, "deposit">>}, {})
ChangeOf(a, fact) == Op(a, {<<a, "owner">>}, {}, {fact}, {})

\* Session keys of an account, counted and capped by the validator.
Session(a, k) == <<SKV, k, a>>
Grant(a, k)   == Op(SKV, {Code(a)}, {Session(a, k)}, {Session(a, k)}, {})
Revoke(a, k)  == Op(SKV, {Code(a)}, {}, {}, {Session(a, k)})

Recovery(a) == <<a, "recovery">>
Vote(a, what, g) == <<a, what, g>>
Propose(a, g) == Op(a, {<<a, "guardian", g>>}, {Recovery(a)}, {Recovery(a), Vote(a, "approval", g)}, {})
Approve(a, g) == Op(a, {<<a, "guardian", g>>, Recovery(a)}, {Vote(a, "approval", g)}, {Vote(a, "approval", g)}, {})
CancelVote(a, g) ==
  Op(a, {<<a, "guardian", g>>, Recovery(a)}, {Vote(a, "cancel", g)}, {Vote(a, "cancel", g)}, {})
\* The second vote against a recovery ends it.
CancelSecond(a, first, g) ==
  Op(a, {<<a, "guardian", g>>, Recovery(a), Vote(a, "cancel", first)}, {Vote(a, "cancel", g)}, {},
     {Recovery(a), Vote(a, "cancel", first)} \cup {Vote(a, "approval", h) : h \in Trio})

Nonce(a, n)  == <<a, "moduleNonce", n>>
Module(a)    == <<a, "module", FEM>>
\* The module asks the account for its guardians when it is installed.
Install(a, n, m)   == Op(a, {<<a, "owner">>, Nonce(a, n), Code(FEM)}, {Module(a)}, {Module(a), Nonce(a, m)}, {Nonce(a, n)})
Uninstall(a, n, m) == Op(a, {<<a, "owner">>, Nonce(a, n), Module(a)}, {}, {Nonce(a, m)}, {Module(a), Nonce(a, n)})

Exit(a) == <<a, "exit">>
ProposeExit(a)    == Op(a, {<<a, "owner">>, Module(a), Code(FEM)}, {Exit(a)}, {Exit(a)}, {})
ApproveExit(a, g) == Op(FEM, {Exit(a), <<a, "guardian", g>>}, {Vote(a, "exit", g)}, {Vote(a, "exit", g)}, {})
RemoveGuardian(a, g) == Op(a, {<<a, "owner">>, <<a, "guardian", g>>}, {Recovery(a)}, {}, {<<a, "guardian", g>>})
\* Two approvals of present guardians.
ExecuteExit(a, g, h) ==
  Op(FEM, {Exit(a), Vote(a, "exit", g), Vote(a, "exit", h), <<a, "guardian", g>>, <<a, "guardian", h>>}, {}, {}, {Exit(a)})

\* A UserOperation: "valid" is what its validation asks, whose failure the bundler
\* reports; "Included" is satisfied with its hash, "IncludedOrLate" with less.
UserOp(op, valid) == [op EXCEPT !.needs = @ \cup valid, !.target = Code("CHAIN")]
Included(op, valid) == Do(UserOp(op, valid))
IncludedOrLate(op, valid) == [Do(UserOp(op, valid)) EXCEPT !.late = "passes", !.exact = FALSE]

-----------------------------------------------------------------------------
(* scripts/e2e-v0172: sixteen phases against the contracts of v0.20.2, the *)
(* singletons of v0.20 and its finalised router.                           *)

Suite == Leaves(V0_20) \cup Leaves(V0_20_2) \cup Leaves(FinalizeRouter)
By(c) == <<c, "by", "annie">>
SetupClosed == <<ROUTER, "setupComplete", ROUTER>>
RegisterAlgorithm == Op(ROUTER, {}, {SetupClosed}, {}, {})
BindFactory == Op(REG, {}, {<<REG, "factory", "FACTORY">>}, {}, {})

WiringReads ==
  << See(<<ROUTER, "0x01", BLS>>), See(<<ROUTER, "0x08", SKV>>), SeeNot(<<ROUTER, "0x02">>),
     See(<<REG, "factory", "FACTORY">>), See(By(REG)), See(<<"FACTORY", "agentRegistry", REG>>),
     Is("FACTORY", "of EntryPoint 0.7"), See(<<"FACTORY", "built with", "IMPL">>),
     SeeNot(<<"PARSER_REGISTRY", "any">>) >>
P01_Smoke == Test(Suite, {}, Phase(Each(WiringReads \o
  << Refuses(BLS, "CacheDeprecated"), Refuses(REG, "NotDeployer"),
     Is("FACTORY", "predicting"), Refuses(REG, "CallerNotAirAccount") >>)))

Unsigned == Op("BLS_AGGREGATOR", {}, {Rejects("BLS_AGGREGATOR", "empty signature")}, {}, {})
\* Any error of the first is a rejection; the catch around the empty aggregate
\* takes the script's own "expected revert" for a revert.
InfinityPoints ==
  << RejectAny(Op(BLS, {}, {Rejects(BLS, "infinite signature")}, {}, {}), Rejects(BLS, "infinite signature")),
     Is(BLS, "failing an infinite message"), Refuses(BLS, "BLSPointAtInfinity"), Refuses(BLS, "OnlyOwner") >>
P02_SecurityFixes == Test(Suite, {}, Phase(Each(InfinityPoints))
  \o Logged(<< << Refuse(Unsigned, Rejects("BLS_AGGREGATOR", "empty signature")) >> >>)
  \o Phase(Each(
  << Is("DELEGATE", "checking ERC-20 calls"), Refuses(SKV, "NotAirAccount"), SeeNot(<<"PARSER_REGISTRY", "uniswapV3">>) >>)))

\* Reads that are only printed ask for no more than the code.
BLSViews ==
  << See(Code(BLS)), See(Code(BLS)), SeeNot(<<BLS, "node", "unknown">>), Is(BLS, "hashing node sets"),
     Is(BLS, "estimating more gas for more nodes"), See(By(BLS)), See(Code(ROUTER)), See(Code(ROUTER)) >>
SessionViews ==
  << SeeNot(Session("dead", "key")), SeeNot(Session("dead", "key")), SeeNot(Session("dead", "p256")),
     SeeNot(<<SKV, "grant nonce", "dead">>), Is(SKV, "hashing grants"), See(<<"BLS_AGGREGATOR", "built with", BLS>>),
     SeeNot(<<FEM, "installed", "dead">>), SeeNot(<<FEM, "exit", "dead">>), Is("DELEGATE", "of EntryPoint 0.7") >>
P03_Views == Test(Suite, {}, Phase(Each(BLSViews \o SessionViews \o
  << See(By("PARSER_REGISTRY")), Is("FACTORY", "binding the configuration to the address"),
     Is("FACTORY", "of the community guardian"), SeeNot(<<REG, "valid", "dead">>), SeeNot(<<REG, "agent", "dead">>),
     SeeNot(<<REG, "balance", "dead">>), SeeNot(<<REG, "count", "dead">>), SeeNot(<<REG, "agents", "dead">>),
     SeeNot(<<REG, "page", "dead">>), SeeNot(<<REG, "human", "dead">>) >>)))

\* The node's id is the time of the run; the scheduled algorithm passes either way.
P04_Admin == Test(Suite, {"NODE"},
  Phase(Each(<< Do(Op(BLS, {By(BLS)}, {<<BLS, "node", "NODE">>}, {<<BLS, "node", "NODE">>}, {})),
                See(<<BLS, "node", "NODE">>), See(<<BLS, "node", "NODE">>) >>))
  \o Logged(<< <<See(By(ROUTER))>> >>))

P05_Lifecycle == Test(Suite, {A}, Phase(Each(
  << Is("FACTORY", "predicting"), Make(CreateWithDefaults(A)), See(Code(A)), See(<<A, "owner">>),
     SeeAll(A, {<<A, "guardian", g>> : g \in Trio}), IsValid(A), SeeAll(A, {Code("IMPL")}), Do(Execute(A)) >>)))

BLSRefusals ==
  << Refuses(BLS, "OnlyOwner"), Refuses(BLS, "CacheDeprecated"), Refuses(BLS, "BLSPointAtInfinity"),
     Refuses(BLS, "BLSPointAtInfinity for the message"), Refuses(BLS, "NoNodesProvided"),
     Refuses(BLS, "InvalidSignatureLength"), Refuse(RegisterAlgorithm, SetupClosed), Refuses(ROUTER, "OnlyOwner") >>
ModuleRefusals ==
  << Refuses(SKV, "NotAirAccount"), Refuses(SKV, "ECDSAInvalidSignature"),
     RefuseAny(Op(FEM, {<<FEM, "exit", "dead">>}, {}, {}, {}), <<FEM, "exit", "dead">>),
     RefuseAny(Op("PARSER_REGISTRY", {}, {Rejects("PARSER_REGISTRY", "stranger")}, {}, {}), Rejects("PARSER_REGISTRY", "stranger")),
     RefuseAny(Op("FACTORY", {}, {Rejects("FACTORY", "stranger")}, {}, {}), Rejects("FACTORY", "stranger")) >>
P06_Negative == Test(Suite, {}, Phase(Each(BLSRefusals \o ModuleRefusals \o
  << Refuses(REG, "NotDeployer"), Refuse(BindFactory, <<REG, "factory", "FACTORY">>), Refuses(REG, "OnlyFactory"),
     Refuses(REG, "CallerNotAirAccount"), Refuses(REG, "NotAgentOwner"), Refuses(REG, "NotSupported") >>)))

Versions ==
  << Is("FACTORY", "versioned"), Is("IMPL", "0.20.2"), Is(FEM, "versioned"), Is(SKV, "0.17.2"),
     See(SetupClosed), Refuse(RegisterAlgorithm, SetupClosed) >>
P07_Beta3 == Test(Suite, {}, Phase(Each(Versions \o
  << Refuses("FACTORY", "GuardiansRequired"),
     Refuses("FACTORY", "GuardiansMustBeDistinct"), Refuses("FACTORY", "DailyLimitRequired"),
     Refuses(FEM, "IncompatibleAccount"), See(<<REG, "factory", "FACTORY">>),
     See(<<"FACTORY", "agentRegistry", REG>>), Refuse(BindFactory, <<REG, "factory", "FACTORY">>) >>)))

P08_AccountTypes == Test(Suite, {A, "AGENT"}, Phase(Each(
  << Make(Create(A, {"jason", "bob"}, {})), See(Code(A)), See(<<A, "owner">>), SeeNot(<<A, "guard">>),
     SeeAll(A, {<<A, "guardian", "jason">>, <<A, "guardian", "bob">>}),
     Make(Create("AGENT", {"bob"}, {<<"AGENT", "guard">>})), See(Code("AGENT")), IsValid("AGENT") >>)))

Spending ==
  << Make(CreateWithDefaults(A)), Do(Fund(A)), Do(Spend(A)), SeeAll("CHAIN", {<<A, "funded">>}), Do(Execute(A)) >>
P09_Execute == Test(Suite, {A}, Phase(Each(Spending \o
  << Do(Deposit(A)), See(<<A, "deposit">>), Do(Op(A, {<<A, "owner">>, <<A, "deposit">>}, {}, {}, {})),
     Reverts(Op(A, {<<A, "owner", "jason">>}, {}, {}, {}), <<A, "owner", "jason">>),
     Reverts(Op(A, {}, {<<A, "guard">>}, {}, {}), <<A, "guard">>) >>)))

\* Grants with the owner's transaction, with its signature, and to a passkey.
Granting ==
  << Make(CreateWithDefaults(A)), Do(Grant(A, "key1")), See(Session(A, "key1")), Do(Grant(A, "key2")),
     See(Session(A, "key2")) >>
P10_Sessions == Test(Suite, {A}, Phase(Each(Granting \o
  << Do(Grant(A, "p256")), See(Session(A, "p256")),
     Do(Revoke(A, "key1")), SeeNot(Session(A, "key1")), Do(Revoke(A, "p256")), SeeNot(Session(A, "p256")) >>)))

CancelledRecovery ==
  << Make(CreateWithDefaults(A)), Do(Propose(A, "jason")), See(Recovery(A)), Do(Approve(A, "bob")),
     SeeAll(A, {Vote(A, "approval", "jason"), Vote(A, "approval", "bob")}), Do(CancelVote(A, "jason")),
     Do(CancelSecond(A, "jason", "bob")), SeeNot(Recovery(A)) >>
P11_Recovery == Test(Suite, {A}, Phase(Each(CancelledRecovery \o
  << Do(Install(A, "0", "1")), See(Module(A)),
     Do(Uninstall(A, "1", "2")), SeeNot(Module(A)) >>)))

\* A bundler that is not there is a pass, and so is an operation nobody included.
Funded == << << Make(CreateWithDefaults(A)), See(<<A, "0x02 approved">>) >>, << Do(Fund(A)), Do(Deposit(A)) >> >>
SelfPaying == << IncludedOrLate(Execute(A), {<<A, "0x02 approved">>, <<A, "deposit">>}) >>
Sponsored  == << IncludedOrLate(Execute(A), {<<A, "0x02 approved">>}) >>
P12_Bundler == Test(Suite, {A}, Phase(Funded \o <<SelfPaying, Sponsored>>))

P13_ModuleNonce == Test(Suite, {A}, Phase(
  << <<Make(CreateWithDefaults(A))>>, <<See(Nonce(A, "0"))>>, <<Do(Install(A, "0", "1"))>>, <<See(Nonce(A, "1"))>>,
     <<Do(Uninstall(A, "1", "2"))>>, <<See(Nonce(A, "2"))>>,
     <<SeeNot(Module(A)), Refuse(Install(A, "0", "1"), Nonce(A, "0"))>>,
     <<Do(Install(A, "2", "3")), See(Nonce(A, "3"))>> >>))

P14_ForceExit == Test(Suite, {A}, Phase(
  << <<Make(CreateWithDefaults(A))>>, <<Do(Install(A, "0", "1"))>>, <<Do(ProposeExit(A)), See(Exit(A))>>,
     <<Do(ApproveExit(A, "jason"))>>, <<Do(ApproveExit(A, "bob"))>>, <<Do(RemoveGuardian(A, "jason"))>>,
     <<Refuse(ExecuteExit(A, "jason", "bob"), <<A, "guardian", "jason">>)>> >>))

\* The 51st grant is only tried when the environment asks for it.
P15_SessionCap == Test(Suite, {A}, Phase(
  << <<Make(CreateWithDefaults(A))>>, <<SeeNot(Session(A, "key1"))>>,
     <<Do(Grant(A, "key1")), Do(Grant(A, "key2")), Do(Grant(A, "key3")),
       SeeAll(SKV, {Session(A, k) : k \in {"key1", "key2", "key3"}})>>,
     <<Do(Revoke(A, "key1")), SeeNot(Session(A, "key1"))>> >>))

\* A failure of the precompile ends the script before the account is created.
P16_LowS == Test(Suite \cup {Code("P256")}, {A},
  Strictly(<< << Is("P256", "accepting low s"), Is("P256", "accepting high s") >> >>)
  \o Phase(Each(<< Make(CreateWithDefaults(A)), Do(ChangeOf(A, <<A, "passkey">>)),
                   SeeAll(A, {<<A, "passkey">>, Code("P256")}), Is("IMPL", "failing high s") >>)))

-----------------------------------------------------------------------------
(* scripts/e2e-v0.2x.0: one script a release, each with the checks of the  *)
(* one before it and its own.                                              *)

AlgorithmCount == 10
Others == {"anni", "bob", "charlie"}
Approved(a) == [i \in 1..AlgorithmCount |-> SeeAll(a, {Code("IMPL")})]
B == "ACCOUNT2"
Key(a) == <<a, "passkey">>

E2E_V0_21_0 == Test(Leaves(V0_21_0), {A},
  Checked(Each(<< Is("IMPL", "0.21.0") >>)) \o Strictly(<< << Make(Create(A, Others, {})), See(Code(A)) >> >>)
  \o Checked(Each(<< SeeAll(A, {<<"IMPL", "is", "0.21.0">>}), SeeAll(A, {<<"IMPL", "is", "0.21.0">>}) >>))
  \o Phase(Each(Approved(A))))

\* T1 to T21: the account validates with the router of the implementation, and a
\* passkey given at creation is set at birth and changes the address.
Basics(version) ==
  Checked(Each(<< Is("IMPL", version), See(<<"IMPL", "built with", ROUTER>>) >>))
  \o Strictly(<< << Make(Create(A, Others, {})), See(Code(A)) >> >>)
  \o Checked(Each(<< SeeAll(A, {<<"IMPL", "is", version>>}), SeeAll(A, {<<"IMPL", "is", version>>}),
                     SeeAll(A, {<<"IMPL", "built with", ROUTER>>}), SeeNot(Key(A)) >>))
  \o Strictly(<< << Make(Create(B, Others, {Key(B)})), See(Code(B)) >> >>)
  \o Checked(Each(<< See(Key(B)), See(Key(B)), Is("FACTORY", "binding the passkey to the address") >>))
  \o Phase(Each(Approved(A)))
\* T22 to T25: only the owner's tagged signature passes.
OwnerAuth(a) == Checked(Each(
  << SeeAll(a, {<<a, "owner">>}), SeeAll(a, {<<"IMPL", "is", "failing strangers">>}),
     SeeAll(a, {<<"IMPL", "is", "failing other tags">>}), SeeAll(a, {<<"IMPL", "is", "failing nothing">>}) >>))
\* T26 and T27, T28 and T29, T30.
RelayViews == Phase(Each(<< Is("FACTORY", "hashing configurations"), Is("FACTORY", "hashing creations") >>))
Hardened == Phase(<< <<Is("FACTORY", "binding the guardians to the address")>>,
                     <<See(<<ROUTER, "0x08", SKV>>), SeeAll(A, {<<"IMPL", "built with", ROUTER>>})>> >>)
Bytecode == Phase(Each(<< Is("IMPL", "the local artifact") >>))
\* T31: a golden vector must validate, and an error of the mutated ones is as
\* good as a rejection; later releases only warn about the golden one.
Mutated == RejectAny(Op(DVT, {}, {Rejects(DVT, "mutations")}, {}, {}), Rejects(DVT, "mutations"))
MountAndGolden == Phase(<< <<See(<<ROUTER, "0x01", DVT>>), Is(DVT, "accepting the golden vector"), Mutated, Mutated>> >>)
Mount          == Phase(<< <<See(<<ROUTER, "0x01", DVT>>), See(Code(DVT)), Mutated, Mutated>> >>)

Release(plan, cases) == Test(Leaves(plan), {A, B}, cases)
E2E_V0_22_0 == Release(V0_22_0, Basics("0.22.0"))
Basics_V0_23_0 == Basics("0.23.0")
E2E_V0_23_0 == Release(V0_23_0, Basics_V0_23_0 \o OwnerAuth(A) \o RelayViews)
Basics_V0_24_0 == Basics("0.24.0")
E2E_V0_24_0 == Release(V0_24_0, Basics_V0_24_0 \o OwnerAuth(A) \o RelayViews \o Hardened)
Basics_V0_25_0 == Basics("0.25.0")
E2E_V0_25_0 == Release(V0_25_0, Basics_V0_25_0 \o OwnerAuth(A) \o RelayViews \o Hardened \o Bytecode)
Basics_V0_26_0 == Basics("0.26.0")
E2E_V0_26_0 == Release(V0_26_0, Basics_V0_26_0 \o OwnerAuth(A) \o RelayViews \o Hardened \o Bytecode)
Basics_V0_27_0 == Basics("0.27.0")
E2E_V0_27_0 == Release(V0_27_0, Basics_V0_27_0 \o OwnerAuth(A) \o RelayViews \o Hardened \o Bytecode \o MountAndGolden)
Basics_V0_28_0 == Basics("0.28.0")
E2E_V0_28_0 == Release(V0_28_0, Basics_V0_28_0 \o OwnerAuth(A) \o RelayViews \o Hardened \o Bytecode \o Mount)
Basics_V0_29_0 == Basics("0.29.0")
E2E_V0_29_0 == Release(V0_29_0, Basics_V0_29_0 \o OwnerAuth(A) \o RelayViews \o Hardened \o Bytecode \o Mount)

\* Through a bundler: an operation of a guarded account is included, and the same
\* operation without the algorithm's byte is rejected.  The first byte of a raw
\* signature is taken for an algorithm, so the error is not always the one that
\* the first three releases ask for; the last one takes them all.
RawSignature == Refuse(UserOp(Op(A, {}, {Rejects("IMPL", "raw signature")}, {}, {}), {}), Rejects("IMPL", "raw signature"))
Bundled(rejection) ==
  Strictly(<< <<Make(CreateWithDefaults(A))>> >>) \o Checked(Each(<< See(<<A, "0x02 approved">>) >>))
  \o Strictly(<< <<Do(Fund(A)), Do(Deposit(A)), See(<<A, "deposit">>)>> >>)
  \o Phase(<< <<Included(Execute(A), {<<A, "0x02 approved">>, <<A, "deposit">>})>>, <<rejection>> >>)
Whimsical(step) == [step EXCEPT !.whim = TRUE]
Bundler_V0_25_0 == Test(Leaves(V0_25_0), {A}, Bundled(Whimsical(RawSignature)))
Bundler_V0_26_0 == Test(Leaves(V0_26_0), {A}, Bundled(Whimsical(RawSignature)))
Bundler_V0_27_0 == Test(Leaves(V0_27_0), {A}, Bundled(Whimsical(RawSignature)))
Bundler_V0_28_0 == Test(Leaves(V0_28_0), {A}, Bundled(RawSignature))

-----------------------------------------------------------------------------
(* Accounts with a fixed address: what an earlier run did is not repeated. *)

Enrolled(a) == <<COMMITTEE, "enrolled", a>>
Enroll(a) == Op(a, {<<a, "owner">>, <<ROUTER, "0x01", COMMITTEE>>, Code(COMMITTEE)}, {Enrolled(a)}, {Enrolled(a)}, {})
ArmedFact == <<COMMITTEE, "armed">>
Quorum == <<COMMITTEE, "quorum">>
Nodes == <<COMMITTEE, "nodes">>
EnrollOnce == Strictly(<< <<Unless(Code(A), Make(Create(A, Others, {}))), Unless(Enrolled(A), Do(Enroll(A)))>> >>)
Identity(version) == Checked(Each(
  << SeeAll(A, {<<"IMPL", "is", version>>}), See(<<A, "owner">>), SeeAll(A, {<<"IMPL", "built with", ROUTER>>}), See(Enrolled(A)) >>))

Enroll_V0_31_0 == Test(Leaves(V0_31_0) \cup {Nodes}, {},
  EnrollOnce \o Identity("0.31.0") \o Checked(Each(<< SeeNot(ArmedFact), See(Nodes) >>)))
Enroll_V0_32_0 == Test(Leaves(V0_32_0) \cup {Nodes, ArmedFact, Quorum}, {},
  EnrollOnce \o Identity("0.32.0") \o Checked(Each(<< See(ArmedFact), See(Nodes), See(Quorum), See(<<ROUTER, "0x01", COMMITTEE>>) >>)))
\* Either phase of the committee is accepted, a mixture is not.
Enroll_V0_33_0(phase) == Test(Leaves(V0_33_0) \cup phase, {},
  EnrollOnce \o Identity("0.33.0")
  \o Checked(Each(<< Unless(ArmedFact, SeeNot(Quorum)), When(ArmedFact, See(Quorum)), See(<<ROUTER, "0x01", COMMITTEE>>) >>)))

OwnerAuth_V0_23_0 == Test(Leaves(V0_23_0), {},
  Strictly(<< <<Unless(Code(A), Make(Create(A, Others, {})))>> >>) \o OwnerAuth(A))
OwnerAuth_CC22 == Test(Leaves(V0_27_0), {},
  Strictly(<< <<Unless(Code(A), Make(Create(A, Others, {})))>> >>) \o OwnerAuth(A))

-----------------------------------------------------------------------------
(* Single-purpose scripts. *)

CreateTestAccount == Test(Suite, {A}, Strictly(<< <<Make(Create(A, {}, {}))>> >>))

\* On an account of its own, with two guardians' signatures.
J1_TierGovernance == Test({Code(A), <<A, "owner">>, <<A, "guardian", "anni">>, <<A, "guardian", "bob">>}, {},
  Strictly(<< << Do(Op(A, {<<A, "owner">>, <<A, "guardian", "anni">>, <<A, "guardian", "bob">>}, {}, {<<A, "tier limits">>}, {})),
                 See(<<A, "tier limits">>) >> >>))

\* A signature of the registered nodes validates its hash and no other.
L1_Replay == Test(Leaves(V0_19), {},
  Strictly(<< <<SeeAll(BLS, {<<BLS, "node1", BLS>>, <<BLS, "node2", BLS>>}), Is(BLS, "binding the hash")>> >>))

\* A session key that may act once acts once; any error counts as the refusal.
SessionAct(a) == Op("CHAIN",
  {<<a, "owner">>, <<a, "validator", ROUTER>>, <<a, "deposit">>, <<ROUTER, "0x08", SKV>>, Session(a, "key1")},
  {Vote(a, "velocity", "used")}, {Vote(a, "velocity", "used")}, {})
L2_Velocity == Test(Leaves(V0_19), {A}, Strictly(
  << << Make(CreateWithDefaults(A)), Do(ChangeOf(A, <<A, "validator", ROUTER>>)), Do(Grant(A, "key1")), Do(Deposit(A)),
        Do(SessionAct(A)), RefuseAny(SessionAct(A), Vote(A, "velocity", "used")) >> >>))

\* Without a recovery there is nothing to do, before its time an error.
Elapsed == <<A, "timelock", "elapsed">>
ExecuteRecovery == Test({Code(A), Recovery(A), Vote(A, "approval", "pk0"), Vote(A, "approval", "pk1"), Elapsed}, {}, Strictly(
  << << See(Code(A)), When(Recovery(A), See(Elapsed)),
        When(Recovery(A), Do(Op(A, {Elapsed, Vote(A, "approval", "pk0"), Vote(A, "approval", "pk1")}, {}, {<<A, "owner", "new">>}, {Recovery(A)}))) >> >>))

\* Its address is fixed: a second run meets the recovery of the first.
OnchainP256 == [Test(Leaves(V0_20), {},
  Strictly(<< << Unless(Code(A), Make(Create(A, {"pk0", "pk1"}, {}))), See(Code(A)), Do(Propose(A, "pk0")), Do(Approve(A, "pk1")) >> >>)
  \o Logged(<< <<Refuse(Op(A, {Elapsed}, {}, {}, {}), Elapsed)>> >>)) EXCEPT !.once = TRUE]

SafeGuardian == Test(Leaves(V0_19) \cup {Code("SAFE_FACTORY")}, {A, "SAFE"}, Strictly(
  << << Do(Op("SAFE_FACTORY", {}, {}, {Code("SAFE")}, {})), See(Code("SAFE")), Make(Create(A, {"jason", "bob", "SAFE"}, {})),
        Do(Propose(A, "jason")), Do(Approve(A, "SAFE")),
        SeeAll(A, {Recovery(A), Vote(A, "approval", "jason"), Vote(A, "approval", "SAFE")}) >> >>))

\* The account calls itself to set its limits, once.
Latched == Op(A, {<<A, "owner">>}, {<<A, "tier limits">>}, {<<A, "tier limits">>}, {})
SelfCall == Test(Leaves(V0_20_3), {A}, Strictly(
  << << Make(Create(A, {}, {})), See(Code(A)), SeeAll(A, {<<"IMPL", "is", "0.20.3">>}), Do(Latched), See(<<A, "tier limits">>),
        Refuse(Latched, <<A, "tier limits">>) >> >>))

-----------------------------------------------------------------------------
(* Every script under its name. *)

AcceptanceTest ==
  [p01 |-> P01_Smoke, p02 |-> P02_SecurityFixes, p03 |-> P03_Views, p04 |-> P04_Admin, p05 |-> P05_Lifecycle,
   p06 |-> P06_Negative, p07 |-> P07_Beta3, p08 |-> P08_AccountTypes, p09 |-> P09_Execute, p10 |-> P10_Sessions,
   p11 |-> P11_Recovery, p12 |-> P12_Bundler, p13 |-> P13_ModuleNonce, p14 |-> P14_ForceExit,
   p15 |-> P15_SessionCap, p16 |-> P16_LowS,
   v0210 |-> E2E_V0_21_0, v0220 |-> E2E_V0_22_0, v0230 |-> E2E_V0_23_0, v0240 |-> E2E_V0_24_0, v0250 |-> E2E_V0_25_0,
   v0260 |-> E2E_V0_26_0, v0270 |-> E2E_V0_27_0, v0280 |-> E2E_V0_28_0, v0290 |-> E2E_V0_29_0,
   bundler25 |-> Bundler_V0_25_0, bundler26 |-> Bundler_V0_26_0, bundler27 |-> Bundler_V0_27_0, bundler28 |-> Bundler_V0_28_0,
   enroll31 |-> Enroll_V0_31_0, enroll32 |-> Enroll_V0_32_0, enroll33off |-> Enroll_V0_33_0({}),
   enroll33armed |-> Enroll_V0_33_0({ArmedFact, Quorum}), auth23 |-> OwnerAuth_V0_23_0, cc22 |-> OwnerAuth_CC22,
   account |-> CreateTestAccount, j1 |-> J1_TierGovernance, l1 |-> L1_Replay, l2 |-> L2_Velocity,
   execute |-> ExecuteRecovery, p256 |-> OnchainP256, safe |-> SafeGuardian, selfCall |-> SelfCall]

=============================================================================
