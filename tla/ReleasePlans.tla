---------------------------- MODULE ReleasePlans ----------------------------
(***************************************************************************)
(* The deployment scripts of scripts/deploy-*.ts (and the scripts that     *)
(* finish what they begin) as data: what each of them sends, reads and     *)
(* refuses, in order.  A script is a straight line of awaited steps, so it *)
(* is a sequence of step records; Rollout.tla runs the sequence against a  *)
(* chain, an operator and a mempool.                                       *)
(*                                                                         *)
(* Contracts are named by the environment key their address is printed     *)
(* under.  ABIs, artifacts, gas limits, fees, token presets and the        *)
(* balance floor checked before the first transaction are left out.        *)
(***************************************************************************)
EXTENDS Naturals, Sequences

-----------------------------------------------------------------------------
(* Steps.  "on" is the contract a step is about, "to" what it is given. *)

Step(op, on, slot, to, guard) ==
  [op |-> op, on |-> on, slot |-> slot, to |-> to, guard |-> guard, wait |-> "strict"]

\* A constructor transaction; ReuseWith takes the address from the environment
\* when the key "given" is set there; Create2 asks for code at the predicted
\* address first.
Deploy(key, args)  == Step("deploy",  key, "code", args, "always")
ReuseWith(given, key, args) == Step("deploy", key, "code", args, given)
Reuse(key, args)   == ReuseWith(key, key, args)
Create2(key, args) == Step("create2", key, "code", args, "unlessCode")

\* A call that stores "to" in a slot of a contract: unconditionally, only
\* after a read that finds another value, or only after a read that finds the
\* slot empty (any other value there stops the script).
Set(on, slot, to)   == Step("set", on, slot, <<to>>, "always")
Align(on, slot, to) == Step("set", on, slot, <<to>>, "unlessEqual")
Claim(on, slot, to) == Step("set", on, slot, <<to>>, "unlessSet")
\* A call that is skipped while the slot "given" of the contract is set.
Ensure(on, slot, given) == Step("set", on, slot, <<on>>, given)

\* Reads that stop the script when they disagree.
Check(on, slot, to) == Step("check", on, slot, <<to>>, "always")
CheckArg(on, to)    == Step("checkArg", on, "code", <<to>>, "always")
Probe(key)          == Step("probe", key, "code", <<>>, "always")
CheckVersion        == Step("version", "IMPL", "code", <<>>, "always")
CheckNodes(asked)   == Step("nodes", "COMMITTEE_VALIDATOR", "code", <<>>, asked)
NodesAsked == [atLeast1 |-> 1, atLeast3 |-> 3]

\* How the script waits for its transaction.  "strict" sends once and throws on
\* a revert or when no receipt is found; "lenient" never looks at the status;
\* "eachRpc" sends again through the next endpoint; "anyHash" does so too, but
\* is content as soon as one endpoint returned a transaction hash.
Waiting(mode, steps) == [i \in DOMAIN steps |-> [steps[i] EXCEPT !.wait = mode]]

Script(inherited, steps) == [inherited |-> inherited, steps |-> steps]

-----------------------------------------------------------------------------
(* Shared runs of steps. *)

BLS == "BLS_ALGORITHM"
ROUTER == "VALIDATOR_ROUTER"
SKV == "SESSION_KEY_VALIDATOR"
DVT == "DVT_VALIDATOR"
COMMITTEE == "COMMITTEE_VALIDATOR"

Peripherals == {SKV, "FORCE_EXIT_MODULE", "DELEGATE", "PARSER_REGISTRY"}
Singletons  == Peripherals \cup {BLS, ROUTER, "BLS_AGGREGATOR"}

NewRouter(bls) ==
  << Deploy(ROUTER, <<>>), Set(ROUTER, "0x01", bls), Set(ROUTER, "0x08", SKV),
     Set(ROUTER, "setupComplete", ROUTER), Check(ROUTER, "0x01", bls), Check(ROUTER, "0x08", SKV) >>

NewStack(implArgs) ==
  << Deploy("IMPL", implArgs) >> \o
  (IF implArgs = <<>> THEN <<>> ELSE << CheckArg("IMPL", implArgs[1]) >>) \o
  << Deploy("FACTORY", <<"IMPL">>), Deploy("AGENT_REGISTRY", <<>>) >>

GuardedWiring ==
  << Align("AGENT_REGISTRY", "factory", "FACTORY"), Align("FACTORY", "agentRegistry", "AGENT_REGISTRY") >>
Wiring ==
  << Set("AGENT_REGISTRY", "factory", "FACTORY"), Set("FACTORY", "agentRegistry", "AGENT_REGISTRY") >>

\* createAccount unless the predicted address has code, 0.05 ETH unless the
\* account has enough, and a deposit that every run repeats.
TestAccount ==
  << Create2("ACCOUNT", <<"FACTORY">>), Ensure("ACCOUNT", "funded", "funded"),
     Set("ACCOUNT", "deposit", "ACCOUNT") >>

-----------------------------------------------------------------------------
(* v0.17.2: the first incremental releases. *)

\* Six addresses of beta.2 are constants of the script; every deployment is
\* retried on the next endpoint, the wiring is sent once.
V0_17_2_beta3 == Script({BLS},
  Waiting("eachRpc", << Deploy(ROUTER, <<>>), Deploy("FORCE_EXIT_MODULE", <<>>), Deploy(SKV, <<>>),
                        Deploy("FACTORY", <<>>), Deploy("AGENT_REGISTRY", <<>>) >>) \o
  << Set(ROUTER, "0x01", BLS), Set(ROUTER, "0x08", SKV), Set(ROUTER, "setupComplete", ROUTER) >> \o Wiring)

V0_17_2_beta4 == Script({},
  << Deploy("IMPL", <<>>), Deploy("FACTORY", <<"IMPL">>), Deploy("DELEGATE", <<>>),
     Deploy("AGENT_REGISTRY", <<>>) >> \o Wiring)

-----------------------------------------------------------------------------
(* v0.18 to v0.20: the whole stack, every address reusable from the        *)
(* environment and every wiring call behind a read.                        *)

\* A change a bug could make: the node is registered without asking whether it is.
FullStackUnguarded == Script({},
  << Reuse(BLS, <<>>), Set(BLS, "node1", BLS), Deploy("IMPL", <<>>) >>)
FullStack == Script({},
  << Reuse(BLS, <<>>), Reuse(ROUTER, <<>>), Reuse("BLS_AGGREGATOR", <<BLS>>), Reuse(SKV, <<>>),
     Reuse("FORCE_EXIT_MODULE", <<>>), Reuse("DELEGATE", <<>>), Reuse("PARSER_REGISTRY", <<>>),
     Reuse("IMPL", <<>>), Reuse("FACTORY", <<"IMPL">>), Reuse("AGENT_REGISTRY", <<>>),
     Claim(ROUTER, "0x01", BLS), Claim(ROUTER, "0x08", SKV),
     Claim("AGENT_REGISTRY", "factory", "FACTORY"), Claim("FACTORY", "agentRegistry", "AGENT_REGISTRY"),
     Ensure(BLS, "node1", "node1"), Ensure(BLS, "node2", "node2"),
     Align(BLS, "aggregator", "BLS_AGGREGATOR") >>)

V0_18 == FullStack
V0_19 == FullStack
V0_20 == FullStack

-----------------------------------------------------------------------------
(* v0.20.1 to v0.33.0: a release takes the singletons of an earlier one    *)
(* and deploys what its account bytecode needs.                            *)

\* The router is given to accounts later, so the implementation takes none.
PatchRelease(version) == Script(Singletons, NewStack(<<>>) \o GuardedWiring \o version)
V0_20_1 == PatchRelease(<<>>)
V0_20_2 == PatchRelease(<<CheckVersion>>)
V0_20_3 == PatchRelease(<<CheckVersion>>)
V0_21_0 == PatchRelease(<<CheckVersion>>)

\* The implementation is bound to the router it validates with.
BoundRelease == Script(Singletons, NewStack(<<ROUTER>>) \o GuardedWiring \o <<CheckVersion>>)
V0_22_0 == BoundRelease
V0_23_0 == BoundRelease
V0_25_0 == BoundRelease
V0_26_0 == BoundRelease

\* A changed session-key validator needs a new router: algorithms are set once.
V0_24_0 == Script({BLS, "BLS_AGGREGATOR", "FORCE_EXIT_MODULE", "DELEGATE", "PARSER_REGISTRY"},
  << Deploy(SKV, <<>>) >> \o NewRouter(BLS) \o NewStack(<<ROUTER>>) \o GuardedWiring \o <<CheckVersion>>)

\* 0x01 becomes the external DVT validator, which must have code.
DvtRelease(libraries) == Script(Peripherals \cup {DVT},
  << Probe(DVT) >> \o libraries \o NewRouter(DVT) \o NewStack(<<ROUTER>>) \o Wiring \o <<CheckVersion>>)
V0_27_0 == DvtRelease(<<>>)
V0_28_0 == DvtRelease(<<>>)
V0_29_0 == DvtRelease(<< Deploy("WEBAUTHN_LIB", <<>>) >>)

\* 0x01 becomes the committee validator, refused below a number of nodes.
CommitteeRelease(nodes) == Script(Peripherals \cup {COMMITTEE},
  << Probe(COMMITTEE), CheckNodes(nodes), Deploy("WEBAUTHN_LIB", <<>>), Deploy("COMMITTEE_BLS_LIB", <<>>) >> \o
  NewRouter(COMMITTEE) \o NewStack(<<ROUTER>>) \o Wiring \o <<CheckVersion>>)
V0_31_0 == CommitteeRelease("atLeast1")
V0_32_0 == CommitteeRelease("atLeast3")
V0_33_0 == CommitteeRelease("atLeast3")

\* OP mainnet: DVT at 0x01, the router handed to the community Safe at the end.
OpMainnetAlpha == Script({DVT},
  << Probe(DVT), Deploy(SKV, <<>>), Deploy(ROUTER, <<>>), Set(ROUTER, "0x01", DVT), Set(ROUTER, "0x08", SKV),
     Set(ROUTER, "setupComplete", ROUTER), Check(ROUTER, "0x01", DVT), Deploy("WEBAUTHN_LIB", <<>>),
     Deploy("IMPL", <<ROUTER>>), Deploy("FACTORY", <<"IMPL">>), Deploy("AGENT_REGISTRY", <<>>) >> \o
  Wiring \o << CheckVersion, Set(ROUTER, "safeOwner", ROUTER), Check(ROUTER, "safeOwner", ROUTER) >>)

\* scripts/finalize-router.ts: close the setup phase of the v0.20.2 router.
FinalizeRouter == Script({BLS, ROUTER, SKV},
  Waiting("lenient", << Ensure(ROUTER, "setupComplete", "setupComplete") >>))

-----------------------------------------------------------------------------
(* Milestones 5 to 7, one script per release candidate. *)

M5    == Script({}, Waiting("lenient", << Deploy("FACTORY", <<>>) >>))
M5Aggregator == Script({BLS},
  Waiting("lenient", << Deploy("BLS_AGGREGATOR", <<BLS>>) >>) \o << Probe("BLS_AGGREGATOR") >>)
M6    == Script({}, Waiting("lenient", << Create2("ACCOUNT", <<>>) >>) \o << Probe("ACCOUNT") >>)
M6_R2 == Script({}, Waiting("lenient", << Deploy("FACTORY", <<>>) >>) \o << Probe("FACTORY") >>)
\* The parser is registered; the optional call of the router names a function
\* it does not have, fails before it is sent and is caught.
M6Validators == Script({}, Waiting("lenient",
  << Deploy(SKV, <<>>), Deploy("PARSER_REGISTRY", <<>>), Deploy("UNISWAP_V3_PARSER", <<>>),
     Set("PARSER_REGISTRY", "uniswapV3", "UNISWAP_V3_PARSER") >>))

M7_R3 == Script({}, << Deploy("COMPOSITE_VALIDATOR", <<>>), Deploy("FACTORY", <<"COMPOSITE_VALIDATOR">>),
                       Probe("FACTORY"), Create2("ACCOUNT", <<"FACTORY">>), Probe("ACCOUNT"),
                       Ensure("ACCOUNT", "funded", "funded"), Set("ACCOUNT", "deposit", "ACCOUNT") >>)

M7Candidate == Script({},
  << Deploy("COMPOSITE_VALIDATOR", <<>>), Deploy("TIER_GUARD_HOOK", <<>>),
     Deploy("AGENT_SESSION_VALIDATOR", <<>>), Deploy("FACTORY", <<"COMPOSITE_VALIDATOR">>),
     Probe("FACTORY") >> \o TestAccount)
M7_R4 == M7Candidate
M7_R5 == M7Candidate
M7_R6 == M7Candidate
M7_R7 == M7Candidate
M7_R8 == M7Candidate
M7_R9 == M7Candidate
M7_R10 == M7Candidate

M7_R10_Factory == Script({"COMPOSITE_VALIDATOR", "TIER_GUARD_HOOK", "AGENT_SESSION_VALIDATOR"},
  Waiting("eachRpc", << Deploy("FACTORY", <<"COMPOSITE_VALIDATOR">>) >>) \o << Probe("FACTORY") >> \o TestAccount)

\* The loop around createAccount keeps the hash of a transaction that reverted.
M7_R11 == Script({"COMPOSITE_VALIDATOR", "TIER_GUARD_HOOK"},
  Waiting("eachRpc", << Deploy("AGENT_SESSION_VALIDATOR", <<>>), Deploy("FACTORY", <<"COMPOSITE_VALIDATOR">>) >>) \o
  << Probe("FACTORY") >> \o
  Waiting("anyHash", << Create2("ACCOUNT", <<"FACTORY">>) >>) \o
  << Ensure("ACCOUNT", "funded", "funded"), Set("ACCOUNT", "deposit", "ACCOUNT") >>)

\* A further account under a factory of the environment.
M7Account == Script({"FACTORY"}, << Create2("ACCOUNT", <<"FACTORY">>), Probe("ACCOUNT") >>)
R10Account == Script({"FACTORY"}, TestAccount)
R11Account == Script({"FACTORY"}, Waiting("eachRpc", TestAccount))
M7AgentRegistry == Script({}, Waiting("eachRpc", << Deploy("AGENT_REGISTRY", <<>>) >>))

-----------------------------------------------------------------------------
(* Other chains, and the operator of the paymaster. *)

\* A factory of the environment that has code is kept, and so is the module.
OpSepolia == Script({}, Waiting("lenient",
  << ReuseWith("FACTORY", "IMPL", <<>>), Reuse("FACTORY", <<"IMPL">>), Reuse("FORCE_EXIT_MODULE", <<>>) >>))
OpMainnet == Script({},
  Waiting("lenient", << Deploy("IMPL", <<>>), Deploy("FACTORY", <<"IMPL">>) >>) \o << CheckArg("FACTORY", "IMPL") >>)

\* One chain of the loop: its addresses are functions of the deployer, the
\* label and the chain, and what has code is not sent again.
Multichain == Script({},
  << Create2("FORCE_EXIT_MODULE", <<>>), Probe("FORCE_EXIT_MODULE"), Create2("IMPL", <<>>), Probe("IMPL"),
     Create2("FACTORY", <<"IMPL">>), Probe("FACTORY") >>)

SetupOperator == Script({"OPERATOR"}, Waiting("lenient",
  << Ensure("OPERATOR", "token", "token"), Ensure("OPERATOR", "stakeApproved", "role"),
     Ensure("OPERATOR", "role", "role"), Ensure("OPERATOR", "configured", "configured"),
     Ensure("OPERATOR", "creditApproved", "credit"), Ensure("OPERATOR", "credit", "credit") >>))
FundAccount == Script({"ACCOUNT"}, Waiting("lenient",
  << Ensure("ACCOUNT", "gtoken", "gtoken"), Ensure("ACCOUNT", "sbt", "sbt"), Ensure("ACCOUNT", "apnts", "apnts") >>))

-----------------------------------------------------------------------------
(* Every script under the name of its release. *)

Plan ==
  [v0172_beta3 |-> V0_17_2_beta3, v0172_beta4 |-> V0_17_2_beta4, v018 |-> V0_18, v019 |-> V0_19, v020 |-> V0_20,
   v0201 |-> V0_20_1, v0202 |-> V0_20_2, v0203 |-> V0_20_3, v0210 |-> V0_21_0, v0220 |-> V0_22_0,
   v0230 |-> V0_23_0, v0240 |-> V0_24_0, v0250 |-> V0_25_0, v0260 |-> V0_26_0, v0270 |-> V0_27_0,
   v0280 |-> V0_28_0, v0290 |-> V0_29_0, v0310 |-> V0_31_0, v0320 |-> V0_32_0, v0330 |-> V0_33_0,
   opMainnetAlpha |-> OpMainnetAlpha, finalizeRouter |-> FinalizeRouter, m5 |-> M5,
   m5Aggregator |-> M5Aggregator, m6 |-> M6, m6r2 |-> M6_R2, m6Validators |-> M6Validators,
   m7r3 |-> M7_R3, m7r4 |-> M7_R4, m7r5 |-> M7_R5, m7r6 |-> M7_R6, m7r7 |-> M7_R7, m7r8 |-> M7_R8,
   m7r9 |-> M7_R9, m7r10 |-> M7_R10, m7r10Factory |-> M7_R10_Factory, m7r11 |-> M7_R11,
   m7Account |-> M7Account, r10Account |-> R10Account, r11Account |-> R11Account,
   m7AgentRegistry |-> M7AgentRegistry, opSepolia |-> OpSepolia, opMainnet |-> OpMainnet,
   multichain |-> Multichain, setupOperator |-> SetupOperator, fundAccount |-> FundAccount]

=============================================================================
