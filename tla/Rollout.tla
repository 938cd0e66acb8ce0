------------------------------- MODULE Rollout -------------------------------
(***************************************************************************)
(* One rollout of a release: an operator starts one of the scripts of      *)
(* ReleasePlans, the script sends its transactions one at a time and waits *)
(* for each, and whatever it printed is pasted into the environment file   *)
(* before the script is started again.                                     *)
(*                                                                         *)
(* Transactions of the deployer are mined in nonce order.  What can go     *)
(* wrong is a transaction that runs out of gas or is dropped, a wait that  *)
(* times out while the transaction is still pending, a script that dies,   *)
(* artifacts of an older build, and an operator who forgets an address.    *)
(* A transaction nobody waits for any more may still be mined later.       *)
(*                                                                         *)
(* Bounds: MaxRuns starts of the script, MaxFaults or MaxFaultsReusing       *)
(* faults.                                                                 *)
(***************************************************************************)
EXTENDS ReleasePlans, FiniteSets

CONSTANTS Rollouts,    \* the scripts to consider, a subset of DOMAIN Plan
          MaxRuns,
          MaxFaults,   \* for a script that starts from nothing every time,
          MaxFaultsReusing,  \* and for one that takes over addresses
          Endpoints    \* how many RPC endpoints a script may try

ASSUME RolloutAssumption ==
  /\ Rollouts \subseteq DOMAIN Plan
  /\ {MaxRuns, MaxFaults, MaxFaultsReusing} \subseteq Nat
  /\ Endpoints \in Nat \ {0}

-----------------------------------------------------------------------------
(* What the strict scripts have in common: they name what exists, create every *)
(* key once, take over keys whose arguments are taken over too, and fill a     *)
(* slot from one source.                                                       *)

\* The keys a script may find in the environment.
TakenOver(s) ==
  {s.steps[i].guard : i \in {j \in DOMAIN s.steps : s.steps[j].op = "deploy"}} \ {"always"}
Creates(step) == step.op \in {"deploy", "create2"}
Reads == {"check", "checkArg", "probe", "version", "nodes"}
SetOnce == {"0x01", "0x08", "factory", "agentRegistry", "node1", "node2", "uniswapV3"}
\* The keys that have an address before the i-th step.
KnownBefore(s, i) ==
  s.inherited \cup {s.steps[j].on : j \in {k \in 1 .. i - 1 : Creates(s.steps[k])}}

StepRecord ==
  [op : STRING, on : STRING, slot : STRING, to : Seq(STRING), guard : STRING, wait : STRING]
IsStrict(s) == \A i \in DOMAIN s.steps : s.steps[i].wait \in {"strict", "eachRpc"}

NamesKnownKeys(s, i) ==
  LET step == s.steps[i] known == KnownBefore(s, i) IN
  /\ step.op \in {"deploy", "create2", "set"} \cup Reads
  /\ \A j \in DOMAIN step.to : step.to[j] \in known
  /\ IF Creates(step) THEN step.on \notin known \cup {"none"} ELSE step.on \in known
  /\ step.op = "version" => step.on = "IMPL"
  /\ step.op = "nodes" => step.guard \in DOMAIN NodesAsked

TakesOverWhole(s, i) ==
  LET step == s.steps[i] IN
  step.op = "deploy" /\ step.guard # "always" =>
    /\ step.guard = step.on
    /\ \A j \in DOMAIN step.to : step.to[j] \in s.inherited \cup TakenOver(s)

FillsFromOneSource(s, i) ==
  LET step == s.steps[i] IN
  step.op = "set" =>
    /\ Len(step.to) = 1 /\ step.on \notin s.inherited
    /\ step.guard \in {"unlessEqual", "unlessSet"} =>
         step.slot \in SetOnce \/ step.to[1] \in {step.on} \cup TakenOver(s)
    /\ step.guard \notin {"always", "unlessEqual", "unlessSet"} =>
         step.guard = step.slot /\ step.to[1] = step.on
    /\ \A j \in DOMAIN s.steps :
         s.steps[j].op = "set" /\ s.steps[j].on = step.on /\ s.steps[j].slot = step.slot
           => s.steps[j].to = step.to

Sound(s) ==
  /\ s.steps \in Seq(StepRecord)
  /\ s.inherited \subseteq STRING \ {"none"} /\ IsFiniteSet(s.inherited)
  /\ \A i \in DOMAIN s.steps :
       NamesKnownKeys(s, i) /\ TakesOverWhole(s, i) /\ FillsFromOneSource(s, i)

\* Plan is a constant: TLC evaluates this for every script there is.
ASSUME PlansAreSound == \A r \in DOMAIN Plan : IsStrict(Plan[r]) => Sound(Plan[r])

-----------------------------------------------------------------------------
VARIABLES
  script,     \* the script, as in Plan
  diligent,   \* does the operator paste every address that was printed?
  artifact,   \* the build the artifacts are of
  nodes,      \* DVT nodes registered with the committee validator
  contracts,  \* address -> what was created there
  link,       \* <<address, slot>> -> the address stored there
  mempool,    \* the deployer's pending transactions, in nonce order
  state, pc, rpc, addr, receipt,  \* the running script
  env,        \* the environment file: key -> address
  published,  \* what the script printed when it was done: key -> address
  runs, faults

AllReleases == DOMAIN Plan

settings == <<script, diligent, artifact, nodes>>
chain    == <<contracts, link, mempool>>
process  == <<state, pc, rpc, addr, receipt>>
operator == <<env, published, runs, faults>>
vars     == <<settings, chain, process, operator>>

-----------------------------------------------------------------------------
(* The chain. *)

None == <<"none", 0>>
\* A map with one entry written.
With(f, x, value) == [y \in DOMAIN f \cup {x} |-> IF y = x THEN value ELSE f[y]]
\* The n-th contract of a key; the 0th is the one an earlier release left, when
\* the script inherits the key.
Fresh(key) == <<key, Cardinality({c \in DOMAIN contracts : c[1] = key})>>
Live(c) == c \in DOMAIN contracts /\ contracts[c].live
Stored(c, slot) == IF <<c, slot>> \in DOMAIN link THEN link[<<c, slot>>] ELSE None
Created(c, args, live) == With(contracts, c, [args |-> args, live |-> live, build |-> artifact])

\* A CREATE2 address is known before anything is there.
Predicted(key, args) ==
  LET same == {c \in DOMAIN contracts : c[1] = key /\ contracts[c].args = args} IN
  IF same = {} THEN Fresh(key) ELSE CHOOSE c \in same : TRUE

\* A balance or a deposit needs no code at the address; a call to an address
\* without code succeeds and does nothing.
Payments == {"funded", "deposit"}
\* Would the contract take the call?  Algorithms are registered only before
\* setup is finalised; a router that was handed over obeys its new owner; the
\* registry and the factory ask for the code of the other.
Accepts(c, slot, value) ==
  \/ slot \in Payments
  \/ ~Live(c)
  \/ /\ slot \in SetOnce => Stored(c, slot) = None
     /\ slot \in {"0x01", "0x08"} => Stored(c, "setupComplete") = None
     /\ c[1] = ROUTER => Stored(c, "safeOwner") = None
     /\ slot \in {"factory", "agentRegistry"} => Live(value)

\* createAccount hands back an account that exists; the CREATE2 deployer reverts.
FromFactory(tx) == tx.at[1] = "ACCOUNT" /\ tx.args # <<>>

-----------------------------------------------------------------------------
(* The script. *)

Steps == script.steps
Now == Steps[pc]
Has(ops) == \E i \in DOMAIN Steps : Steps[i].op \in ops
Running == state = "running" /\ pc \in DOMAIN Steps
At(key) == IF key \in DOMAIN addr THEN addr[key] ELSE None
Given == [i \in DOMAIN Now.to |-> At(Now.to[i])]

\* The keys the script looks up before it deploys.
ReusableKeys == TakenOver(script)

\* A change a bug could make: the block leaves out the implementation.
PrintedWithoutImpl == (ReusableKeys \ {"IMPL"}) \cap DOMAIN addr
Printed == ReusableKeys \cap DOMAIN addr

\* A change a bug could make: any address in a set-once slot will do.
SatisfiedByAnyAddress ==
  CASE Now.op = "deploy"  -> Now.guard # "always" /\ Now.guard \in DOMAIN env /\ Live(env[Now.guard])
    [] Now.op = "create2" -> Live(Predicted(Now.on, Given))
    [] Now.op = "set" /\ Now.guard # "always" -> Stored(At(Now.on), Now.slot) # None
    [] OTHER -> FALSE

\* Nothing to send: the address was given, the code is there, the slot is set.
Satisfied ==
  CASE Now.op = "deploy"  -> Now.guard # "always" /\ Now.guard \in DOMAIN env /\ Live(env[Now.guard])
    [] Now.op = "create2" -> Live(Predicted(Now.on, Given))
    [] Now.op = "set"     -> CASE Now.guard = "always" -> FALSE
                               [] Now.guard \in {"unlessEqual", "unlessSet"} -> Stored(At(Now.on), Now.slot) = Given[1]
                               [] OTHER -> Stored(At(Now.on), Now.guard) # None
    [] OTHER -> FALSE
\* "already set to ...": the script throws instead of sending.
TakenByOther ==
  Now.op = "set" /\ Now.guard = "unlessSet" /\ Stored(At(Now.on), Now.slot) \notin {None, Given[1]}

Agrees ==
  CASE Now.op = "check"    -> Stored(At(Now.on), Now.slot) = Given[1]
    [] Now.op = "checkArg" -> contracts[At(Now.on)].args[1] = Given[1]
    [] Now.op = "probe"    -> Live(At(Now.on))
    [] Now.op = "version"  -> contracts[At(Now.on)].build = "fresh"
    [] Now.op = "nodes"    -> nodes >= NodesAsked[Now.guard]
    [] OTHER -> FALSE

\* The address a skipped step goes on with.
Kept == IF Now.op = "create2" THEN Predicted(Now.on, Given)
        ELSE IF Now.on = Now.guard THEN env[Now.on]
        ELSE contracts[env[Now.guard]].args[1]
Advance(key, address) ==
  /\ state' = "running" /\ pc' = pc + 1 /\ rpc' = 1 /\ receipt' = <<>>
  /\ addr' = IF Steps[pc].op \in {"deploy", "create2"} THEN With(addr, key, address) ELSE addr
Stop(how) == state' = how /\ UNCHANGED <<pc, rpc, addr>> /\ receipt' = <<>>
\* Nobody waits for what is still pending.
Abandoned == [i \in DOMAIN mempool |-> [mempool[i] EXCEPT !.awaited = FALSE]]
Fault ==
  faults < (IF ReusableKeys = {} THEN MaxFaults ELSE MaxFaultsReusing) /\ faults' = faults + 1

\* What a script does not look at has one value.
Init ==
  /\ script \in {Plan[r] : r \in Rollouts}
  /\ diligent \in IF ReusableKeys = {} THEN {TRUE} ELSE BOOLEAN
  /\ artifact \in IF Has({"version"}) THEN {"fresh", "stale"} ELSE {"fresh"}
  /\ nodes \in IF Has({"nodes"}) THEN 0..3 ELSE {3}
  /\ contracts = [c \in {<<k, 0>> : k \in script.inherited} |->
                    [args |-> <<>>, live |-> TRUE, build |-> "fresh"]]
  /\ link = IF {BLS, ROUTER, SKV} \subseteq script.inherited
            THEN With(With(<<>>, <<<<ROUTER, 0>>, "0x01">>, <<BLS, 0>>), <<<<ROUTER, 0>>, "0x08">>, <<SKV, 0>>)
            ELSE <<>>
  /\ mempool = <<>>
  /\ state = "idle" /\ pc = 1 /\ rpc = 1 /\ addr = <<>> /\ receipt = <<>>
  /\ env = [k \in script.inherited |-> <<k, 0>>]
  /\ published = <<>> /\ runs = 0 /\ faults = 0

\* The operator starts the script, with fresh artifacts after the first time,
\* and with what earlier runs printed: all of it, or all but one address, or
\* none.  Told that nodes are missing he waits until they are registered.
Start(forgotten) ==
  /\ state \in {"idle", "failed", "refused"} /\ runs < MaxRuns
  /\ state = "refused" => nodes = 3
  /\ env' = [k \in DOMAIN env \cup (Printed \ forgotten) |->
               IF k \in Printed \ forgotten THEN addr[k] ELSE env[k]]
  /\ addr' = [k \in script.inherited |-> <<k, 0>>]
  /\ artifact' = IF runs = 0 THEN artifact ELSE "fresh"
  /\ runs' = runs + 1
  /\ state' = "running" /\ pc' = 1 /\ rpc' = 1 /\ receipt' = <<>>
  /\ UNCHANGED <<script, diligent, nodes, chain, published, faults>>

Read ==
  /\ Running /\ Now.op \in Reads
  /\ IF Agrees THEN Advance(Now.on, At(Now.on))
     ELSE Stop(IF Now.op = "nodes" THEN "refused" ELSE "failed")
  /\ UNCHANGED <<settings, chain, operator>>

\* The retry around createAccount does not look for the code again.
Skip ==
  /\ Running /\ Satisfied /\ (rpc = 1 \/ Now.op = "set")
  /\ Advance(Now.on, IF Now.op = "set" THEN None ELSE Kept)
  /\ UNCHANGED <<settings, chain, operator>>

Refuse ==
  /\ Running /\ TakenByOther
  /\ Stop("failed")
  /\ UNCHANGED <<settings, chain, operator>>

Send ==
  /\ Running /\ Now.op \notin Reads /\ ~TakenByOther
  /\ Satisfied => rpc > 1 /\ Now.op # "set"
  /\ LET at == CASE Now.op = "deploy" -> <<Now.on, 0>>
                 [] Now.op = "create2" -> Predicted(Now.on, Given)
                 [] OTHER -> At(Now.on) IN
     /\ mempool' = Append(mempool, [op |-> Now.op, at |-> at, slot |-> Now.slot, args |-> Given, awaited |-> TRUE])
     /\ contracts' = IF Now.op = "create2" /\ at \notin DOMAIN contracts
                     THEN Created(at, Given, FALSE) ELSE contracts
  /\ state' = "waiting"
  /\ UNCHANGED <<settings, link, pc, rpc, addr, receipt, operator>>

\* The oldest transaction is mined; "gas" says whether its limit was enough.
\* The receipt of a creation names the address even when it failed.
Mine(gas) ==
  /\ mempool # <<>>
  /\ IF gas THEN UNCHANGED faults ELSE Fault
  /\ LET tx == Head(mempool)
         at == IF tx.op = "deploy" THEN Fresh(tx.at[1]) ELSE tx.at
         ok == gas /\ CASE tx.op = "deploy"  -> TRUE
                        [] tx.op = "create2" -> FromFactory(tx) \/ ~Live(at)
                        [] OTHER -> Accepts(at, tx.slot, tx.args[1]) IN
     /\ contracts' = CASE tx.op = "deploy" -> Created(at, tx.args, ok)
                       [] tx.op = "create2" /\ ok -> [contracts EXCEPT ![at].live = TRUE]
                       [] OTHER -> contracts
     /\ link' = IF tx.op = "set" /\ ok /\ (Live(at) \/ tx.slot \in Payments)
                THEN With(link, <<at, tx.slot>>, tx.args[1]) ELSE link
     /\ receipt' = IF tx.awaited THEN <<[ok |-> ok, at |-> at]>> ELSE receipt
  /\ mempool' = Tail(mempool)
  /\ UNCHANGED <<settings, state, pc, rpc, addr, env, published, runs>>

\* The newest transaction is lost; its nonce is used again.
Drop ==
  /\ mempool # <<>> /\ Fault
  /\ mempool' = SubSeq(mempool, 1, Len(mempool) - 1)
  /\ UNCHANGED <<settings, contracts, link, process, env, published, runs>>

\* The attempt failed: try the next endpoint, or give up; the retry loop of
\* "anyHash" ends without an error.
NextEndpoint ==
  IF Now.wait \in {"eachRpc", "anyHash"} /\ rpc < Endpoints
  THEN state' = "running" /\ rpc' = rpc + 1 /\ receipt' = <<>> /\ UNCHANGED <<pc, addr>>
  ELSE IF Now.wait = "anyHash" THEN Advance(Now.on, Predicted(Now.on, Given)) ELSE Stop("failed")

\* A change a bug could make: a revert is taken for a success.
ObserveAnyStatus ==
  /\ state = "waiting" /\ receipt # <<>>
  /\ Advance(Now.on, receipt[1].at)
  /\ UNCHANGED <<settings, chain, operator>>
Observe ==
  /\ state = "waiting" /\ receipt # <<>>
  /\ IF receipt[1].ok \/ Now.wait = "lenient" THEN Advance(Now.on, receipt[1].at) ELSE NextEndpoint
  /\ UNCHANGED <<settings, chain, operator>>

Lost == ~\E i \in DOMAIN mempool : mempool[i].awaited
TimeOut ==
  /\ state = "waiting" /\ receipt = <<>>
  /\ IF Lost THEN UNCHANGED faults ELSE Fault
  /\ mempool' = Abandoned
  /\ NextEndpoint
  /\ UNCHANGED <<settings, contracts, link, env, published, runs>>

Crash ==
  /\ state \in {"running", "waiting"} /\ Fault
  /\ Stop("failed") /\ mempool' = Abandoned
  /\ UNCHANGED <<settings, contracts, link, env, published, runs>>

\* The block of addresses that becomes the next release's environment.
Finish ==
  /\ state = "running" /\ pc = Len(Steps) + 1
  /\ Stop("done") /\ published' = addr
  /\ UNCHANGED <<settings, chain, env, runs, faults>>

\* A DVT operator registers another node.
RegisterNode ==
  /\ nodes < 3 /\ nodes' = nodes + 1
  /\ UNCHANGED <<script, diligent, artifact, chain, process, operator>>

Restart ==
  \E forgotten \in {{}} \cup (IF diligent THEN {} ELSE {{k} : k \in Printed} \cup {Printed}) : Start(forgotten)
Next ==
  \/ Restart \/ Read \/ Skip \/ Refuse \/ Send \/ Observe \/ TimeOut \/ Crash \/ Finish
  \/ (\E gas \in BOOLEAN : Mine(gas)) \/ Drop \/ RegisterNode

\* A script is never left standing, pending transactions are mined, the operator
\* tries again, and the nodes come.
Fairness ==
  /\ WF_vars(Restart) /\ WF_vars(Read) /\ WF_vars(Skip) /\ WF_vars(Refuse) /\ WF_vars(Send)
  /\ WF_vars(Observe) /\ WF_vars(TimeOut) /\ WF_vars(Finish) /\ WF_vars(Mine(TRUE)) /\ WF_vars(RegisterNode)
Spec == Init /\ [][Next]_vars /\ Fairness

-----------------------------------------------------------------------------
(* Properties *)

\* The scripts that check every receipt.
Strict == IsStrict(script)
Published(key) == published[key]

\* PublishedAsVerified: what a strict script prints when it is done exists, is of
\* the build it asked for (assertVersion: deploy-v0.22.0.ts, "forge build
\* first"), and validates with a committee that has the nodes it asked for,
\* after any mixture of failed runs, addresses taken over from them, and
\* transactions mined after the script stopped waiting.
PublishedAsVerified ==
  published # <<>> /\ Strict =>
    /\ \A k \in DOMAIN published : Live(Published(k))
    /\ Has({"version"}) => contracts[Published("IMPL")].build = "fresh"
    /\ \A i \in DOMAIN Steps : Steps[i].op = "nodes" => nodes >= NodesAsked[Steps[i].guard]

\* ReleasesAreWired: in the printed block every slot a strict script sets holds
\* the printed address (the set-once wiring of the router, the registry and the
\* factory), even when the operator forgot to paste one of the addresses and
\* the script met the contracts of an earlier run.
ReleasesAreWired ==
  published # <<>> /\ Strict =>
    \A i \in DOMAIN Steps : Steps[i].op = "set" =>
      Stored(Published(Steps[i].on), Steps[i].slot) = Published(Steps[i].to[1])

\* BuiltFromThePublished: a printed contract was constructed with the printed
\* addresses (the factory with the implementation, the implementation with the
\* router, the aggregator with the algorithm), provided the operator pasted
\* every address: a reused contract is not asked what it was built with.
BuiltFromThePublished ==
  published # <<>> /\ Strict /\ diligent =>
    \A i \in DOMAIN Steps : Steps[i].op \in {"deploy", "create2"} =>
      contracts[Published(Steps[i].on)].args =
        [j \in DOMAIN Steps[i].to |-> Published(Steps[i].to[j])]

\* ShipsEventually: an operator who pastes what was printed and tries again does
\* ship: no fault leaves the chain in a state that every later run refuses.
ShipsEventually == diligent ~> published # <<>>

=============================================================================
