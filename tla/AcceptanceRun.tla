---------------------------- MODULE AcceptanceRun ----------------------------
(***************************************************************************)
(* Runs of one of the scripts of AcceptanceTests against the chain: the    *)
(* script takes its steps, a step that does not come out as expected ends  *)
(* its case, the script counts it or stops, and its exit code is the       *)
(* verdict on the release.  It is started as often as anyone likes.        *)
(*                                                                         *)
(* Either nothing is wrong with the release and a call to the RPC fails, a *)
(* wait runs out while the transaction or the UserOperation is pending, or *)
(* the script is interrupted; or one fact the script is about is missing   *)
(* from the release.  What is pending lands at any later time or is lost.  *)
(*                                                                         *)
(* Bound: MaxFaults faults; the starts of the script are not bounded.      *)
(***************************************************************************)
EXTENDS AcceptanceSteps

CONSTANTS Tests,     \* the scripts to consider, a subset of DOMAIN AcceptanceTest
          MaxFaults

ASSUME AcceptanceAssumption == Tests \subseteq DOMAIN AcceptanceTest /\ MaxFaults \in Nat

VARIABLES
  script,    \* the script, as in AcceptanceTest
  missing,   \* the fact the release lacks, or <<>>
  facts,     \* the chain
  pending,   \* operations that were sent and not seen to land
  state, case, step,  \* the running script
  bad,       \* was a failure counted?
  unmet,     \* history: did an asserted step not come out as it should?
  disturbed, \* history: a fault in this run, or something pending at its start
  faults

release == <<script, missing>>
verdict == <<bad, unmet, disturbed>>
vars    == <<release, facts, pending, state, case, step, verdict, faults>>

AllTests == DOMAIN AcceptanceTest

-----------------------------------------------------------------------------
(* The script. *)

Plot == script.cases
Now == StepAt(script, case, step)
Running == state = "running" /\ case \in DOMAIN Plot
Asserted == Asserts(Plot[case], Now)

Init ==
  /\ script \in {AcceptanceTest[n] : n \in Tests}
  /\ missing \in {<<>>} \cup Withheld(script)
  /\ facts = Found(script, missing)
  /\ pending = {} /\ state = "idle" /\ case = 1 /\ step = 1
  /\ bad = FALSE /\ unmet = FALSE /\ disturbed = FALSE /\ faults = 0

\* A change a bug could make: the salts and keys of every run are the same.
StartWithFixedSalts ==
  /\ state # "running"
  /\ disturbed' = (pending # {})
  /\ state' = "running" /\ case' = 1 /\ step' = 1 /\ bad' = FALSE /\ unmet' = FALSE
  /\ UNCHANGED <<release, facts, pending, faults>>
\* Every run chooses new salts and keys; what was sent for the old ones is of no
\* concern any more.
Start ==
  /\ state # "running"
  /\ facts' = {f \in facts : ~Stale(script, f)}
  /\ pending' = {op \in pending : ~\E f \in op.adds \cup op.cuts : Stale(script, f)}
  /\ disturbed' = (pending' # {})
  /\ state' = "running" /\ case' = 1 /\ step' = 1 /\ bad' = FALSE /\ unmet' = FALSE
  /\ UNCHANGED <<release, faults>>

NextCase == case' = case + 1 /\ step' = 1 /\ state' = state
\* A change a bug could make: a counted failure is forgotten by the next case.
EndCaseUncounted(how) ==
  IF how = "stop" THEN state' = "red" /\ case' = 1 /\ step' = 1 /\ bad' = FALSE ELSE NextCase /\ bad' = bad

\* The script goes on with its next step, or case.
Advance ==
  IF step < Len(Plot[case].steps) THEN step' = step + 1 /\ UNCHANGED <<state, case>> ELSE NextCase
EndCase(how) ==
  CASE how = "stop"  -> state' = "red" /\ case' = 1 /\ step' = 1 /\ bad' = FALSE
    [] how = "count" -> NextCase /\ bad' = TRUE
    [] OTHER         -> NextCase /\ bad' = bad
Fault == missing = <<>> /\ faults < MaxFaults /\ faults' = faults + 1 /\ disturbed' = TRUE

Skip == Running /\ Skipped(facts, Now) /\ Advance /\ UNCHANGED <<release, facts, pending, verdict, faults>>

Pass ==
  /\ Running /\ ~Skipped(facts, Now) /\ Passes(facts, Now)
  /\ facts' = Leaving(facts, Now)
  /\ unmet' = (unmet \/ (Asserted /\ ~Met(facts, Now)))
  /\ Advance
  /\ UNCHANGED <<release, pending, bad, disturbed, faults>>

Fail ==
  /\ Running /\ ~Skipped(facts, Now) /\ ~Passes(facts, Now)
  /\ unmet' = (unmet \/ Asserted)
  /\ EndCase(IF Erroneous(facts, Now) THEN Plot[case].onError ELSE Plot[case].onFail)
  /\ UNCHANGED <<release, facts, pending, disturbed, faults>>

\* The refusal came, with an error the script does not accept.
Whim ==
  /\ Running /\ ~Skipped(facts, Now) /\ Now.whim /\ Met(facts, Now)
  /\ unmet' = (unmet \/ Asserted)
  /\ EndCase(Plot[case].onFail)
  /\ UNCHANGED <<release, facts, pending, disturbed, faults>>

\* Where any error is a refusal, one of the RPC is, too.
RpcError ==
  /\ Running /\ ~Skipped(facts, Now) /\ Fault
  /\ unmet' = (unmet \/ Asserted)
  /\ IF Now.kind \in {"refuse", "reject"} /\ ~Now.exact THEN Advance /\ bad' = bad
     ELSE EndCase(Plot[case].onError)
  /\ UNCHANGED <<release, facts, pending>>

Late ==
  /\ Running /\ ~Skipped(facts, Now) /\ Sends(Now) /\ Succeeds(facts, Now.op) /\ Fault
  /\ pending' = pending \cup {Now.op}
  /\ unmet' = (unmet \/ Asserted)
  /\ IF Now.late = "passes" THEN Advance /\ bad' = bad ELSE EndCase(Plot[case].onError)
  /\ UNCHANGED <<release, facts>>

Interrupt ==
  /\ Running /\ Fault
  /\ state' = "idle" /\ case' = 1 /\ step' = 1 /\ bad' = FALSE /\ unmet' = FALSE
  /\ UNCHANGED <<release, facts, pending>>

Finish ==
  /\ state = "running" /\ case = Len(Plot) + 1
  /\ state' = IF bad THEN "red" ELSE "green"
  /\ UNCHANGED <<release, facts, pending, case, step, verdict, faults>>

Land(op) ==
  /\ facts' = After(facts, op) /\ pending' = pending \ {op}
  /\ UNCHANGED <<release, state, case, step, verdict, faults>>
Lose(op) ==
  /\ pending' = pending \ {op}
  /\ UNCHANGED <<release, facts, state, case, step, verdict, faults>>
Settle == \E op \in pending : Land(op) \/ Lose(op)

Next ==
  \/ Start \/ Skip \/ Pass \/ Fail \/ Whim \/ RpcError \/ Late \/ Interrupt \/ Finish
  \/ \E op \in pending : Land(op)
  \/ \E op \in pending : Lose(op)

\* A script does not stand still, nothing is pending for ever, and a red script
\* is started again.
Fairness ==
  /\ WF_vars(Start) /\ WF_vars(Skip) /\ WF_vars(Pass) /\ WF_vars(Fail) /\ WF_vars(Finish) /\ WF_vars(Settle)
Spec == Init /\ [][Next]_vars /\ Fairness

-----------------------------------------------------------------------------
(* Properties *)

\* CleanRunsAreGreen: a run that meets a complete release, no fault and nothing
\* pending is green, whatever earlier runs left on the chain: accounts at fixed
\* addresses, enrolments, sessions, recoveries, half of a module installation.
CleanRunsAreGreen == state = "red" /\ missing = <<>> /\ Steady(script) => disturbed

\* GreenIsEarned: a script is green only when every step it asserts came out as it
\* should in that run: a counted failure reaches the exit code, and no error or
\* late transaction is taken for success (runTests, common.ts:183-213).
GreenIsEarned == state = "green" => ~unmet

\* AcceptedReleasesWork: a release that lacks a contract, a wiring or a check
\* which a script asserts is never accepted by it, although calls to an address
\* without code succeed and some refusals accept any error.
AcceptedReleasesWork == missing \in About(script, Asserts) => state # "green"

\* EventuallyGreen: a steady script on a complete release becomes green: no fault
\* leaves the chain in a state that every later run stumbles over.
EventuallyGreen == missing = <<>> /\ Steady(script) ~> state = "green"

\* TestsCanFail: a test that demands a certain refusal is red when the contract
\* does not refuse ("expected revert (HIGH-3 fix should make aggregator reject
\* empty userOps[0].signature)", 02-security-fixes.ts:152).
Demanded == UNION {s.facts : s \in {t \in StepsOf(Plot) : t.kind = "refuse" /\ t.exact}}
TestsCanFail == missing \in Demanded => state # "green"

=============================================================================
