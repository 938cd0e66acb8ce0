--------------------------- MODULE AcceptanceTheorems ---------------------------
(***************************************************************************)
(* Proofs about AcceptanceRun, for every set of the scripts there are, for *)
(* any number of starts and of faults: what a verdict is worth.            *)
(***************************************************************************)
EXTENDS AcceptanceRun, TLAPS

-----------------------------------------------------------------------------
(* The invariant. *)

\* The script is at one of its steps, or past the last one.
AtAPlace(c, s) ==
  \/ c \in DOMAIN Plot /\ s \in DOMAIN Plot[c].steps
  \/ c = Len(Plot) + 1 /\ s = 1

TypeInv ==
  /\ script \in {AcceptanceTest[n] : n \in Tests}
  /\ missing \in {<<>>} \cup Withheld(script)
  /\ pending \subseteq OpsOf(script)
  /\ state \in {"idle", "running", "green", "red"}
  /\ bad \in BOOLEAN /\ unmet \in BOOLEAN /\ disturbed \in BOOLEAN
  /\ AtAPlace(case, step)

\* What nothing makes hold does not hold, what nothing takes away does.
ReleaseLasts ==
  \A f : /\ Never(script, missing, f)  => f \notin facts
         /\ Always(script, missing, f) => f \in facts

\* Steps the script has left behind.
Past(i, j, c, s) == i < c \/ (i = c /\ j < s)
At(i, j) == StepAt(script, i, j)

\* Nothing has been counted in a run that goes on.
Unblamed == state = "running" /\ ~bad

\* A step that the script left behind and whose failure counts, and which ensures
\* that an address has code, did.
CodeStands ==
  Unblamed =>
    \A i \in DOMAIN Plot : \A j \in DOMAIN Plot[i].steps : \A u \in StepsOf(Plot) :
      Past(i, j, case, step) /\ Judges(Plot[i]) /\ Ensures(script, missing, At(i, j), u.op.target)
        => u.op.target \in facts

\* A transaction that did nothing and passed is found out by a step to come.
UnmetIsFoundOut ==
  Unblamed /\ unmet =>
    \E i \in DOMAIN Plot : \E j \in DOMAIN Plot[i].steps :
      ~Past(i, j, case, step) /\ Judges(Plot[i]) /\ Fails(script, missing, At(i, j))

\* A step that asserts what the release lacks is still to come, or did not come
\* out as it should.
LackIsAhead ==
  Unblamed /\ ~unmet =>
    \A i \in DOMAIN Plot : \A j \in DOMAIN Plot[i].steps :
      Asserts(Plot[i], At(i, j)) /\ Doomed(script, missing, At(i, j)) => ~Past(i, j, case, step)

-----------------------------------------------------------------------------
(* The invariant of runs that nothing disturbs. *)

Kept(all) == {f \in all : ~Stale(script, f)}

\* What a run finds, it finds again; nothing is counted, nothing stays pending, and
\* the chain is what the plan says it is before this step.
RunsItsCourse ==
  missing = <<>> /\ Steady(script) =>
    /\ Kept(facts) \in Finds(script)
    /\ ~disturbed =>
         /\ state # "red"
         /\ state = "running" =>
              /\ ~bad /\ pending = {}
              /\ case \in DOMAIN Plot =>
                   \E all \in Finds(script) : facts = Course(script, all)[<<case, step>>]

-----------------------------------------------------------------------------
(* What the plans are known to be. *)

\* Every script there is has been evaluated.
LEMMA ScriptIsSound ==
  ASSUME TypeInv
  PROVE  /\ WellFormed(script) /\ CodeIsNoticed(script) /\ LackIsNoticed(script)
         /\ Steady(script) => RunsThrough(script)
BY AcceptanceAssumption, PlansAreWellFormed, PlansNoticeCode, PlansNoticeLacks, PlansRunThrough
   DEF TypeInv

\* The places of a script are numbered from 1.
LEMMA Places ==
  ASSUME TypeInv
  PROVE  /\ Len(Plot) \in Nat /\ DOMAIN Plot = 1 .. Len(Plot) /\ Len(Plot) > 0
         /\ \A i \in DOMAIN Plot : /\ Len(Plot[i].steps) \in Nat
                                   /\ DOMAIN Plot[i].steps = 1 .. Len(Plot[i].steps)
                                   /\ Len(Plot[i].steps) > 0
BY ScriptIsSound DEF WellFormed, Plot

\* A case says of a failure and of an error what comes of it; where failures count,
\* errors do.
LEMMA Verdicts ==
  ASSUME TypeInv, NEW i \in DOMAIN Plot
  PROVE  /\ Plot[i].onFail \in {"stop", "count", "pass"}
         /\ Plot[i].onError \in {"stop", "count", "pass"}
         /\ Judges(Plot[i]) => Plot[i].onError # "pass"
BY ScriptIsSound DEF WellFormed, Plot

\* What each place of a script holds is one of its steps.
LEMMA StepsAreSteps ==
  ASSUME NEW i \in DOMAIN Plot, NEW j \in DOMAIN Plot[i].steps
  PROVE  At(i, j) \in StepsOf(Plot) /\ At(i, j).op \in OpsOf(script)
BY DEF At, StepAt, StepsOf, OpsOf, Plot

\* The kinds of steps, the outcomes that are not compared, and the contracts that
\* are not destroyed.
LEMMA StepShape ==
  ASSUME TypeInv, NEW s \in StepsOf(Plot)
  PROVE  /\ s.kind \in {"do", "make", "see", "seeNot", "refuse", "reject", "reverts"}
         /\ s.late = "passes" => s.kind = "do" /\ ~s.exact
         /\ s.kind = "reject" => ~s.exact
         /\ \A op \in OpsOf(script) : s.op.target \notin op.cuts
BY ScriptIsSound DEF WellFormed, Plot

-----------------------------------------------------------------------------
(* What an operation leaves. *)

\* An operation takes away and adds what it says, if m holds or it does without.
LEMMA AfterOp ==
  ASSUME NEW t, NEW m, NEW all, NEW op \in OpsOf(t), m \notin all
  PROVE  \/ After(all, op) = all
         \/ op \in OpsWithout(t, m) /\ After(all, op) = (all \ op.cuts) \cup op.adds
BY DEF After, Codeless, Violated, OpsWithout

\* What nothing makes hold without m still does not, what nothing takes away does.
LEMMA LastsAfterOp ==
  ASSUME NEW t, NEW m, NEW all, NEW op \in OpsOf(t), m \notin all, NEW f
  PROVE  /\ Never(t, m, f) /\ f \notin all => f \notin After(all, op)
         /\ Always(t, m, f) /\ f \in all   => f \in After(all, op)
BY AfterOp DEF Never, Always

\* The release lacks what it lacks.
LEMMA LackLasts ==
  ASSUME TypeInv, ReleaseLasts
  PROVE  missing \notin facts
BY ScriptIsSound DEF TypeInv, ReleaseLasts, LackIsNoticed

\* A contract that stands survives every operation.
LEMMA CodeSurvives ==
  ASSUME TypeInv, NEW op \in OpsOf(script), NEW s \in StepsOf(Plot), NEW all, s.op.target \in all
  PROVE  s.op.target \in After(all, op)
BY StepShape DEF After

-----------------------------------------------------------------------------
(* The kinds of steps a script takes. *)

\* The outcome is counted, or ends the script.
Blamed == state' = "red" \/ bad'
\* The case ends, and nobody cares.
WavedThrough ==
  /\ ~Judges(Plot[case]) /\ NextCase
  /\ bad' = bad /\ unmet' = unmet /\ facts' = facts
\* The step is not for this run, comes out as it should or is taken for it, or is
\* one whose outcome is not compared.
PassedOver == Skipped(facts, Now) /\ Advance /\ bad' = bad /\ unmet' = unmet /\ facts' = facts
TakenForMet ==
  /\ ~Skipped(facts, Now) /\ Passes(facts, Now) /\ Advance
  /\ bad' = bad /\ facts' = Leaving(facts, Now)
  /\ unmet' = (unmet \/ (Asserted /\ ~Met(facts, Now)))
TakenLightly ==
  /\ ~Skipped(facts, Now) /\ ~Now.exact /\ Advance
  /\ Now.kind \in {"refuse", "reject"} \/ (Now.kind = "do" /\ Succeeds(facts, Now.op))
  /\ bad' = bad /\ unmet' = unmet /\ facts' = facts

ScriptStep == Skip \/ Pass \/ Fail \/ Whim \/ RpcError \/ Late

\* A case that ends counts, or is one where nothing does.
LEMMA CasesEnd ==
  ASSUME TypeInv, NEW how \in {"stop", "count", "pass"}, EndCase(how)
  PROVE  \/ Blamed
         \/ how = "pass" /\ NextCase /\ bad' = bad
BY DEF EndCase, Blamed

\* While a script runs it is at one of its steps.
LEMMA NowIsAStep ==
  ASSUME TypeInv, Running
  PROVE  /\ case \in DOMAIN Plot /\ step \in DOMAIN Plot[case].steps
         /\ Now = At(case, step) /\ Now \in StepsOf(Plot) /\ Now.op \in OpsOf(script)
<1>1. case \in DOMAIN Plot /\ case # Len(Plot) + 1 BY Places DEF Running
<1>2. step \in DOMAIN Plot[case].steps BY <1>1 DEF TypeInv, AtAPlace
<1> QED BY <1>1, <1>2, StepsAreSteps DEF Now, At

\* All but the first count nothing.
LEMMA UnblamedSteps == WavedThrough \/ PassedOver \/ TakenForMet \/ TakenLightly => bad' = bad
BY DEF WavedThrough, PassedOver, TakenForMet, TakenLightly

\* Every step of a script is of one of these kinds.
LEMMA ScriptStepKinds ==
  ASSUME TypeInv, ScriptStep
  PROVE  /\ Running /\ UNCHANGED release
         /\ Blamed \/ WavedThrough \/ PassedOver \/ TakenForMet \/ TakenLightly
<1>1. Running BY DEF ScriptStep, Skip, Pass, Fail, Whim, RpcError, Late
<1>2. UNCHANGED release BY DEF ScriptStep, Skip, Pass, Fail, Whim, RpcError, Late
<1> DEFINE c == Plot[case]
<1>3. /\ c.onFail \in {"stop", "count", "pass"} /\ c.onError \in {"stop", "count", "pass"}
      /\ c.onError = "pass" => ~Judges(c)
      /\ c.onFail = "pass" => ~Judges(c) /\ ~Asserted
  BY <1>1, NowIsAStep, Verdicts DEF Judges, Asserted, Asserts
<1>4. ~Judges(c) => ~Asserted BY DEF Judges, Asserted, Asserts
<1>5. /\ Now.late = "passes" => Now.kind = "do" /\ ~Now.exact
      /\ ~Now.exact => ~Asserted
  BY <1>1, NowIsAStep, StepShape DEF Asserted, Asserts
<1>6. TypeInv => bad \in BOOLEAN /\ unmet \in BOOLEAN BY DEF TypeInv
<1> HIDE DEF c
<1>7. ASSUME Skip PROVE PassedOver
  BY <1>7 DEF Skip, PassedOver, verdict
<1>8. ASSUME Pass PROVE TakenForMet
  BY <1>8 DEF Pass, TakenForMet
<1>9. ASSUME Fail PROVE Blamed \/ WavedThrough
  <2>1. PICK how \in {c.onFail, c.onError} :
          /\ EndCase(how) /\ facts' = facts /\ unmet' = (unmet \/ Asserted)
    BY <1>9 DEF Fail, c
  <2>2. Blamed \/ (how = "pass" /\ NextCase /\ bad' = bad) BY <2>1, <1>3, CasesEnd
  <2>3. ASSUME how = "pass" PROVE ~Judges(c) BY <2>1, <2>3, <1>3
  <2> QED BY <2>1, <2>2, <2>3, <1>4, <1>6 DEF WavedThrough, c
<1>10. ASSUME Whim PROVE Blamed \/ WavedThrough
  <2>1. EndCase(c.onFail) /\ facts' = facts /\ unmet' = (unmet \/ Asserted)
    BY <1>10 DEF Whim, c
  <2>2. Blamed \/ (c.onFail = "pass" /\ NextCase /\ bad' = bad) BY <2>1, <1>3, CasesEnd
  <2> QED BY <2>1, <2>2, <1>3, <1>6 DEF WavedThrough, c
<1>11. ASSUME RpcError PROVE Blamed \/ WavedThrough \/ TakenLightly
  <2>1. ~Skipped(facts, Now) /\ facts' = facts /\ unmet' = (unmet \/ Asserted)
    BY <1>11 DEF RpcError
  <2>2. ASSUME Now.kind \in {"refuse", "reject"} /\ ~Now.exact PROVE TakenLightly
    BY <1>11, <2>1, <2>2, <1>5, <1>6 DEF RpcError, TakenLightly
  <2>3. ASSUME EndCase(c.onError) PROVE Blamed \/ WavedThrough
    <3>1. Blamed \/ (c.onError = "pass" /\ NextCase /\ bad' = bad) BY <2>3, <1>3, CasesEnd
    <3> QED BY <2>1, <3>1, <1>3, <1>4, <1>6 DEF WavedThrough, c
  <2> QED BY <1>11, <2>2, <2>3 DEF RpcError, c
<1>12. ASSUME Late PROVE Blamed \/ WavedThrough \/ TakenLightly
  <2>1. /\ ~Skipped(facts, Now) /\ facts' = facts /\ unmet' = (unmet \/ Asserted)
        /\ Succeeds(facts, Now.op)
    BY <1>12 DEF Late
  <2>2. ASSUME Now.late = "passes" PROVE TakenLightly
    BY <1>12, <2>1, <2>2, <1>5, <1>6 DEF Late, TakenLightly
  <2>3. ASSUME EndCase(c.onError) PROVE Blamed \/ WavedThrough
    <3>1. Blamed \/ (c.onError = "pass" /\ NextCase /\ bad' = bad) BY <2>3, <1>3, CasesEnd
    <3> QED BY <2>1, <3>1, <1>3, <1>4, <1>6 DEF WavedThrough, c
  <2> QED BY <1>12, <2>2, <2>3 DEF Late, c
<1> QED BY <1>1, <1>2, <1>7, <1>8, <1>9, <1>10, <1>11, <1>12 DEF ScriptStep

-----------------------------------------------------------------------------
(* Places. *)

\* The place after a step is the next step, or the first of the next case.
LEMMA AdvanceMoves ==
  ASSUME TypeInv, Running, Advance
  PROVE  /\ state' = state /\ AtAPlace(case', step')
         /\ \A i \in DOMAIN Plot : \A j \in DOMAIN Plot[i].steps :
              Past(i, j, case', step') <=> Past(i, j, case, step) \/ (i = case /\ j = step)
<1>1. /\ case \in 1 .. Len(Plot) /\ step \in 1 .. Len(Plot[case].steps)
      /\ Len(Plot) \in Nat /\ Len(Plot[case].steps) \in Nat
  BY NowIsAStep, Places
<1>2. CASE step < Len(Plot[case].steps)
  <2>1. step' = step + 1 /\ state' = state /\ case' = case BY <1>2 DEF Advance
  <2>2. AtAPlace(case', step') BY <1>1, <1>2, <2>1, Places DEF AtAPlace
  <2> QED BY <1>1, <2>1, <2>2, Places DEF Past
<1>3. CASE ~(step < Len(Plot[case].steps))
  <2>1. case' = case + 1 /\ step' = 1 /\ state' = state BY <1>3 DEF Advance, NextCase
  <2>2. AtAPlace(case', step') BY <1>1, <2>1, Places DEF AtAPlace
  <2>3. step = Len(Plot[case].steps) BY <1>1, <1>3
  <2> QED BY <1>1, <2>1, <2>2, <2>3, Places DEF Past
<1> QED BY <1>2, <1>3

\* The next case leaves behind the rest of the one that ends.
LEMMA NextCaseMoves ==
  ASSUME TypeInv, Running, NextCase
  PROVE  /\ state' = state /\ AtAPlace(case', step')
         /\ \A i \in DOMAIN Plot : \A j \in DOMAIN Plot[i].steps :
              Past(i, j, case', step') <=> Past(i, j, case, step) \/ i = case
<1>1. /\ case \in 1 .. Len(Plot) /\ step \in 1 .. Len(Plot[case].steps)
      /\ Len(Plot) \in Nat /\ Len(Plot[case].steps) \in Nat
  BY NowIsAStep, Places
<1>2. case' = case + 1 /\ step' = 1 /\ state' = state BY DEF NextCase
<1>3. AtAPlace(case', step') BY <1>1, <1>2, Places DEF AtAPlace
<1> QED BY <1>1, <1>2, <1>3, Places DEF Past

\* At its start a script has nothing behind it, at its end everything.
LEMMA Ends ==
  ASSUME TypeInv, NEW i \in DOMAIN Plot, NEW j \in DOMAIN Plot[i].steps
  PROVE  /\ ~Past(i, j, 1, 1)
         /\ Past(i, j, Len(Plot) + 1, 1)
         /\ AtAPlace(1, 1)
BY Places DEF Past, AtAPlace

\* The first step is one.
LEMMA StartIsAPlace ==
  ASSUME TypeInv
  PROVE  AtAPlace(1, 1)
BY Places DEF AtAPlace

-----------------------------------------------------------------------------
(* Types. *)

\* A script starts at its first step.
LEMMA InitTypes == Init => TypeInv
<1> SUFFICES ASSUME Init PROVE TypeInv
  OBVIOUS
<1>1. WellFormed(script) BY AcceptanceAssumption, PlansAreWellFormed DEF Init
<1>2. AtAPlace(case, step) BY <1>1 DEF Init, WellFormed, AtAPlace, Plot
<1> QED BY <1>2 DEF Init, TypeInv

\* Every step keeps the types.
LEMMA StepTypes ==
  ASSUME TypeInv, [Next]_vars
  PROVE  TypeInv' /\ UNCHANGED release
<1>1. UNCHANGED release
  BY DEF Next, Start, Skip, Pass, Fail, Whim, RpcError, Late, Interrupt, Finish, Land, Lose, vars
<1>2. script' = script /\ missing' = missing BY <1>1 DEF release
<1>3. \A c, s : AtAPlace(c, s)' <=> AtAPlace(c', s')
  BY <1>2 DEF AtAPlace, Plot
<1>4. pending' \subseteq OpsOf(script)
  BY NowIsAStep DEF TypeInv, Next, Start, Skip, Pass, Fail, Whim, RpcError, Late, Interrupt, Finish,
     Land, Lose, vars, verdict
<1>5. /\ state' \in {"idle", "running", "green", "red"} /\ AtAPlace(case', step')
      /\ bad' \in BOOLEAN
  <2>1. ASSUME Advance, Running, bad' = bad PROVE <1>5
    BY <2>1, AdvanceMoves DEF TypeInv
  <2>2. ASSUME NEW how, EndCase(how), Running PROVE <1>5
    <3>1. \/ state' = "red" /\ case' = 1 /\ step' = 1 /\ bad' = FALSE
          \/ NextCase /\ bad' \in {TRUE, bad}
      BY <2>2 DEF EndCase
    <3>2. ASSUME NextCase, bad' \in {TRUE, bad} PROVE <1>5 BY <2>2, <3>2, NextCaseMoves DEF TypeInv
    <3> QED BY <3>1, <3>2, StartIsAPlace
  <2>3. ASSUME Skip \/ Pass PROVE <1>5 BY <2>1, <2>3 DEF Skip, Pass, verdict
  <2>4. ASSUME Fail \/ Whim PROVE <1>5 BY <2>2, <2>4 DEF Fail, Whim
  <2>5. ASSUME RpcError \/ Late PROVE <1>5 BY <2>1, <2>2, <2>5 DEF RpcError, Late
  <2>6. ASSUME Start \/ Interrupt PROVE <1>5 BY <2>6, StartIsAPlace DEF Start, Interrupt
  <2>7. ASSUME Finish PROVE <1>5 BY <2>7 DEF Finish, TypeInv, verdict
  <2>8. ASSUME (\E op \in pending : Land(op) \/ Lose(op)) \/ UNCHANGED vars PROVE <1>5
    BY <2>8 DEF Land, Lose, TypeInv, verdict, vars
  <2> QED BY <2>3, <2>4, <2>5, <2>6, <2>7, <2>8 DEF Next
<1>6. unmet' \in BOOLEAN /\ disturbed' \in BOOLEAN
  BY DEF TypeInv, Next, Start, Skip, Pass, Fail, Whim, RpcError, Late, Interrupt, Finish, Land, Lose,
     vars, verdict, Fault
<1> QED BY <1>1, <1>2, <1>3, <1>4, <1>5, <1>6 DEF TypeInv

-----------------------------------------------------------------------------
(* The chain. *)

\* What changes the chain is an operation of the script, or the choice of new salts.
LEMMA ChainChanges ==
  ASSUME TypeInv, [Next]_vars
  PROVE  \/ facts' = facts
         \/ \E op \in OpsOf(script) : facts' = After(facts, op)
         \/ facts' = Kept(facts)
<1>1. ASSUME Start PROVE facts' = Kept(facts) BY <1>1 DEF Start, Kept
<1>2. ASSUME Pass PROVE facts' = facts \/ facts' = After(facts, Now.op)
  BY <1>2 DEF Pass, Leaving
<1>3. Pass => Now.op \in OpsOf(script) BY NowIsAStep DEF Pass
<1>4. ASSUME NEW op \in pending, Land(op) PROVE op \in OpsOf(script) /\ facts' = After(facts, op)
  BY <1>4 DEF Land, TypeInv
<1>5. ASSUME Skip \/ Fail \/ Whim \/ RpcError \/ Late \/ Interrupt \/ Finish PROVE facts' = facts
  BY <1>5 DEF Skip, Fail, Whim, RpcError, Late, Interrupt, Finish
<1>6. ASSUME (\E op \in pending : Lose(op)) \/ UNCHANGED vars PROVE facts' = facts
  BY <1>6 DEF Lose, vars
<1> QED BY <1>1, <1>2, <1>3, <1>4, <1>5, <1>6 DEF Next

\* A release lacks what it lacks, and keeps what nothing takes away.
LEMMA StepReleaseLasts ==
  ASSUME TypeInv, ReleaseLasts, [Next]_vars
  PROVE  ReleaseLasts'
<1>1. script' = script /\ missing' = missing BY StepTypes DEF release
<1>2. missing \notin facts BY LackLasts
<1>3. ASSUME facts' = Kept(facts) PROVE ReleaseLasts'
  BY <1>1, <1>3 DEF ReleaseLasts, Kept, Always
<1>4. ASSUME NEW op \in OpsOf(script), facts' = After(facts, op) PROVE ReleaseLasts'
  BY <1>1, <1>2, <1>4, LastsAfterOp DEF ReleaseLasts
<1>5. ASSUME facts' = facts PROVE ReleaseLasts' BY <1>1, <1>5 DEF ReleaseLasts
<1> QED BY <1>3, <1>4, <1>5, ChainChanges

\* A first run finds the release.
LEMMA InitReleaseLasts == Init => ReleaseLasts
BY DEF Init, ReleaseLasts, Never, Always

-----------------------------------------------------------------------------
(* Steps that cannot pass unnoticed. *)

\* No run skips a step that is for every run.
LEMMA SurelyTaken ==
  ASSUME ReleaseLasts, NEW s, Surely(script, missing, s)
  PROVE  ~Skipped(facts, s)
BY DEF Skipped, Surely, ReleaseLasts

\* A step that notices code passes only where there is some.
LEMMA NoticingFails ==
  ASSUME NEW t, NEW m, NEW s, NEW all, NoticesCode(t, m, s), Passes(all, s)
  PROVE  s.op.target \in all
BY DEF NoticesCode, Passes, Met, Codeless

\* A step that fails in every run neither passes nor succeeds without an effect.
LEMMA FailingFails ==
  ASSUME ReleaseLasts, NEW s, Fails(script, missing, s)
  PROVE  /\ ~Skipped(facts, s) /\ ~Passes(facts, s)
         /\ s.kind = "do" => ~Succeeds(facts, s.op)
         /\ s.kind \in {"refuse", "reject"} => s.exact
<1> DEFINE Caught ==
             /\ ~Skipped(facts, s) /\ ~Passes(facts, s)
             /\ s.kind = "do" => ~Succeeds(facts, s.op)
             /\ s.kind \in {"refuse", "reject"} => s.exact
<1>1. ASSUME NoticesCode(script, missing, s), Never(script, missing, s.op.target)
      PROVE  Caught
  <2>1. Surely(script, missing, s) BY <1>1 DEF NoticesCode
  <2>2. s.op.target \notin facts BY <1>1 DEF ReleaseLasts
  <2> QED BY <1>1, <2>1, <2>2, SurelyTaken, NoticingFails DEF NoticesCode
<1>2. ASSUME Surely(script, missing, s), Sends(s), Fresh(script, missing, s.op),
             Always(script, missing, s.op.target),
             NEW f \in s.op.needs, Never(script, missing, f)
      PROVE  Caught
  <2>1. s.op.target \in facts /\ f \notin facts BY <1>2 DEF ReleaseLasts
  <2>2. ~Idle(facts, s.op) BY <1>2 DEF Idle, Fresh, ReleaseLasts
  <2>3. ~Succeeds(facts, s.op) BY <1>2, <2>1, <2>2 DEF Succeeds, Codeless, Violated
  <2>4. ~Passes(facts, s) BY <1>2, <2>1, <2>3 DEF Passes, Met, Codeless
  <2> QED BY <1>2, <2>3, <2>4, SurelyTaken DEF Sends
<1> QED BY <1>1, <1>2 DEF Fails

\* A step that is about what the release lacks does not come out as it should.
LEMMA DoomedIsUnmet ==
  ASSUME TypeInv, ReleaseLasts, NEW s, Doomed(script, missing, s), s.exact
  PROVE  ~Skipped(facts, s) /\ ~Met(facts, s)
<1>1. missing \notin facts BY LackLasts
<1>2. ~Skipped(facts, s) BY SurelyTaken DEF Doomed
<1>3. ASSUME Sends(s), missing \in s.op.needs, Fresh(script, missing, s.op) PROVE ~Met(facts, s)
  <2>1. ~Idle(facts, s.op) BY <1>3 DEF Idle, Fresh, ReleaseLasts
  <2> QED BY <1>1, <1>3, <2>1 DEF Met, Succeeds, Violated
<1>4. ASSUME s.kind = "refuse", missing \in (s.op.needs \ s.facts) \cup (s.facts \ s.op.needs)
      PROVE  ~Met(facts, s)
  <2>1. missing \in Violated(facts, s.op) <=> missing \in s.op.needs BY <1>1 DEF Violated
  <2>2. Violated(facts, s.op) # s.facts BY <1>4, <2>1
  <2> QED BY <1>4, <2>2 DEF Met, Refusal
<1>5. ASSUME s.kind = "see", missing \in s.facts PROVE ~Met(facts, s) BY <1>1, <1>5 DEF Met
<1>6. ASSUME missing = s.op.target PROVE ~Met(facts, s) BY <1>1, <1>6 DEF Met, Codeless
<1> QED BY <1>2, <1>3, <1>4, <1>5, <1>6 DEF Doomed

\* A step that ensures an address has code does, when it is left behind and not
\* counted.
LEMMA EnsuringEnsures ==
  ASSUME TypeInv, ReleaseLasts, Running, PassedOver \/ TakenForMet \/ TakenLightly,
         NEW u \in StepsOf(Plot), Ensures(script, missing, Now, u.op.target)
  PROVE  u.op.target \in facts'
<1> DEFINE code == u.op.target
<1>1. code \in facts => code \in Leaving(facts, Now)
  BY NowIsAStep, CodeSurvives DEF Leaving
<1>2. ASSUME NoticesCode(script, missing, Now), Now.op.target = code PROVE code \in facts'
  <2>1. ~Skipped(facts, Now) BY <1>2, SurelyTaken DEF NoticesCode
  <2>2. ~TakenLightly BY <1>2 DEF NoticesCode, TakenLightly
  <2>3. TakenForMet BY <2>1, <2>2 DEF PassedOver
  <2> QED BY <1>1, <1>2, <2>3, NoticingFails DEF TakenForMet
<1>3. ASSUME Creates(Now, code) PROVE code \in facts'
  <2>1. ASSUME PassedOver PROVE code \in facts'
    <3>1. Now.unless \cap facts # {} BY <1>3, <2>1 DEF PassedOver, Skipped, Creates
    <3> QED BY <1>3, <2>1, <3>1 DEF PassedOver, Creates
  <2>2. ~TakenLightly BY <1>3 DEF Creates, TakenLightly
  <2>3. ASSUME TakenForMet PROVE code \in facts'
    <3>1. Met(facts, Now) /\ ~Skipped(facts, Now) /\ facts' = Leaving(facts, Now)
      BY <1>3, <2>3 DEF TakenForMet, Passes, Creates
    <3>2. ~Codeless(facts, Now.op) /\ Succeeds(facts, Now.op)
      BY <1>3, <3>1 DEF Met, Sends, Creates
    <3>3. ASSUME Idle(facts, Now.op) PROVE code \in facts'
      BY <1>1, <1>3, <3>1, <3>3 DEF Idle, Creates
    <3>4. ASSUME ~Idle(facts, Now.op) PROVE code \in facts'
      <4>1. Leaving(facts, Now) = (facts \ Now.op.cuts) \cup Now.op.adds
        BY <1>3, <3>1, <3>2, <3>4 DEF Leaving, After, Succeeds, Sends, Creates
      <4> QED BY <1>3, <3>1, <4>1 DEF Creates
    <3> QED BY <3>3, <3>4
  <2> QED BY <2>1, <2>2, <2>3
<1> QED BY <1>2, <1>3 DEF Ensures

-----------------------------------------------------------------------------
(* What a script has behind it, and before it. *)

\* Steps that are not the script's own: a run starts afresh, is over, or waits for
\* the chain.
LEMMA OtherSteps ==
  ASSUME TypeInv, [Next]_vars
  PROVE  \/ ScriptStep
         \/ case' = 1 /\ step' = 1 /\ unmet' = FALSE
         \/ state' # "running"
         \/ /\ case' = case /\ step' = step /\ state' = state /\ bad' = bad /\ unmet' = unmet
            /\ facts' = facts \/ \E op \in OpsOf(script) : facts' = After(facts, op)
<1>1. ASSUME Start \/ Interrupt PROVE case' = 1 /\ step' = 1 /\ unmet' = FALSE
  BY <1>1 DEF Start, Interrupt
<1>2. ASSUME Finish PROVE state' # "running" BY <1>2 DEF Finish
<1>3. ASSUME NEW op \in pending, Land(op) \/ Lose(op)
      PROVE  /\ case' = case /\ step' = step /\ state' = state /\ bad' = bad /\ unmet' = unmet
             /\ op \in OpsOf(script) /\ (facts' = facts \/ facts' = After(facts, op))
  BY <1>3 DEF Land, Lose, verdict, TypeInv
<1>4. ASSUME UNCHANGED vars
      PROVE  /\ case' = case /\ step' = step /\ state' = state /\ bad' = bad /\ unmet' = unmet
             /\ facts' = facts
  BY <1>4 DEF vars, verdict
<1> QED BY <1>1, <1>2, <1>3, <1>4 DEF Next, ScriptStep

\* Code that was ensured stands.
LEMMA StepCodeStands ==
  ASSUME TypeInv, ReleaseLasts, CodeStands, [Next]_vars
  PROVE  CodeStands'
<1>1. script' = script /\ missing' = missing BY StepTypes DEF release
<1> SUFFICES ASSUME Unblamed', NEW i \in DOMAIN Plot, NEW j \in DOMAIN Plot[i].steps,
                    NEW u \in StepsOf(Plot), Past(i, j, case', step'), Judges(Plot[i]),
                    Ensures(script, missing, At(i, j), u.op.target)
             PROVE  u.op.target \in facts'
  BY <1>1 DEF CodeStands, Past, At, Plot
<1>2. state' = "running" /\ ~bad' BY DEF Unblamed
<1>3. ~(case' = 1 /\ step' = 1) BY Ends
<1>4. ASSUME case' = case, step' = step, state' = state, bad' = bad,
             facts' = facts \/ \E op \in OpsOf(script) : facts' = After(facts, op)
      PROVE  u.op.target \in facts'
  <2>1. u.op.target \in facts BY <1>2, <1>4 DEF CodeStands, Unblamed
  <2> QED BY <1>4, <2>1, CodeSurvives
<1>5. ASSUME ScriptStep PROVE u.op.target \in facts'
  <2>1. Running /\ (WavedThrough \/ PassedOver \/ TakenForMet \/ TakenLightly)
    BY <1>2, <1>5, ScriptStepKinds DEF Blamed
  <2>2. state = "running" /\ ~bad BY <1>2, <2>1, UnblamedSteps DEF Running
  <2>3. Past(i, j, case, step) => u.op.target \in facts BY <2>2 DEF CodeStands, Unblamed
  <2>4. u.op.target \in facts => u.op.target \in Leaving(facts, Now)
    BY <2>1, NowIsAStep, CodeSurvives DEF Leaving
  <2>5. ASSUME WavedThrough PROVE u.op.target \in facts'
    <3>1. Past(i, j, case, step)
      BY <2>1, <2>5, NextCaseMoves DEF WavedThrough
    <3> QED BY <2>3, <2>5, <3>1 DEF WavedThrough
  <2>6. ASSUME PassedOver \/ TakenForMet \/ TakenLightly PROVE u.op.target \in facts'
    <3>1. Past(i, j, case, step) \/ (i = case /\ j = step)
      BY <2>1, <2>6, AdvanceMoves DEF PassedOver, TakenForMet, TakenLightly
    <3>2. facts' = facts \/ facts' = Leaving(facts, Now)
      BY <2>6 DEF PassedOver, TakenForMet, TakenLightly
    <3>3. ASSUME i = case, j = step PROVE u.op.target \in facts'
      <4>1. Ensures(script, missing, Now, u.op.target) BY <2>1, <3>3, NowIsAStep
      <4> QED BY <2>1, <2>6, <4>1, EnsuringEnsures
    <3> QED BY <2>3, <2>4, <3>1, <3>2, <3>3
  <2> QED BY <2>1, <2>5, <2>6
<1> QED BY <1>2, <1>3, <1>4, <1>5, OtherSteps

\* A transaction that did nothing and passed is found out.
LEMMA StepUnmetIsFoundOut ==
  ASSUME TypeInv, ReleaseLasts, CodeStands, UnmetIsFoundOut, [Next]_vars
  PROVE  UnmetIsFoundOut'
<1>1. script' = script /\ missing' = missing BY StepTypes DEF release
<1> DEFINE Caught(i, j, c, s) ==
             ~Past(i, j, c, s) /\ Judges(Plot[i]) /\ Fails(script, missing, At(i, j))
<1> SUFFICES ASSUME Unblamed', unmet'
             PROVE  \E i \in DOMAIN Plot : \E j \in DOMAIN Plot[i].steps : Caught(i, j, case', step')
  BY <1>1 DEF UnmetIsFoundOut, Past, At, Plot
<1>2. state' = "running" /\ ~bad' BY DEF Unblamed
<1>3. ASSUME Unblamed, unmet
      PROVE  \E i \in DOMAIN Plot : \E j \in DOMAIN Plot[i].steps : Caught(i, j, case, step)
  BY <1>3 DEF UnmetIsFoundOut
<1>4. ASSUME case' = case, step' = step, state' = state, bad' = bad, unmet' = unmet
      PROVE  \E i \in DOMAIN Plot : \E j \in DOMAIN Plot[i].steps : Caught(i, j, case', step')
  <2>1. Unblamed /\ unmet BY <1>2, <1>4 DEF Unblamed
  <2> HIDE DEF Caught
  <2> QED BY <1>3, <1>4, <2>1
<1>5. ASSUME ScriptStep
      PROVE  \E i \in DOMAIN Plot : \E j \in DOMAIN Plot[i].steps : Caught(i, j, case', step')
  <2>1. Running /\ (WavedThrough \/ PassedOver \/ TakenForMet \/ TakenLightly)
    BY <1>2, <1>5, ScriptStepKinds DEF Blamed
  <2>2. Unblamed
    <3>1. state = "running" /\ ~bad BY <1>2, <2>1, UnblamedSteps DEF Running
    <3> QED BY <3>1 DEF Unblamed
  <2>3. ASSUME NEW i \in DOMAIN Plot, NEW j \in DOMAIN Plot[i].steps, Caught(i, j, case, step)
        PROVE  Caught(i, j, case', step')
    <3>1. ASSUME WavedThrough PROVE Caught(i, j, case', step')
      BY <2>1, <2>3, <3>1, NextCaseMoves DEF WavedThrough
    <3>2. ASSUME PassedOver \/ TakenForMet \/ TakenLightly, i = case, j = step PROVE FALSE
      <4>1. Fails(script, missing, Now) BY <2>1, <2>3, <3>2, NowIsAStep
      <4>2. ~Skipped(facts, Now) /\ ~Passes(facts, Now) BY <4>1, FailingFails
      <4>3. TakenLightly BY <3>2, <4>2 DEF PassedOver, TakenForMet
      <4> QED BY <4>1, <4>3, FailingFails DEF TakenLightly
    <3>3. ASSUME PassedOver \/ TakenForMet \/ TakenLightly PROVE Caught(i, j, case', step')
      <4>1. Advance BY <3>3 DEF PassedOver, TakenForMet, TakenLightly
      <4> QED BY <2>1, <2>3, <3>2, <3>3, <4>1, AdvanceMoves
    <3> QED BY <2>1, <3>1, <3>3
  <2>4. ASSUME unmet
        PROVE  \E i \in DOMAIN Plot : \E j \in DOMAIN Plot[i].steps : Caught(i, j, case', step')
    <3> HIDE DEF Caught
    <3> QED BY <1>3, <2>2, <2>3, <2>4
  <2>5. ASSUME ~unmet
        PROVE  \E i \in DOMAIN Plot : \E j \in DOMAIN Plot[i].steps : Caught(i, j, case', step')
    <3>1. TakenForMet /\ Asserted /\ ~Met(facts, Now)
      BY <2>1, <2>5 DEF WavedThrough, PassedOver, TakenForMet, TakenLightly
    <3>2. Codeless(facts, Now.op) /\ Now.kind = "do"
      BY <2>1, <3>1, NowIsAStep, StepShape DEF TakenForMet, Passes, Asserted, Asserts
    <3>3. /\ case \in DOMAIN Plot /\ step \in DOMAIN Plot[case].steps
          /\ Now = At(case, step) /\ Now \in StepsOf(Plot)
      BY <2>1, NowIsAStep
    <3>4. ~Always(script, missing, Now.op.target) BY <3>2 DEF Codeless, ReleaseLasts
    <3>5. \/ \E k \in DOMAIN Plot : \E l \in DOMAIN Plot[k].steps :
               /\ k < case \/ (k = case /\ l < step)
               /\ Judges(Plot[k]) /\ Ensures(script, missing, At(k, l), Now.op.target)
          \/ \E k \in DOMAIN Plot : \E l \in DOMAIN Plot[k].steps :
               /\ case < k \/ (case = k /\ step < l)
               /\ Judges(Plot[k]) /\ Fails(script, missing, At(k, l))
      <4>1. missing \in {<<>>} \cup Withheld(script) BY DEF TypeInv
      <4>2. Asserts(script.cases[case], StepAt(script, case, step)) BY <3>1 DEF Asserted, Now, Plot
      <4> QED BY <3>2, <3>3, <3>4, <4>1, <4>2, ScriptIsSound DEF CodeIsNoticed, Plot, At, Now
    <3>6. ASSUME NEW k \in DOMAIN Plot, NEW l \in DOMAIN Plot[k].steps,
                 k < case \/ (k = case /\ l < step),
                 Judges(Plot[k]), Ensures(script, missing, At(k, l), Now.op.target)
          PROVE  FALSE
      <4>1. Past(k, l, case, step) BY <3>6 DEF Past
      <4> QED BY <2>2, <3>2, <3>3, <3>6, <4>1 DEF CodeStands, Codeless
    <3>7. ASSUME NEW k \in DOMAIN Plot, NEW l \in DOMAIN Plot[k].steps,
                 case < k \/ (case = k /\ step < l),
                 Judges(Plot[k]), Fails(script, missing, At(k, l))
          PROVE  Caught(k, l, case', step')
      <4>1. ~Past(k, l, case, step) /\ ~(k = case /\ l = step)
        BY <3>3, <3>7, Places DEF Past
      <4> QED BY <2>1, <3>1, <3>7, <4>1, AdvanceMoves DEF TakenForMet
    <3> HIDE DEF Caught
    <3> QED BY <3>5, <3>6, <3>7
  <2> HIDE DEF Caught
  <2> QED BY <2>4, <2>5
<1>6. ~(case' = 1 /\ step' = 1 /\ unmet' = FALSE) OBVIOUS
<1> HIDE DEF Caught
<1> QED BY <1>2, <1>4, <1>5, <1>6, OtherSteps

\* What the release lacks is asserted by a step to come, or was found out.
LEMMA StepLackIsAhead ==
  ASSUME TypeInv, ReleaseLasts, LackIsAhead, [Next]_vars
  PROVE  LackIsAhead'
<1>1. script' = script /\ missing' = missing BY StepTypes DEF release
<1> SUFFICES ASSUME Unblamed', ~unmet', NEW i \in DOMAIN Plot, NEW j \in DOMAIN Plot[i].steps,
                    Asserts(Plot[i], At(i, j)), Doomed(script, missing, At(i, j)),
                    Past(i, j, case', step')
             PROVE  FALSE
  BY <1>1 DEF LackIsAhead, Past, At, Plot
<1>2. state' = "running" /\ ~bad' BY DEF Unblamed
<1>3. ~(case' = 1 /\ step' = 1) BY Ends
<1>4. ASSUME case' = case, step' = step, state' = state, bad' = bad, unmet' = unmet PROVE FALSE
  BY <1>2, <1>4 DEF LackIsAhead, Unblamed
<1>5. ASSUME ScriptStep PROVE FALSE
  <2>1. Running /\ (WavedThrough \/ PassedOver \/ TakenForMet \/ TakenLightly)
    BY <1>2, <1>5, ScriptStepKinds DEF Blamed
  <2>2. Unblamed /\ ~unmet
    <3>1. state = "running" /\ ~bad BY <1>2, <2>1, UnblamedSteps DEF Running
    <3>2. unmet => unmet'
      BY <2>1 DEF WavedThrough, PassedOver, TakenForMet, TakenLightly
    <3> QED BY <3>1, <3>2 DEF Unblamed
  <2>3. ~Past(i, j, case, step) BY <2>2 DEF LackIsAhead
  <2>4. At(i, j).exact /\ Judges(Plot[i]) BY DEF Asserts, Judges
  <2>5. ASSUME WavedThrough PROVE FALSE
    BY <2>1, <2>3, <2>4, <2>5, NextCaseMoves DEF WavedThrough
  <2>6. ASSUME PassedOver \/ TakenForMet \/ TakenLightly PROVE FALSE
    <3>1. Advance BY <2>6 DEF PassedOver, TakenForMet, TakenLightly
    <3>2. i = case /\ j = step BY <2>1, <2>3, <3>1, AdvanceMoves
    <3>3. Now = At(i, j) BY <2>1, <3>2, NowIsAStep
    <3>4. ~Skipped(facts, Now) /\ ~Met(facts, Now) BY <2>4, <3>3, DoomedIsUnmet
    <3>5. Asserted BY <3>2, <3>3 DEF Asserted
    <3> QED BY <2>4, <2>6, <3>3, <3>4, <3>5 DEF PassedOver, TakenForMet, TakenLightly
  <2> QED BY <2>1, <2>5, <2>6
<1> QED BY <1>2, <1>3, <1>4, <1>5, OtherSteps

-----------------------------------------------------------------------------
(* The verdicts. *)

IInv == TypeInv /\ ReleaseLasts /\ CodeStands /\ UnmetIsFoundOut /\ LackIsAhead

\* The invariant holds when nothing has run.
LEMMA InitInvariant == Init => IInv
BY InitTypes, InitReleaseLasts DEF IInv, Init, CodeStands, UnmetIsFoundOut, LackIsAhead, Unblamed

\* Every step keeps it.
LEMMA StepInvariant == IInv /\ [Next]_vars => IInv'
BY StepTypes, StepReleaseLasts, StepCodeStands, StepUnmetIsFoundOut, StepLackIsAhead DEF IInv

\* It holds in every run.
LEMMA Invariant == Spec => []IInv
BY InitInvariant, StepInvariant, PTL DEF Spec

\* A script that is at its end with nothing counted met all it asserts, and asserts
\* nothing that the release lacks.
LEMMA EndIsEarned ==
  ASSUME IInv, Finish, ~bad
  PROVE  ~unmet /\ missing \notin About(script, Asserts)
<1>1. TypeInv BY DEF IInv
<1>2. case = Len(Plot) + 1 /\ step = 1 BY <1>1, Places DEF Finish, TypeInv, AtAPlace
<1>3. Unblamed BY DEF Unblamed, Finish
<1>4. \A i \in DOMAIN Plot : \A j \in DOMAIN Plot[i].steps : Past(i, j, case, step)
  BY <1>1, <1>2, Ends
<1>5. ~unmet BY <1>3, <1>4 DEF IInv, UnmetIsFoundOut
<1>6. ASSUME missing \in About(script, Asserts) PROVE FALSE
  <2>1. missing \in {<<>>} \cup Withheld(script) BY <1>1 DEF TypeInv
  <2>2. PICK i \in DOMAIN Plot : \E j \in DOMAIN Plot[i].steps :
          Asserts(Plot[i], At(i, j)) /\ Doomed(script, missing, At(i, j))
    BY <1>1, <1>6, <2>1, ScriptIsSound DEF LackIsNoticed, Plot, At
  <2> QED BY <1>3, <1>4, <1>5, <2>2 DEF IInv, LackIsAhead
<1> QED BY <1>5, <1>6

\* A script becomes green at its end only.
LEMMA GreenSteps ==
  ASSUME TypeInv, [Next]_vars, state' = "green"
  PROVE  /\ missing' = missing /\ script' = script /\ unmet' = unmet
         /\ state = "green" \/ (Finish /\ ~bad)
<1>1. missing' = missing /\ script' = script BY StepTypes DEF release
<1>2. ASSUME ScriptStep PROVE FALSE
  <2>1. state = "running" BY <1>2, ScriptStepKinds DEF Running
  <2>2. \A how : EndCase(how) => state' \in {"red", state} BY DEF EndCase, NextCase
  <2>3. Advance => state' = state BY DEF Advance, NextCase
  <2> QED BY <1>2, <2>1, <2>2, <2>3 DEF ScriptStep, Skip, Pass, Fail, Whim, RpcError, Late
<1>3. ~Start /\ ~Interrupt BY DEF Start, Interrupt
<1>4. ASSUME Finish PROVE ~bad /\ unmet' = unmet BY <1>4 DEF Finish, verdict
<1>5. ASSUME (\E op \in pending : Land(op) \/ Lose(op)) \/ UNCHANGED vars
      PROVE  state = "green" /\ unmet' = unmet
  BY <1>5 DEF Land, Lose, vars, verdict
<1> QED BY <1>1, <1>2, <1>3, <1>4, <1>5 DEF Next, ScriptStep

\* GreenIsEarned: however often a script is started, whatever fails and whatever the
\* release lacks, it is green only when every step it asserts came out as it should
\* in that run.
THEOREM GreenMeansMet == Spec => []GreenIsEarned
<1>1. Init => GreenIsEarned BY DEF Init, GreenIsEarned
<1>2. IInv /\ GreenIsEarned /\ [Next]_vars => GreenIsEarned'
  BY GreenSteps, EndIsEarned DEF IInv, GreenIsEarned
<1> QED BY <1>1, <1>2, Invariant, PTL DEF Spec

\* AcceptedReleasesWork: no script accepts a release that lacks a fact it asserts.
THEOREM BrokenIsNotAccepted == Spec => []AcceptedReleasesWork
<1>1. Init => AcceptedReleasesWork BY DEF Init, AcceptedReleasesWork
<1>2. IInv /\ AcceptedReleasesWork /\ [Next]_vars => AcceptedReleasesWork'
  <2> SUFFICES ASSUME IInv, AcceptedReleasesWork, [Next]_vars, state' = "green"
               PROVE  missing' \notin About(script', Asserts)
    BY DEF AcceptedReleasesWork
  <2>1. missing' = missing /\ script' = script /\ (state = "green" \/ (Finish /\ ~bad))
    BY GreenSteps DEF IInv
  <2> QED BY <2>1, EndIsEarned DEF AcceptedReleasesWork
<1> QED BY <1>1, <1>2, Invariant, PTL DEF Spec

-----------------------------------------------------------------------------
(* Runs that nothing disturbs. *)

\* What a script finds again is changed by its operations as the plan says.
LEMMA KeptLasts ==
  ASSUME RunsThrough(script), NEW all, Kept(all) \in Finds(script), NEW op \in OpsOf(script)
  PROVE  Kept(After(all, op)) \in Finds(script)
<1>1. CASE ChangesOwn(script)
  <2>1. \A f \in op.adds \cup op.cuts : Stale(script, f) BY <1>1 DEF ChangesOwn
  <2>2. After(all, op) = all \/ After(all, op) = (all \ op.cuts) \cup op.adds BY DEF After
  <2>3. Kept(After(all, op)) = Kept(all) BY <2>1, <2>2 DEF Kept
  <2> QED BY <2>3
<1>2. CASE ~ChangesOwn(script)
  <2>1. script.fresh = {} BY <1>2 DEF RunsThrough
  <2>2. \A S : Kept(S) = S BY <2>1 DEF Kept, Stale
  <2> QED BY <1>2, <2>2 DEF RunsThrough
<1> QED BY <1>1, <1>2

\* The plan says what the chain is before the next step.
LEMMA CourseGoesOn ==
  ASSUME TypeInv, RunsThrough(script), Running, NEW all \in Finds(script),
         facts = Course(script, all)[<<case, step>>]
  PROVE  /\ Skipped(facts, Now) \/ Passes(facts, Now)
         /\ Advance /\ case' \in DOMAIN Plot
              => Leaving(facts, Now) = Course(script, all)[<<case', step'>>]
<1> DEFINE at == Course(script, all)
<1>1. /\ case \in DOMAIN Plot /\ step \in DOMAIN Plot[case].steps /\ Now = At(case, step)
      /\ case \in 1 .. Len(Plot) /\ step \in 1 .. Len(Plot[case].steps)
      /\ Len(Plot) \in Nat /\ Len(Plot[case].steps) \in Nat
  BY NowIsAStep, Places
<1>2. Follows(script, all, at) BY DEF RunsThrough
<1> HIDE DEF at
<1>3. /\ Skipped(at[<<case, step>>], Now) \/ Passes(at[<<case, step>>], Now)
      /\ step < Len(Plot[case].steps)
           => at[<<case, step + 1>>] = Leaving(at[<<case, step>>], Now)
      /\ step = Len(Plot[case].steps) /\ case < Len(Plot)
           => at[<<case + 1, 1>>] = Leaving(at[<<case, step>>], Now)
  BY <1>1, <1>2 DEF Follows, Plot, At
<1>4. facts = at[<<case, step>>] BY DEF at
<1>5. ASSUME Advance, case' \in DOMAIN Plot
      PROVE  Leaving(facts, Now) = at[<<case', step'>>]
  <2>1. CASE step < Len(Plot[case].steps)
    BY <1>3, <1>4, <1>5, <2>1 DEF Advance
  <2>2. CASE ~(step < Len(Plot[case].steps))
    <3>1. step = Len(Plot[case].steps) BY <1>1, <2>2
    <3>2. case' = case + 1 /\ step' = 1 BY <1>5, <2>2 DEF Advance, NextCase
    <3>3. case < Len(Plot) BY <1>1, <1>5, <3>2, Places
    <3> QED BY <1>3, <1>4, <3>1, <3>2, <3>3
  <2> QED BY <2>1, <2>2
<1> QED BY <1>3, <1>4, <1>5 DEF at

\* A first run finds the release.
LEMMA InitRunsItsCourse == Init => RunsItsCourse
<1> SUFFICES ASSUME Init, missing = <<>>, Steady(script) PROVE RunsItsCourse
  BY DEF RunsItsCourse
<1>1. RunsThrough(script) BY InitTypes, ScriptIsSound
<1>2. Kept(facts) = Found(script, <<>>) BY <1>1 DEF RunsThrough, Kept, Init
<1>3. Found(script, <<>>) \in Finds(script) BY DEF Finds, OneMore
<1> QED BY <1>2, <1>3 DEF RunsItsCourse, Init

\* Every step keeps to the plan, or disturbs the run.
LEMMA StepRunsItsCourse ==
  ASSUME TypeInv, RunsItsCourse, [Next]_vars
  PROVE  RunsItsCourse'
<1>1. script' = script /\ missing' = missing BY StepTypes DEF release
<1>2. \A all : Kept(all)' = Kept(all') BY <1>1 DEF Kept
<1> SUFFICES ASSUME missing = <<>>, Steady(script)
             PROVE  RunsItsCourse'
  BY <1>1 DEF RunsItsCourse
<1>3. RunsThrough(script) BY ScriptIsSound
<1>4. Kept(facts) \in Finds(script) BY DEF RunsItsCourse
<1>5. Kept(facts') \in Finds(script)
  <2>1. ASSUME facts' = Kept(facts) PROVE Kept(facts') = Kept(facts) BY <2>1 DEF Kept
  <2>2. ASSUME NEW op \in OpsOf(script), facts' = After(facts, op)
        PROVE  Kept(facts') \in Finds(script)
    BY <1>3, <1>4, <2>2, KeptLasts
  <2> QED BY <1>4, <2>1, <2>2, ChainChanges
<1> DEFINE OnCourse ==
             /\ state' # "red"
             /\ state' = "running" =>
                  /\ ~bad' /\ pending' = {}
                  /\ case' \in DOMAIN Plot =>
                       \E all \in Finds(script) : facts' = Course(script, all)[<<case', step'>>]
<1>6. ASSUME ~disturbed' PROVE OnCourse
  <2>1. ASSUME Start PROVE OnCourse
    <3>1. /\ state' = "running" /\ case' = 1 /\ step' = 1 /\ ~bad' /\ facts' = Kept(facts)
          /\ pending' = {}
      BY <1>6, <2>1 DEF Start, Kept
    <3>2. Course(script, Kept(facts))[<<1, 1>>] = Kept(facts)
      BY <1>3, <1>4 DEF RunsThrough, Follows
    <3> QED BY <1>4, <3>1, <3>2
  <2>2. ASSUME Skip \/ Pass \/ Fail \/ Whim PROVE OnCourse
    <3>1. disturbed' = disturbed /\ Running
      BY <2>2 DEF Skip, Pass, Fail, Whim, verdict
    <3>2. ~disturbed BY <1>6, <3>1
    <3>3. /\ state = "running" /\ ~bad /\ pending = {}
          /\ \E all \in Finds(script) : facts = Course(script, all)[<<case, step>>]
      BY <3>1, <3>2 DEF RunsItsCourse, Running
    <3>4. PICK all \in Finds(script) : facts = Course(script, all)[<<case, step>>] BY <3>3
    <3>5. /\ Skipped(facts, Now) \/ Passes(facts, Now)
          /\ Advance /\ case' \in DOMAIN Plot
               => Leaving(facts, Now) = Course(script, all)[<<case', step'>>]
      BY <1>3, <3>1, <3>4, CourseGoesOn
    <3>6. ~Now.whim BY <3>1, NowIsAStep DEF Steady, Plot
    <3>7. Skip \/ Pass BY <2>2, <3>5, <3>6 DEF Fail, Whim
    <3>8. Advance /\ bad' = bad /\ pending' = pending /\ facts' = Leaving(facts, Now)
      BY <3>7 DEF Skip, Pass, Leaving, verdict
    <3>9. state' = "running" BY <3>1, <3>3, <3>8, AdvanceMoves
    <3> QED BY <3>3, <3>5, <3>8, <3>9
  <2>3. ~RpcError /\ ~Late /\ ~Interrupt
    BY <1>6 DEF RpcError, Late, Interrupt, Fault
  <2>4. ASSUME Finish PROVE OnCourse
    <3>1. state = "running" /\ ~disturbed BY <1>6, <2>4 DEF Finish, verdict
    <3>2. ~bad BY <3>1 DEF RunsItsCourse
    <3> QED BY <2>4, <3>2 DEF Finish
  <2>5. ASSUME NEW op \in pending, Land(op) \/ Lose(op) PROVE OnCourse
    <3>1. state' = state /\ ~disturbed BY <1>6, <2>5 DEF Land, Lose, verdict
    <3>2. state # "red" /\ state # "running" BY <2>5, <3>1 DEF RunsItsCourse
    <3> QED BY <3>1, <3>2
  <2>6. ASSUME UNCHANGED vars PROVE OnCourse
    <3>1. /\ state' = state /\ bad' = bad /\ pending' = pending /\ facts' = facts
          /\ case' = case /\ step' = step /\ disturbed' = disturbed
      BY <2>6 DEF vars, verdict
    <3>2. ~disturbed BY <1>6, <3>1
    <3> QED BY <3>1, <3>2 DEF RunsItsCourse
  <2> QED BY <2>1, <2>2, <2>3, <2>4, <2>5, <2>6 DEF Next
<1> QED BY <1>1, <1>2, <1>5, <1>6 DEF RunsItsCourse, Plot

\* CleanRunsAreGreen: a run that meets a complete release, no fault and nothing
\* pending is never red, whatever earlier runs left on the chain.
THEOREM OnlyDisturbedRunsFail == Spec => []CleanRunsAreGreen
<1>1. Init => RunsItsCourse BY InitRunsItsCourse
<1>2. IInv /\ RunsItsCourse /\ [Next]_vars => RunsItsCourse'
  BY StepRunsItsCourse DEF IInv
<1>3. RunsItsCourse => CleanRunsAreGreen BY DEF RunsItsCourse, CleanRunsAreGreen
<1> QED BY <1>1, <1>2, <1>3, Invariant, PTL DEF Spec

=============================================================================
