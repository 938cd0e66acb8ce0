---------------------------- MODULE AcceptanceSteps ----------------------------
(***************************************************************************)
(* What a step of a script of AcceptanceTests does on a chain and what the *)
(* script takes its outcome for, and what is asked of the plans: that the  *)
(* steps of each of them, in their order, notice what they are there to    *)
(* notice.  A plan is a constant, so TLC evaluates all of what is asked;   *)
(* AcceptanceRun.tla runs the scripts, AcceptanceTheorems.tla proves what  *)
(* then holds of any number of runs with any number of faults.             *)
(***************************************************************************)
EXTENDS AcceptanceTests

-----------------------------------------------------------------------------
(* The chain, a set of facts. *)

\* Facts about a subject; a release that lacks a fact, or the contract it is about.
Mentions(f, subject) == \E i \in DOMAIN f : f[i] = subject
Without(fact, all) == {f \in all : f # fact /\ ~(fact[2] = "code" /\ f[1] = fact[1])}
\* What a run of t finds when it is the first on a release that lacks a fact, or none.
Found(t, m) == {Code("CHAIN")} \cup (IF m = <<>> THEN t.given ELSE Without(m, t.given))
\* Every run chooses new salts and keys: facts about the old ones.
Stale(t, f) == \E s \in t.fresh : Mentions(f, s)

Violated(all, op) == (op.needs \ all) \cup (op.bars \cap all)
Codeless(all, op) == op.target \notin all
Idle(all, op)     == op.settled # <<>> /\ op.settled \in all
\* A call to an address without code succeeds and does nothing.
After(all, op) ==
  IF Codeless(all, op) \/ Idle(all, op) \/ Violated(all, op) # {} THEN all ELSE (all \ op.cuts) \cup op.adds
Succeeds(all, op) == Codeless(all, op) \/ Idle(all, op) \/ Violated(all, op) = {}

-----------------------------------------------------------------------------
(* A step. *)

Skipped(all, s) == ~(s.when \subseteq all) \/ s.unless \cap all # {}
Sends(s) == s.kind \in {"do", "make"}
Refusal(s) == s.kind \in {"refuse", "reject", "reverts"}

\* What the step is about.
Met(all, s) ==
  /\ ~Codeless(all, s.op)
  /\ Sends(s)           => Succeeds(all, s.op)
  /\ s.kind = "see"     => s.facts \subseteq all
  /\ s.kind = "seeNot"  => s.facts \cap all = {}
  /\ Refusal(s) => IF s.exact THEN Violated(all, s.op) = s.facts ELSE Violated(all, s.op) # {}
\* A change a bug could make: what an address without code answers is ignored.
PassesWithoutCode(all, s) == Met(all, s) \/ Codeless(all, s.op)
\* What the script takes for it.
Passes(all, s) ==
  \/ Met(all, s)
  \/ Codeless(all, s.op) /\ s.kind \in {"do", "reject"}
\* A read of an address without code is an error of the client.
Erroneous(all, s) == Codeless(all, s.op) /\ s.kind \in {"make", "see", "seeNot"}
\* What the step leaves on the chain, when it passes or is skipped.
Leaving(all, s) == IF Sends(s) /\ ~Skipped(all, s) THEN After(all, s.op) ELSE all

\* A step whose outcome is compared and whose failure is not waved through.
Asserts(c, s) == s.exact /\ c.onFail # "pass"
\* Facts a script is about: those it asserts, and all it reads or relies on.
About(t, Cond(_, _)) ==
  UNION {UNION {(s.facts \cup s.op.needs \cup {s.op.target}) \ s.when :
                  s \in {u \in {t.cases[i].steps[j] : j \in DOMAIN t.cases[i].steps} : Cond(t.cases[i], u)}} :
           i \in DOMAIN t.cases}
Every(c, s) == TRUE
\* The factory does not take an implementation or a registry without code.
Withheld(t) == {f \in t.given \cap About(t, Every) : f \notin {Code("IMPL"), Code(REG)}}

-----------------------------------------------------------------------------
(* Plans. *)

StepAt(t, i, j) == t.cases[i].steps[j]
OpsOf(t) == {s.op : s \in StepsOf(t.cases)}
Judges(c) == c.onFail # "pass"

\* The shape of a script, and what the kinds of cases and steps have in common: an
\* error is never waved through where a mismatch is not, nor a transaction that is
\* late where the outcome is compared; no operation destroys a contract.
WellFormed(t) ==
  /\ Len(t.cases) \in Nat /\ DOMAIN t.cases = 1 .. Len(t.cases) /\ Len(t.cases) > 0
  /\ ~Stale(t, Code("CHAIN"))
  /\ \A i \in DOMAIN t.cases :
       LET c == t.cases[i] IN
       /\ Len(c.steps) \in Nat /\ DOMAIN c.steps = 1 .. Len(c.steps) /\ Len(c.steps) > 0
       /\ {c.onFail, c.onError} \subseteq {"stop", "count", "pass"}
       /\ Judges(c) => c.onError # "pass"
  /\ \A s \in StepsOf(t.cases) :
       /\ s.kind \in {"do", "make", "see", "seeNot", "refuse", "reject", "reverts"}
       /\ s.late = "passes" => s.kind = "do" /\ ~s.exact
       /\ s.kind = "reject" => ~s.exact
       /\ \A op \in OpsOf(t) : s.op.target \notin op.cuts

\* Facts that no run of t makes hold, or cease to hold, on a release that lacks m.
OpsWithout(t, m) == {op \in OpsOf(t) : m \notin op.needs \cup {op.target}}
Never(t, m, f)   == f \notin Found(t, m) /\ \A op \in OpsWithout(t, m) : f \notin op.adds
Always(t, m, f)  == f \in Found(t, m) /\ ~Stale(t, f) /\ \A op \in OpsWithout(t, m) : f \notin op.cuts

\* Steps that no run skips; those among them that fail where there is no code.
Surely(t, m, s) == (\A f \in s.when : Always(t, m, f)) /\ (\A f \in s.unless : Never(t, m, f))
NoticesCode(t, m, s) ==
  /\ Surely(t, m, s)
  /\ s.kind \in {"make", "see", "seeNot", "reverts"} \/ (s.kind = "refuse" /\ s.exact)
\* Steps after which there is code: they read it, or create it if it is not there.
Creates(s, code) ==
  s.kind = "make" /\ code \in s.op.adds /\ s.op.settled \in {<<>>, code} /\ s.when = {} /\ s.unless \subseteq {code}
Ensures(t, m, s, code) == (NoticesCode(t, m, s) /\ s.op.target = code) \/ Creates(s, code)
\* Steps that fail in every run, and are taken for failures: there is no code, or
\* what a transaction needs does not hold.
Fresh(t, m, op) == op.settled # <<>> => Never(t, m, op.settled)
Fails(t, m, s) ==
  \/ NoticesCode(t, m, s) /\ Never(t, m, s.op.target)
  \/ /\ Surely(t, m, s) /\ Sends(s) /\ Fresh(t, m, s.op)
     /\ Always(t, m, s.op.target) /\ \E f \in s.op.needs : Never(t, m, f)

\* A transaction to an address without code passes: a step that sends one is
\* preceded by one that ensures the code, or followed by one that fails.
CodeIsNoticed(t) ==
  \A m \in {<<>>} \cup Withheld(t) : \A i \in DOMAIN t.cases : \A j \in DOMAIN t.cases[i].steps :
    LET s == StepAt(t, i, j) IN
    Asserts(t.cases[i], s) /\ s.kind = "do" =>
      \/ Always(t, m, s.op.target)
      \/ \E k \in DOMAIN t.cases : \E l \in DOMAIN t.cases[k].steps :
           /\ k < i \/ (k = i /\ l < j)
           /\ Judges(t.cases[k]) /\ Ensures(t, m, StepAt(t, k, l), s.op.target)
      \/ \E k \in DOMAIN t.cases : \E l \in DOMAIN t.cases[k].steps :
           /\ i < k \/ (k = i /\ j < l)
           /\ Judges(t.cases[k]) /\ Fails(t, m, StepAt(t, k, l))

\* Steps that no run skips and that cannot come out as they should without m.
Doomed(t, m, s) ==
  /\ Surely(t, m, s)
  /\ \/ m = s.op.target
     \/ Sends(s) /\ m \in s.op.needs /\ Fresh(t, m, s.op)
     \/ s.kind = "see" /\ m \in s.facts
     \/ s.kind = "refuse" /\ m \in (s.op.needs \ s.facts) \cup (s.facts \ s.op.needs)

\* What a script asserts, it asserts by a step of that kind; what a release lacks,
\* no script supplies.
LackIsNoticed(t) ==
  /\ \A m \in {<<>>} \cup Withheld(t) : Never(t, m, m)
  /\ \A m \in ({<<>>} \cup Withheld(t)) \cap About(t, Asserts) :
       \E i \in DOMAIN t.cases : \E j \in DOMAIN t.cases[i].steps :
         Asserts(t.cases[i], StepAt(t, i, j)) /\ Doomed(t, m, StepAt(t, i, j))

-----------------------------------------------------------------------------
(* Plans that come out as they should on a complete release. *)

\* Scripts whose verdict is up to the release: not those that use up what they
\* find, nor those whose refusal has more than one error.
Steady(t) == ~t.once /\ \A s \in StepsOf(t.cases) : ~s.whim

\* What runs of t can find: all they change is about the subjects of one run, or
\* two changes after another are all there are.
ChangesOwn(t) == \A op \in OpsOf(t) : \A f \in op.adds \cup op.cuts : Stale(t, f)
OneMore(t, S) == S \cup {After(all, op) : all \in S, op \in OpsOf(t)}
Finds(t) ==
  IF ChangesOwn(t) THEN {Found(t, <<>>)} ELSE OneMore(t, OneMore(t, {Found(t, <<>>)}))

\* The facts before each step of an undisturbed run that finds some.
Course(t, all) ==
  LET places == UNION {{<<i, j>> : j \in DOMAIN t.cases[i].steps} : i \in DOMAIN t.cases}
      at[p \in places] ==
        IF p[2] > 1 THEN Leaving(at[<<p[1], p[2] - 1>>], StepAt(t, p[1], p[2] - 1))
        ELSE IF p[1] > 1
        THEN LET last == <<p[1] - 1, Len(t.cases[p[1] - 1].steps)>> IN Leaving(at[last], StepAt(t, last[1], last[2]))
        ELSE all
  IN at
Follows(t, all, at) ==
  /\ at[<<1, 1>>] = all
  /\ \A i \in DOMAIN t.cases : \A j \in DOMAIN t.cases[i].steps :
       LET s == StepAt(t, i, j) IN
       /\ Skipped(at[<<i, j>>], s) \/ Passes(at[<<i, j>>], s)
       /\ j < Len(t.cases[i].steps) => at[<<i, j + 1>>] = Leaving(at[<<i, j>>], s)
       /\ j = Len(t.cases[i].steps) /\ i < Len(t.cases) => at[<<i + 1, 1>>] = Leaving(at[<<i, j>>], s)

RunsThrough(t) ==
  /\ ChangesOwn(t) \/ t.fresh = {}
  /\ \A f \in Found(t, <<>>) : ~Stale(t, f)
  /\ \A all \in Finds(t) : Follows(t, all, Course(t, all))
  /\ ChangesOwn(t) \/ \A all \in Finds(t) : \A op \in OpsOf(t) : After(all, op) \in Finds(t)

-----------------------------------------------------------------------------
\* TLC evaluates these for every script there is.
ASSUME PlansAreWellFormed == \A n \in DOMAIN AcceptanceTest : WellFormed(AcceptanceTest[n])
ASSUME PlansNoticeCode    == \A n \in DOMAIN AcceptanceTest : CodeIsNoticed(AcceptanceTest[n])
ASSUME PlansNoticeLacks   == \A n \in DOMAIN AcceptanceTest : LackIsNoticed(AcceptanceTest[n])
ASSUME PlansRunThrough ==
  \A n \in DOMAIN AcceptanceTest : Steady(AcceptanceTest[n]) => RunsThrough(AcceptanceTest[n])

=============================================================================
