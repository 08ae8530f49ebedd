----------------------------- MODULE EvalReport -----------------------------
(***************************************************************************)
(* How the evaluation harness judges a run and compares two reports        *)
(* (internal/eval: task.go, snapshot.go, runner.go, report.go and          *)
(* compare.go).  A tree maps the paths of its regular files to contents.   *)
(* Left out: tokens, durations, per-tool counts, the warnings about        *)
(* different models, and how reports are laid out.                         *)
(***************************************************************************)
EXTENDS Integers, FiniteSets, FiniteSetsExt, Functions, TLC

CONSTANT Private    \* paths below .git and .harness

\* A task specification that can be run, and told from the others by name.
ValidTask(t) ==
  /\ t.whole /\ t.name = t.dir
  /\ ~(t.expectNoChanges /\ t.mustSurvive # {})

\* Every task is looked at before any runs, and one that is asked for and does
\* not exist is an error.  A suite that cannot be loaded has no tasks.
LoadSuite(entries, only) ==
  LET chosen == {t \in entries : only = {} \/ t.dir \in only}
  IN  IF \/ chosen = {} \/ \E t \in chosen : ~ValidTask(t)
         \/ ~(only \subseteq {t.dir : t \in chosen})
      THEN {} ELSE chosen

RepetitionsOr(t, fallback) ==
  IF t.repetitions > 0 THEN t.repetitions ELSE Max({fallback, 1})

Scan(tree) == Restrict(tree, DOMAIN tree \ Private)

Diff(before, after) ==
  [created |-> DOMAIN after \ DOMAIN before,
   modified |-> {p \in DOMAIN after \cap DOMAIN before : after[p] # before[p]},
   deleted |-> DOMAIN before \ DOMAIN after]

\* The stop reason of a run whose stream named none: the empty text.
Unsaid == "unsaid"

NoChange == [created |-> {}, modified |-> {}, deleted |-> {}]

\* Deliberately wrong: deletions are not looked for.
DeclarativeNoDamage(t, changed, turns, stop) ==
  { f \in {"changed", "turns", "ceiling"} :
      CASE f = "changed" -> t.expectNoChanges /\ changed # NoChange
        [] f = "turns" -> t.maxTurns > 0 /\ turns > t.maxTurns
        [] f = "ceiling" -> stop \notin {Unsaid, "complete"} }

\* What the specification says directly, whatever the checker says.
DeclarativeFailures(t, changed, turns, stop) ==
  { f \in {"changed", "deleted", "turns", "ceiling"} :
      CASE f = "changed" -> t.expectNoChanges /\ changed # NoChange
        [] f = "deleted" -> t.mustSurvive \cap changed.deleted # {}
        [] f = "turns" -> t.maxTurns > 0 /\ turns > t.maxTurns
        [] f = "ceiling" -> stop \notin {Unsaid, "complete"} }
-----------------------------------------------------------------------------
\* Deliberately wrong: runs that were not measured count as failures.
SummariseAll(t, runs) ==
  [name |-> t.name, attempts |-> Cardinality(DOMAIN runs), errored |-> 0,
   measured |-> Cardinality(DOMAIN runs),
   passed |-> Cardinality({i \in DOMAIN runs : runs[i].passed})]

\* The report of a task, from its runs.
Summarise(t, runs) ==
  LET errored == {i \in DOMAIN runs : runs[i].error}
      passed == {i \in DOMAIN runs \ errored : runs[i].passed}
      attempts == Cardinality(DOMAIN runs)
  IN  [name |-> t.name, attempts |-> attempts, errored |-> Cardinality(errored),
       measured |-> attempts - Cardinality(errored),
       passed |-> Cardinality(passed)]

\* A total over task reports (Report.Finish, Compare).
Total(field, tasks) == MapThenSumSet(LAMBDA t : t[field], tasks)
-----------------------------------------------------------------------------
Choose[n \in Nat] ==
  [k \in Nat |-> IF k = 0 THEN 1 ELSE IF k > n THEN 0
                 ELSE (Choose[n - 1][k - 1] * n) \div k]

\* Deliberately wrong: tables as likely as the observed one are left out.
FisherStrict(a, b, c, d) ==
  LET W(k) == Choose[a + b][k] * Choose[c + d][a + c - k]
      K == Max({0, a - d}) .. Min({a + b, a + c})
  IN  [num |-> MapThenSumSet(W, {k \in K : W(k) < W(a)}),
       den |-> Choose[a + b + c + d][a + c]]

(***************************************************************************)
(* The two-sided p-value of a table with a + b runs of which a passed, and *)
(* c + d of which c passed: a fraction here, a sum of exponentials in the  *)
(* code, which may round a p of exactly 5% to either side.                 *)
(***************************************************************************)
FisherExact(a, b, c, d) ==
  LET W(k) == Choose[a + b][k] * Choose[c + d][a + c - k]
      K == Max({0, a - d}) .. Min({a + b, a + c})
  IN  [num |-> MapThenSumSet(W, {k \in K : W(k) <= W(a)}),
       den |-> Choose[a + b + c + d][a + c]]

\* Only tasks of both reports count.
Compare(A, B) ==
  LET shared == {t.name : t \in A} \cap {t.name : t \in B}
      In(R) == {t \in R : t.name \in shared}
  IN  [passedA |-> Total("passed", In(A)), measuredA |-> Total("measured", In(A)),
       passedB |-> Total("passed", In(B)), measuredB |-> Total("measured", In(B))]

Significant(c) ==
  LET p == FisherExact(c.passedA, c.measuredA - c.passedA,
                       c.passedB, c.measuredB - c.passedB)
  IN  c.measuredA > 0 /\ c.measuredB > 0 /\ 20 * p.num < p.den

\* The sentence printVerdict ends with.
Verdict(c) ==
  CASE c.measuredA = 0 \/ c.measuredB = 0 -> "not enough runs"
    [] Significant(c) /\ c.passedB > c.passedA -> "better"
    [] Significant(c) /\ c.passedB <= c.passedA -> "worse"
    [] OTHER -> "no difference"
=============================================================================
