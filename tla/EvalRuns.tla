------------------------------ MODULE EvalRuns ------------------------------
(***************************************************************************)
(* One run of the evaluation suite (cmd/harness-eval/main.go,              *)
(* internal/eval/runner.go and client.go), and the comparison of its       *)
(* report with another.                                                    *)
(*                                                                         *)
(* Tasks run one after the other, the repetitions of a task concurrently   *)
(* within a semaphore, each in a copy of the task's tree.  The server and  *)
(* the checkers are external: a request is answered, fails or takes too    *)
(* long, and a checker exits, cannot start or takes too long.  A server    *)
(* whose client gave up may have a tool call in flight, which still writes *)
(* to the workspace.  An interrupt may come at any time.                   *)
(***************************************************************************)
EXTENDS EvalReport, Sequences, SequencesExt

CONSTANTS
  Entries,      \* the directories of the suite and what they hold
  Onlys,        \* what -only may name
  InOrder,      \* the names of some tasks, in order
  Settings,     \* -concurrency and -keep
  Fallback,     \* -n
  Dir,          \* names that MkdirTemp may come up with
  Trees,        \* bound: how an agent may leave a workspace
  TurnCounts,   \* bound: turns that a run may take
  Stops,        \* bound: why it may stop, Unsaid if the stream did not say
  Baselines     \* reports that this one is compared with

None == "none"

\* What is below a directory that does not exist.
Gone == <<>>

\* Reasons to stop other than having answered (agent.StopReason), and the one
\* the harness gives itself.
Ceilings == {"max_iterations", "wall_clock", "max_tokens", "cancelled", "error",
             "timeout"}

ASSUME EvalAssumption ==
  /\ None \notin Dir /\ Fallback \in Nat
  /\ Settings \subseteq [concurrency : Nat \ {0}, keep : BOOLEAN]
  /\ Entries \subseteq [name : STRING, dir : STRING, whole : BOOLEAN,
                         repetitions : Int, maxTurns : Int, repo : Trees,
                         expectNoChanges : BOOLEAN, mustSurvive : SUBSET STRING]
  /\ Gone \notin Trees /\ TurnCounts \subseteq Nat
  /\ Stops \subseteq {Unsaid, "complete"} \cup Ceilings
  /\ \A names \in SUBSET {t.name : t \in Entries} :
       InOrder[names] \in Seq(names) /\ names = ToSet(InOrder[names])

\* A report as the harness writes one (Summarise, Report.Save).
Written(R) ==
  IsFiniteSet(R) /\ \A r \in R : r.measured \in Nat /\ r.passed \in 0..r.measured

\* A baseline is a file that the harness wrote.
ASSUME BaselineAssumption == \A base \in Baselines : Written(base)

VARIABLES
  opts,         \* [concurrency, keep]
  loaded,       \* whether the suite was read
  suite,        \* its tasks, none if one of them is bad
  todo,         \* names of the tasks that have not been started
  runs,         \* repetitions of the task that runs
  slots,        \* what is left of the semaphore
  disk,         \* the tree below each directory, or Gone
  busy,         \* directories that an abandoned tool call still writes to
  interrupted,  \* whether the context is cancelled
  report,       \* reports of the tasks that have ended
  verdict       \* what the report was compared with, and the verdict

vars == <<opts, loaded, suite, todo, runs, slots, disk, busy, interrupted,
          report, verdict>>
plan == <<opts, loaded, suite>>
result == <<report, verdict>>
-----------------------------------------------------------------------------
NoVerdict == [a |-> {}, b |-> {}, says |-> None]

Task(name) == CHOOSE t \in suite : t.name = name

Running == runs # <<>>

Fresh(name) ==
  [task |-> name, stage |-> "queued", dir |-> None, turns |-> 0, stop |-> Unsaid,
   failures |-> {}, error |-> FALSE, passed |-> FALSE, fact |-> None]

Init ==
  /\ opts \in Settings
  /\ loaded = FALSE /\ suite = {} /\ todo = <<>> /\ runs = <<>>
  /\ slots = opts.concurrency
  /\ disk = [d \in Dir |-> Gone] /\ busy = {}
  /\ interrupted = FALSE
  /\ report = {} /\ verdict = NoVerdict

Load(only) ==
  /\ ~loaded /\ loaded' = TRUE
  /\ suite' = LoadSuite(Entries, only)
  /\ todo' = InOrder[{t.name : t \in suite'}]
  /\ UNCHANGED <<opts, runs, slots, disk, busy, interrupted, result>>

StartTask ==
  /\ todo # <<>> /\ ~Running /\ ~interrupted
  /\ runs' = [i \in 1..RepetitionsOr(Task(Head(todo)), Fallback) |->
                Fresh(Head(todo))]
  /\ todo' = Tail(todo)
  /\ slots' = opts.concurrency
  /\ UNCHANGED <<plan, disk, busy, interrupted, result>>

\* The loop over the tasks stops at an interrupt, with what it has.
StopEarly ==
  /\ todo # <<>> /\ ~Running /\ interrupted
  /\ todo' = <<>>
  /\ UNCHANGED <<plan, runs, slots, disk, busy, interrupted, result>>

Interrupt ==
  /\ todo # <<>> \/ Running
  /\ ~interrupted
  /\ interrupted' = TRUE
  /\ UNCHANGED <<plan, todo, runs, slots, disk, busy, result>>
-----------------------------------------------------------------------------
(* One repetition.  fact is what really happened (history).                *)

At(i, stage) == i \in DOMAIN runs /\ runs[i].stage = stage

\* Deliberately wrong: a repetition that is not run keeps its place.
AcquireKept(i) ==
  /\ At(i, "queued") /\ slots > 0
  /\ slots' = slots - 1
  /\ runs' = IF interrupted
             THEN [runs EXCEPT ![i].stage = "over", ![i].error = TRUE,
                               ![i].fact = "cancelled"]
             ELSE [runs EXCEPT ![i].stage = "admitted"]
  /\ UNCHANGED <<plan, todo, disk, busy, interrupted, result>>

Acquire(i) ==
  /\ At(i, "queued") /\ slots > 0
  /\ IF interrupted
     THEN /\ runs' = [runs EXCEPT ![i].stage = "over", ![i].error = TRUE,
                                  ![i].fact = "cancelled"]
          /\ UNCHANGED slots
     ELSE /\ runs' = [runs EXCEPT ![i].stage = "admitted"]
          /\ slots' = slots - 1
  /\ UNCHANGED <<plan, todo, disk, busy, interrupted, result>>

\* prepare: a new directory, whichever, and a copy of the template, and the
\* first Scan.
Prepare(i) ==
  LET d == CHOOSE d \in Dir : disk[d] = Gone
  IN  /\ At(i, "admitted")
      /\ \E e \in Dir : disk[e] = Gone
      /\ runs' = [runs EXCEPT ![i].stage = "asking", ![i].dir = d]
      /\ disk' = [disk EXCEPT ![d] = Task(runs[i].task).repo]
      /\ UNCHANGED <<plan, todo, slots, busy, interrupted, result>>

\* The directory cannot be made, or not be filled, and is removed again,
\* unless -keep leaves what is there of it.
PrepareFails(i) ==
  /\ At(i, "admitted")
  /\ \/ UNCHANGED disk
     \/ /\ opts.keep
        /\ \E d \in Dir, tree \in Trees :
             disk[d] = Gone /\ disk' = [disk EXCEPT ![d] = tree]
  /\ slots' = slots + 1
  /\ runs' = [runs EXCEPT ![i].stage = "over", ![i].error = TRUE,
                          ![i].fact = "no workspace"]
  /\ UNCHANGED <<plan, todo, busy, interrupted, result>>

\* The whole stream was read: what the agent did, and what the task's
\* specification says of it.
Answer(i, tree, turns, stop) ==
  LET t == Task(runs[i].task)
      d == runs[i].dir
  IN  /\ At(i, "asking") /\ ~interrupted
      /\ disk' = [disk EXCEPT ![d] = tree]
      /\ runs' = [runs EXCEPT
           ![i].stage = "checking", ![i].turns = turns, ![i].stop = stop,
           ![i].failures = DeclarativeFailures(t, Diff(Scan(disk[d]), Scan(tree)),
                                               turns, stop)]
      /\ UNCHANGED <<plan, todo, slots, busy, interrupted, result>>

\* What the server does with a request its client gave up on: nothing more,
\* or what the tool call in flight still does.
Abandon(i) ==
  /\ busy' \in {busy, busy \cup {runs[i].dir}}
  /\ UNCHANGED <<plan, todo, slots, disk, interrupted, result>>

\* The deadline of the repetition: the agent failed to finish.
TimedOut(i) ==
  /\ At(i, "asking") /\ ~interrupted
  /\ runs' = [runs EXCEPT ![i].stage = "judged", ![i].failures = {"timed out"},
                          ![i].stop = "timeout", ![i].fact = "late"]
  /\ Abandon(i)

\* The request is refused, cut off, or cancelled by the interrupt, or what it
\* left cannot be scanned or recorded.
RequestFails(i) ==
  /\ At(i, "asking")
  /\ runs' = [runs EXCEPT ![i].stage = "judged", ![i].error = TRUE,
                          ![i].fact = IF interrupted THEN "cancelled"
                                      ELSE "no answer"]
  /\ Abandon(i)

Outcomes == {"zero", "one", "broken", "unstartable", "late"}

(***************************************************************************)
(* The checker.  With the context cancelled it is killed, or not even      *)
(* started, unless it was done by then, and the run is said to have timed  *)
(* out there.  "broken" is an exit of 99.                                  *)
(***************************************************************************)
Check(i, outcome) ==
  LET stopped == interrupted /\ outcome # "zero"
      cut == outcome = "late" \/ stopped
      error == ~cut /\ outcome \in {"broken", "unstartable"}
      failures == runs[i].failures
                    \cup (IF cut THEN {"the checker timed out"} ELSE {})
                    \cup (IF ~cut /\ outcome = "one" THEN {"check failed"} ELSE {})
  IN  /\ At(i, "checking")
      /\ runs' = [runs EXCEPT
           ![i].stage = "judged", ![i].error = error, ![i].failures = failures,
           ![i].passed = ~error /\ failures = {},
           ![i].fact = IF stopped THEN "cut off" ELSE outcome]
      /\ UNCHANGED <<plan, todo, slots, disk, busy, interrupted, result>>

(***************************************************************************)
(* The deferred cleanup and release.  RemoveAll cannot be relied upon      *)
(* while something writes below the directory, and its error is dropped.   *)
(* What is still written there is followed no further, nor are turns and   *)
(* stop reason, which are only laid out.                                   *)
(***************************************************************************)
Release(i) ==
  LET d == runs[i].dir
      without == [disk EXCEPT ![d] = Gone]
  IN  /\ At(i, "judged")
      /\ runs' = [runs EXCEPT ![i].stage = "over", ![i].dir = None,
                              ![i].turns = 0, ![i].stop = Unsaid]
      /\ slots' = slots + 1
      /\ disk' \in CASE opts.keep -> {disk}
                     [] ~opts.keep /\ d \in busy -> {disk, without}
                     [] OTHER -> {without}
      /\ busy' = busy \ {d}
      /\ UNCHANGED <<plan, todo, interrupted, result>>

LateWrite(d, tree) ==
  /\ d \in busy /\ disk[d] # Gone
  /\ disk' = [disk EXCEPT ![d] = tree]
  /\ UNCHANGED <<plan, todo, runs, slots, busy, interrupted, result>>

Settle(d) ==
  /\ d \in busy
  /\ busy' = busy \ {d}
  /\ UNCHANGED <<plan, todo, runs, slots, disk, interrupted, result>>
-----------------------------------------------------------------------------
Waited == Running /\ \A i \in DOMAIN runs : runs[i].stage = "over"

Collect ==
  /\ Waited
  /\ report' = report \cup {Summarise(Task(runs[1].task), runs)}
  /\ runs' = <<>>
  /\ UNCHANGED <<plan, todo, slots, disk, busy, interrupted, verdict>>

Done == loaded /\ todo = <<>> /\ ~Running

\* harness-eval compare, before and after in either order.  A report without
\* tasks is not loaded.
CompareReports(before, after) ==
  /\ Done /\ verdict = NoVerdict
  /\ before # {} /\ after # {}
  /\ verdict' = [a |-> before, b |-> after,
                 says |-> Verdict(Compare(before, after))]
  /\ UNCHANGED <<plan, todo, runs, slots, disk, busy, interrupted, report>>

Step(i) ==
  \/ Acquire(i) \/ Prepare(i) \/ PrepareFails(i)
  \/ \E tree \in Trees, turns \in TurnCounts, stop \in Stops :
       Answer(i, tree, turns, stop)
  \/ TimedOut(i) \/ RequestFails(i)
  \/ \E outcome \in Outcomes : Check(i, outcome)
  \/ Release(i)

Reps == 1..Max({t.repetitions : t \in Entries} \cup {Fallback, 1})

Next ==
  \/ \E only \in Onlys : Load(only)
  \/ StartTask \/ StopEarly \/ Interrupt \/ Collect
  \/ \E i \in Reps : Step(i)
  \/ \E d \in Dir : Settle(d) \/ \E tree \in Trees : LateWrite(d, tree)
  \/ \E base \in Baselines :
       CompareReports(base, report) \/ CompareReports(report, base)

Spec == Init /\ [][Next]_vars

(***************************************************************************)
(* The harness's own steps are taken.  A request ends because runCtx has a *)
(* deadline, and so does a checker; nothing is assumed of the agent, the   *)
(* server or the user.                                                     *)
(***************************************************************************)
FairSpec ==
  /\ Spec
  /\ WF_vars((\E only \in Onlys : Load(only)) \/ StartTask \/ StopEarly \/ Collect)
  /\ \A i \in Reps : WF_vars(Step(i))
-----------------------------------------------------------------------------
\* What happened to the measurement, not to the agent.
NotMeasured ==
  {"cancelled", "no workspace", "no answer", "broken", "unstartable", "cut off"}

Failings == {"changed", "deleted", "turns", "ceiling", "timed out",
             "the checker timed out", "check failed"}

Run ==
  [task : {t.name : t \in suite}, dir : Dir \cup {None},
   stage : {"queued", "admitted", "asking", "checking", "judged", "over"},
   turns : Nat, stop : {Unsaid, "complete"} \cup Ceilings,
   failures : SUBSET Failings, error : BOOLEAN, passed : BOOLEAN,
   fact : {None} \cup Outcomes \cup NotMeasured]

TypeOK ==
  /\ opts \in [concurrency : Nat \ {0}, keep : BOOLEAN]
  /\ loaded \in BOOLEAN /\ interrupted \in BOOLEAN /\ slots \in Nat
  /\ suite \subseteq Entries
  /\ todo \in Seq({t.name : t \in suite}) /\ runs \in Seq(Run)
  /\ disk \in [Dir -> Trees \cup {Gone}] /\ busy \subseteq Dir

\* A run that is reported as passed did no damage: the tree it left, its turns
\* and its end satisfy the specification of the task, and the checker agreed.
\* A run that satisfied all of that is not reported as failed (runOnce,
\* declarativeFailures, check).
DamageShows ==
  \A i \in DOMAIN runs :
    LET r == runs[i]
        t == Task(r.task)
        left == Scan(disk[r.dir])
        sound == /\ t.expectNoChanges => left = Scan(t.repo)
                 /\ t.mustSurvive \cap DOMAIN Scan(t.repo) \subseteq DOMAIN left
                 /\ t.maxTurns > 0 => r.turns <= t.maxTurns
                 /\ r.stop \notin Ceilings
    IN  r.stage = "judged" /\ r.fact \in {"zero", "one", "late"} =>
          (r.passed <=> sound /\ r.fact = "zero")

\* Every repetition starts from the template, in a directory that no other
\* repetition uses, whatever was abandoned before (prepare, CopyTree).
FreshWorkspaces ==
  LET Using == {i \in DOMAIN runs :
                  runs[i].stage \in {"asking", "checking", "judged"}}
  IN  /\ \A i, j \in Using : runs[i].dir = runs[j].dir => i = j
      /\ \A i \in Using : runs[i].stage = "asking" =>
           disk[runs[i].dir] = Task(runs[i].task).repo

\* A repetition measures the agent, and nothing that came before it.
MeasuresTheAgent == DamageShows /\ FreshWorkspaces

Lost == {i \in DOMAIN runs : runs[i].fact \in NotMeasured}

\* The runs whose checker an interrupt stopped.
CutOff == {i \in DOMAIN runs : runs[i].fact = "cut off"}

Agreed == {i \in DOMAIN runs : runs[i].fact = "zero" /\ runs[i].failures = {}}

CountedOnce(r) ==
  /\ r.attempts = RepetitionsOr(Task(r.name), Fallback)
  /\ r.attempts = r.measured + r.errored
  /\ r.errored = Cardinality(Lost \ CutOff)
  /\ r.passed = Cardinality(Agreed)

\* The report of a task accounts for each of its repetitions once.  Those that
\* said nothing about the agent are errors and in no rate, but for those whose
\* checker an interrupt stopped: the code counts them as failures of the agent.
\* Those that passed are those without a failure whose checker agreed.  Reports
\* are of the first tasks, in order (RunTask, Summarise, the loop of runSuite).
EveryRunIsCounted ==
  [][ report' # report =>
        /\ CountedOnce(CHOOSE x \in report' : x \notin report)
        /\ \A t \in suite : \/ t.name \in {x.name : x \in report'}
                            \/ t.name \in ToSet(todo)
    ]_vars

(***************************************************************************)
(* A difference is called real only if, of all ways to pick which of the   *)
(* measured runs of the shared tasks pass, fewer than one in twenty split  *)
(* them between the reports in a way as rare as the observed one, or rarer *)
(* (Compare, Significant, fisherExact).                                    *)
(***************************************************************************)
VerdictIsHonest ==
  LET Both == {x.name : x \in verdict.a} \cap {x.name : x \in verdict.b}
      Runs(R, field) == Total(field, {x \in R : x.name \in Both})
      n == Runs(verdict.a, "measured")
      all == n + Runs(verdict.b, "measured")
      hits == Runs(verdict.a, "passed")
      Picks == kSubset(hits + Runs(verdict.b, "passed"), 1..all)
      Ways == [k \in 0..n |->
                 Cardinality({s \in Picks : Cardinality(s \cap 1..n) = k})]
      Rare == {s \in Picks : Ways[Cardinality(s \cap 1..n)] <= Ways[hits]}
  IN  verdict # NoVerdict =>
        (verdict.says \in {"better", "worse"} <=>
           n > 0 /\ all > n /\ 20 * Cardinality(Rare) < Cardinality(Picks))

\* A suite ends, interrupted or not, with every slot given back.
SuiteEnds == <>Done
=============================================================================
