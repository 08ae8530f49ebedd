--------------------------- MODULE EvalRunsProofs ---------------------------
(***************************************************************************)
(* Theorems about EvalRuns: every repetition measures the agent in a       *)
(* workspace of its own, every repetition is counted once, and a verdict   *)
(* is what counting the ways to pick the runs that pass says.              *)
(***************************************************************************)
EXTENDS EvalRuns, TLAPS, FiniteSetTheorems, SequenceTheorems,
        WellFoundedInduction

Using == {i \in DOMAIN runs : runs[i].stage \in {"asking", "checking", "judged"}}

\* What the task's specification says of a run and of the tree it left.
Judgement(r, tree) ==
  DeclarativeFailures(Task(r.task), Diff(Scan(Task(r.task).repo), Scan(tree)),
                      r.turns, r.stop)

\* Nothing has been said yet about a run that has not been judged.
Unjudged(r) == ~r.error /\ ~r.passed /\ r.fact = None

\* What a run knows at its stage, given the tree below its directory.
Queued(r) == r.stage = "queued" => Unjudged(r)
Admitted(r) == r.stage = "admitted" => Unjudged(r)
Asking(r) ==
  r.stage = "asking" => Unjudged(r) /\ disk[r.dir] = Task(r.task).repo
Checking(r) ==
  r.stage = "checking" => Unjudged(r) /\ r.failures = Judgement(r, disk[r.dir])
Judged(r) ==
  r.stage = "judged" /\ r.fact = "zero" =>
    r.dir \notin busy /\ r.failures = Judgement(r, disk[r.dir])
Ended(r) ==
  r.stage \in {"judged", "over"} =>
    /\ r.error <=> r.fact \in NotMeasured \ {"cut off"}
    /\ r.passed <=> r.fact = "zero" /\ r.failures = {}

RunOK(r) ==
  Queued(r) /\ Admitted(r) /\ Asking(r) /\ Checking(r) /\ Judged(r) /\ Ended(r)

\* A run in a workspace has one of its own; what was abandoned writes only to
\* the workspace of a run that has been judged.
Apart ==
  /\ \A i \in Using : runs[i].dir \in Dir /\ disk[runs[i].dir] \in Trees
  /\ \A i, j \in Using : runs[i].dir = runs[j].dir => i = j
  /\ \A d \in busy : \E i \in Using : runs[i].stage = "judged" /\ runs[i].dir = d

\* The runs are the repetitions of one task, and every task has been
\* reported, is running or is to come, unless the suite was stopped.
Accounted ==
  /\ ~loaded => suite = {} /\ todo = <<>> /\ runs = <<>>
  /\ Running =>
       /\ \A i \in DOMAIN runs : runs[i].task = runs[1].task
       /\ Len(runs) = RepetitionsOr(Task(runs[1].task), Fallback)
  /\ todo # <<>> \/ Running =>
       \A t \in suite :
         \/ t.name \in {x.name : x \in report} \/ t.name \in ToSet(todo)
         \/ Running /\ t.name = runs[1].task

RunsOK == \A i \in DOMAIN runs : RunOK(runs[i])

EvalInv == TypeOK /\ Apart /\ RunsOK /\ Accounted
-----------------------------------------------------------------------------
(* Facts about the operators of EvalReport.                                *)

\* A task runs a positive number of times.
LEMMA RepetitionsPositive ==
  ASSUME NEW t \in Entries
  PROVE  RepetitionsOr(t, Fallback) \in Nat \ {0}
<1>1. t.repetitions \in Int
  BY EvalAssumption
<1>2. \E m \in {Fallback, 1} : \A y \in {Fallback, 1} : m >= y
  <2>1. CASE Fallback >= 1
    BY <2>1, EvalAssumption
  <2>2. CASE ~(Fallback >= 1)
    BY <2>2, EvalAssumption
  <2> QED BY <2>1, <2>2
<1>3. /\ Max({Fallback, 1}) \in {Fallback, 1}
      /\ \A y \in {Fallback, 1} : Max({Fallback, 1}) >= y
  BY <1>2 DEF Max
<1> QED BY <1>1, <1>3, EvalAssumption DEF RepetitionsOr

\* A task of the suite is found by its name.
LEMMA TaskFound ==
  ASSUME NEW name \in {t.name : t \in suite}
  PROVE  Task(name) \in suite /\ Task(name).name = name
BY DEF Task

\* Trees that do not differ are the same, and a file is deleted if it was
\* there and is not there any more.
LEMMA DiffSays ==
  ASSUME NEW before, NEW after
  PROVE  /\ Diff(Scan(before), Scan(after)) = NoChange
              <=> Scan(after) = Scan(before)
         /\ Diff(Scan(before), Scan(after)).deleted
              = DOMAIN Scan(before) \ DOMAIN Scan(after)
<1> DEFINE A == DOMAIN before \ Private
           B == DOMAIN after \ Private
           f == [x \in A |-> before[x]]
           g == [x \in B |-> after[x]]
<1>1. Scan(before) = f /\ Scan(after) = g
  BY DEF Scan, Restrict
<1>2. DOMAIN f = A /\ DOMAIN g = B
  OBVIOUS
<1>3. Diff(f, g) = [created |-> B \ A,
                    modified |-> {p \in B \cap A : g[p] # f[p]},
                    deleted |-> A \ B]
  BY <1>2 DEF Diff
<1> HIDE DEF f, g
<1>4. Diff(f, g) = NoChange
        <=> /\ B \ A = {} /\ A \ B = {}
            /\ {p \in B \cap A : g[p] # f[p]} = {}
  BY <1>3 DEF NoChange
<1>5. g = f => Diff(f, g) = NoChange
  <2>1. ASSUME g = f PROVE A = B
    BY <2>1, <1>2
  <2> QED BY <2>1, <1>4
<1>6. ASSUME Diff(f, g) = NoChange PROVE g = f
  <2>1. A = B /\ \A p \in A : g[p] = f[p]
    BY <1>4, <1>6
  <2>2. \A p \in A : before[p] = after[p]
    BY <2>1 DEF f, g
  <2> QED BY <2>1, <2>2 DEF f, g
<1> QED BY <1>1, <1>2, <1>3, <1>5, <1>6

\* What the task's specification says of what a run left: nothing, if and
\* only if it did no damage.
Sound(t, r, left) ==
  /\ t.expectNoChanges => left = Scan(t.repo)
  /\ t.mustSurvive \cap DOMAIN Scan(t.repo) \subseteq DOMAIN left
  /\ t.maxTurns > 0 => r.turns <= t.maxTurns
  /\ r.stop \notin Ceilings

LEMMA JudgementIsSound ==
  ASSUME NEW t \in Entries, NEW r, NEW tree,
         r.turns \in Nat, r.stop \in {Unsaid, "complete"} \cup Ceilings
  PROVE  DeclarativeFailures(t, Diff(Scan(t.repo), Scan(tree)), r.turns, r.stop) = {}
           <=> Sound(t, r, Scan(tree))
<1> DEFINE c == Diff(Scan(t.repo), Scan(tree))
<1>1. DeclarativeFailures(t, c, r.turns, r.stop) = {}
        <=> /\ ~(t.expectNoChanges /\ c # NoChange)
            /\ ~(t.mustSurvive \cap c.deleted # {})
            /\ ~(t.maxTurns > 0 /\ r.turns > t.maxTurns)
            /\ ~(r.stop \notin {Unsaid, "complete"})
  <2> HIDE DEF c
  <2> QED BY DEF DeclarativeFailures
<1>2. c # NoChange <=> ~(Scan(tree) = Scan(t.repo))
  BY DiffSays
<1>3. c.deleted = DOMAIN Scan(t.repo) \ DOMAIN Scan(tree)
  BY DiffSays
<1> HIDE DEF c
<1>4. t.mustSurvive \cap c.deleted # {}
        <=> ~(t.mustSurvive \cap DOMAIN Scan(t.repo) \subseteq DOMAIN Scan(tree))
  BY <1>3
<1>5. t.maxTurns > 0 /\ r.turns > t.maxTurns
        <=> ~(t.maxTurns > 0 => r.turns <= t.maxTurns)
  BY EvalAssumption
<1>6. r.stop \notin {Unsaid, "complete"} <=> r.stop \in Ceilings
  BY DEF Ceilings, Unsaid
<1> QED BY <1>1, <1>2, <1>4, <1>5, <1>6 DEF Sound, c
-----------------------------------------------------------------------------
(* Steps of one repetition.                                                *)

LEMMA Start == Init => EvalInv
<1> SUFFICES ASSUME Init PROVE EvalInv
  OBVIOUS
<1>1. TypeOK
  <2>1. opts \in [concurrency : Nat \ {0}, keep : BOOLEAN]
    BY EvalAssumption DEF Init
  <2>2. todo \in Seq({t.name : t \in suite}) /\ runs \in Seq(Run)
    BY EmptySeq DEF Init
  <2>3. slots \in Nat
    BY <2>1 DEF Init
  <2> QED BY <2>1, <2>2, <2>3 DEF Init, TypeOK
<1>2. runs = <<>> /\ DOMAIN runs = {} /\ busy = {} /\ ~Running
  BY DEF Init, Running
<1> QED BY <1>1, <1>2 DEF EvalInv, Apart, Accounted, RunsOK, Init, Using

\* The place of a run, and its fields.
LEMMA Fields ==
  ASSUME TypeOK, NEW i \in DOMAIN runs
  PROVE  /\ runs[i] \in Run /\ i \in 1..Len(runs)
         /\ DOMAIN runs = 1..Len(runs) /\ Len(runs) \in Nat
BY ElementOfSeq, LenProperties DEF TypeOK

\* A run that is not touched, and whose workspace is not, is as it was.
LEMMA OthersKept ==
  ASSUME RunsOK, NEW j \in DOMAIN runs, runs'[j] = runs[j], suite' = suite,
         j \in Using => /\ disk'[runs[j].dir] = disk[runs[j].dir]
                        /\ runs[j].dir \in busy' => runs[j].dir \in busy
  PROVE  RunOK(runs[j])'
<1>1. RunOK(runs[j])
  BY DEF RunsOK
<1>2. \A name : Task(name)' = Task(name)
  BY DEF Task
<1>3. CASE j \in Using
  BY <1>1, <1>2, <1>3
     DEF RunOK, Queued, Admitted, Asking, Checking, Judged, Ended, Unjudged, Judgement
<1>4. CASE j \notin Using
  <2>1. runs[j].stage \notin {"asking", "checking", "judged"}
    BY <1>4 DEF Using
  <2> QED BY <1>1, <2>1
          DEF RunOK, Queued, Admitted, Asking, Checking, Judged, Ended, Unjudged
<1> QED BY <1>3, <1>4

(***************************************************************************)
(* A step that gives repetition i the fields r keeps the invariant if r is *)
(* what its stage asks for, and no other repetition's workspace is touched.*)
(***************************************************************************)
LEMMA Moved ==
  ASSUME EvalInv, NEW i \in DOMAIN runs, NEW r,
         r \in Run, r.task = runs[i].task, runs' = [runs EXCEPT ![i] = r],
         UNCHANGED <<plan, todo, report>>,
         slots' \in Nat, interrupted' \in BOOLEAN, busy' \subseteq Dir,
         disk' \in [Dir -> Trees \cup {Gone}],
         \A j \in Using \ {i} :
           /\ disk'[runs[j].dir] = disk[runs[j].dir]
           /\ runs[j].dir \in busy' => runs[j].dir \in busy,
         RunOK(r)',
         r.stage \in {"asking", "checking", "judged"} =>
           /\ r.dir \in Dir /\ disk'[r.dir] \in Trees
           /\ \A j \in Using \ {i} : runs[j].dir # r.dir,
         \A d \in busy' : d \in busy \/ (d = r.dir /\ r.stage = "judged"),
         runs[i].stage = "judged" /\ runs[i].dir \in busy' =>
           r.stage = "judged" /\ r.dir = runs[i].dir
  PROVE  EvalInv'
<1> USE DEF EvalInv
<1>1. /\ runs' \in Seq(Run) /\ Len(runs') = Len(runs)
      /\ \A j \in DOMAIN runs : runs'[j] = IF j = i THEN r ELSE runs[j]
  BY Fields, ExceptSeq DEF TypeOK
<1>2. DOMAIN runs' = DOMAIN runs
  BY <1>1, LenProperties DEF TypeOK
<1>3. Run' = Run
  BY DEF Run, plan
<1>4. TypeOK'
  BY <1>1, <1>3 DEF TypeOK, plan
<1>5. RunsOK'
  <2> SUFFICES ASSUME NEW j \in DOMAIN runs PROVE RunOK(runs[j])'
    BY <1>2 DEF RunsOK
  <2>1. CASE j = i
    <3>1. runs'[j] = r
      BY <1>1, <2>1
    <3> QED BY <3>1
  <2>2. CASE j # i
    <3>1. runs'[j] = runs[j] /\ suite' = suite
      BY <1>1, <2>2 DEF plan
    <3>2. j \in Using => /\ disk'[runs[j].dir] = disk[runs[j].dir]
                         /\ runs[j].dir \in busy' => runs[j].dir \in busy
      BY <2>2
    <3> QED BY <3>1, <3>2, OthersKept
  <2> QED BY <2>1, <2>2
<1>6. \A j \in Using' : j # i => j \in Using /\ runs'[j] = runs[j]
  BY <1>1, <1>2 DEF Using
<1>7. i \in Using' => r.stage \in {"asking", "checking", "judged"}
  BY <1>1 DEF Using
<1>8. Apart'
  <2>1. ASSUME NEW j \in Using' PROVE runs'[j].dir \in Dir /\ disk'[runs'[j].dir] \in Trees
    BY <1>1, <1>6, <1>7 DEF Apart
  <2>2. ASSUME NEW j \in Using', NEW k \in Using', runs'[j].dir = runs'[k].dir
        PROVE  j = k
    BY <1>1, <1>6, <1>7, <2>2 DEF Apart
  <2>3. ASSUME NEW d \in busy'
        PROVE  \E j \in Using' : runs'[j].stage = "judged" /\ runs'[j].dir = d
    <3>1. CASE d = r.dir /\ r.stage = "judged"
      BY <1>1, <1>2, <3>1 DEF Using
    <3>2. CASE ~(d = r.dir /\ r.stage = "judged")
      <4>1. PICK j \in Using : runs[j].stage = "judged" /\ runs[j].dir = d
        BY <3>2 DEF Apart
      <4>2. j # i
        BY <4>1, <3>2
      <4> QED BY <4>1, <4>2, <1>1, <1>2 DEF Using
    <3> QED BY <3>1, <3>2
  <2> QED BY <2>1, <2>2, <2>3 DEF Apart
<1>9. Accounted'
  <2>1. Running /\ Running'
    BY Fields, <1>1, EmptySeq DEF Running
  <2>2. 1 \in DOMAIN runs
    BY Fields
  <2>3. \A j \in DOMAIN runs : runs'[j].task = runs[j].task
    BY <1>1
  <2>4. Task(runs[1].task)' = Task(runs[1].task)
    BY <1>1, <2>2, <2>3 DEF Task, plan
  <2> QED BY <2>1, <2>2, <2>3, <2>4, <1>1, <1>2 DEF Accounted, plan
<1> QED BY <1>4, <1>5, <1>8, <1>9

(* The steps, in the order a repetition takes them.                        *)

LEMMA FailuresAreNamed ==
  ASSUME NEW t, NEW c, NEW turns, NEW stop
  PROVE  DeclarativeFailures(t, c, turns, stop) \in SUBSET Failings
<1>1. DeclarativeFailures(t, c, turns, stop)
        \subseteq {"changed", "deleted", "turns", "ceiling"}
  BY Zenon DEF DeclarativeFailures
<1> QED BY <1>1 DEF Failings

LEMMA AcquireStep ==
  ASSUME EvalInv, NEW i, Acquire(i)
  PROVE  EvalInv'
<1> USE DEF EvalInv
<1>1. i \in DOMAIN runs /\ runs[i].stage = "queued" /\ slots > 0
  BY DEF Acquire, At
<1>2. runs[i] \in Run /\ RunOK(runs[i]) /\ i \notin Using
  BY <1>1, Fields DEF RunsOK, Using
<1>3. PICK r : \/ /\ r = [runs[i] EXCEPT !.stage = "over", !.error = TRUE,
                                         !.fact = "cancelled"]
                  /\ runs' = [runs EXCEPT ![i] = r] /\ slots' = slots
               \/ /\ r = [runs[i] EXCEPT !.stage = "admitted"]
                  /\ runs' = [runs EXCEPT ![i] = r] /\ slots' = slots - 1
  BY DEF Acquire
<1>4. UNCHANGED <<plan, todo, disk, busy, interrupted, report>>
  BY DEF Acquire, result
<1>5. /\ r \in Run /\ r.task = runs[i].task
      /\ r.stage \in {"over", "admitted"}
  BY <1>1, <1>2, <1>3 DEF Run, NotMeasured
<1>6. slots' \in Nat
  BY <1>1, <1>3 DEF TypeOK
<1>7. RunOK(r)'
  BY <1>1, <1>2, <1>3 DEF RunOK, Queued, Admitted, Asking, Checking, Judged,
                          Ended, Unjudged, Run, NotMeasured
<1> QED BY <1>1, <1>2, <1>3, <1>4, <1>5, <1>6, <1>7, Moved DEF TypeOK

LEMMA PrepareStep ==
  ASSUME EvalInv, NEW i, Prepare(i)
  PROVE  EvalInv'
<1> USE DEF EvalInv
<1>1. i \in DOMAIN runs /\ runs[i].stage = "admitted"
  BY DEF Prepare, At
<1>2. runs[i] \in Run /\ RunOK(runs[i]) /\ i \notin Using
  BY <1>1, Fields DEF RunsOK, Using
<1>3. PICK d \in Dir : /\ disk[d] = Gone
                       /\ runs' = [runs EXCEPT ![i].stage = "asking", ![i].dir = d]
                       /\ disk' = [disk EXCEPT ![d] = Task(runs[i].task).repo]
  BY DEF Prepare
<1>4. PICK r : r = [runs[i] EXCEPT !.stage = "asking", !.dir = d]
  OBVIOUS
<1>5. runs' = [runs EXCEPT ![i] = r]
  BY <1>3, <1>4
<1>6. UNCHANGED <<plan, todo, slots, busy, interrupted, report>>
  BY DEF Prepare, result
<1>7. /\ r \in Run /\ r.task = runs[i].task /\ r.dir = d /\ r.stage = "asking"
      /\ ~r.error /\ ~r.passed /\ r.fact = None
  BY <1>1, <1>2, <1>4 DEF Run, RunOK, Admitted, Unjudged
<1>8. Task(r.task) \in suite /\ Task(r.task).repo \in Trees
  <2>1. r.task \in {t.name : t \in suite}
    BY <1>7 DEF Run
  <2>2. Task(r.task) \in suite /\ suite \subseteq Entries
    BY <2>1, TaskFound DEF TypeOK
  <2> QED BY <2>2, EvalAssumption
<1>9. disk' \in [Dir -> Trees \cup {Gone}] /\ disk'[d] = Task(r.task).repo
  BY <1>3, <1>7, <1>8 DEF TypeOK
<1>10. RunOK(r)'
  <2>1. Task(r.task)' = Task(r.task)
    BY <1>6 DEF Task, plan
  <2> QED BY <1>7, <1>9, <2>1 DEF RunOK, Queued, Admitted, Asking, Checking, Judged,
                                 Ended, Unjudged
<1>11. \A j \in Using : runs[j].dir # d /\ disk'[runs[j].dir] = disk[runs[j].dir]
  BY <1>3, EvalAssumption DEF Apart, TypeOK
<1> QED BY <1>1, <1>2, <1>5, <1>6, <1>7, <1>8, <1>9, <1>10, <1>11, Moved DEF TypeOK

LEMMA PrepareFailsStep ==
  ASSUME EvalInv, NEW i, PrepareFails(i)
  PROVE  EvalInv'
<1> USE DEF EvalInv
<1>1. i \in DOMAIN runs /\ runs[i].stage = "admitted"
  BY DEF PrepareFails, At
<1>2. runs[i] \in Run /\ RunOK(runs[i]) /\ i \notin Using
  BY <1>1, Fields DEF RunsOK, Using
<1>3. PICK r : r = [runs[i] EXCEPT !.stage = "over", !.error = TRUE,
                                   !.fact = "no workspace"]
  OBVIOUS
<1>4. /\ runs' = [runs EXCEPT ![i] = r] /\ slots' = slots + 1
      /\ UNCHANGED <<plan, todo, busy, interrupted, report>>
  BY <1>3 DEF PrepareFails, result
<1>5. /\ r \in Run /\ r.task = runs[i].task /\ r.stage = "over"
      /\ r.error /\ ~r.passed /\ r.fact = "no workspace"
  BY <1>1, <1>2, <1>3 DEF Run, NotMeasured, RunOK, Admitted, Unjudged
<1>6. slots' \in Nat
  BY <1>4 DEF TypeOK
<1>7. RunOK(r)'
  BY <1>5 DEF RunOK, Queued, Admitted, Asking, Checking, Judged, Ended, NotMeasured
<1>8. /\ disk' \in [Dir -> Trees \cup {Gone}]
      /\ \A j \in Using : disk'[runs[j].dir] = disk[runs[j].dir]
  <2>1. CASE disk' = disk
    BY <2>1 DEF TypeOK
  <2>2. ASSUME NEW d \in Dir, NEW tree \in Trees,
               disk[d] = Gone, disk' = [disk EXCEPT ![d] = tree]
        PROVE  /\ disk' \in [Dir -> Trees \cup {Gone}]
               /\ \A j \in Using : disk'[runs[j].dir] = disk[runs[j].dir]
    BY <2>2, EvalAssumption DEF TypeOK, Apart
  <2> QED BY <2>1, <2>2 DEF PrepareFails
<1> QED BY <1>1, <1>2, <1>4, <1>5, <1>6, <1>7, <1>8, Moved DEF TypeOK

LEMMA AnswerStep ==
  ASSUME EvalInv, NEW i, NEW tree \in Trees, NEW turns \in TurnCounts,
         NEW stop \in Stops, Answer(i, tree, turns, stop)
  PROVE  EvalInv'
<1> USE DEF EvalInv
<1>1. i \in DOMAIN runs /\ runs[i].stage = "asking"
  BY DEF Answer, At
<1>2. runs[i] \in Run /\ RunOK(runs[i]) /\ i \in Using
  BY <1>1, Fields DEF RunsOK, Using
<1> DEFINE d == runs[i].dir
           t == Task(runs[i].task)
           failures == DeclarativeFailures(t, Diff(Scan(disk[d]), Scan(tree)), turns, stop)
<1>3. PICK r : r = [runs[i] EXCEPT !.stage = "checking", !.turns = turns, !.stop = stop,
                                   !.failures = failures]
  OBVIOUS
<1>4. /\ runs' = [runs EXCEPT ![i] = r]
      /\ disk' = [disk EXCEPT ![d] = tree]
      /\ UNCHANGED <<plan, todo, slots, busy, interrupted, report>>
  BY <1>3 DEF Answer, result
<1>5. failures \in SUBSET Failings
  BY FailuresAreNamed
<1> HIDE DEF failures
<1>6. /\ r \in Run /\ r.task = runs[i].task /\ r.dir = d /\ r.stage = "checking"
      /\ r.failures = failures /\ r.turns = turns /\ r.stop = stop
      /\ ~r.error /\ ~r.passed /\ r.fact = None /\ disk[d] = t.repo
  <2>1. turns \in Nat /\ stop \in {Unsaid, "complete"} \cup Ceilings
    BY EvalAssumption
  <2>2. Unjudged(runs[i]) /\ disk[d] = t.repo
    BY <1>1, <1>2 DEF RunOK, Asking
  <2> QED BY <1>1, <1>2, <1>3, <1>5, <2>1, <2>2 DEF Run, Unjudged
<1>7. d \in Dir /\ disk' \in [Dir -> Trees \cup {Gone}] /\ disk'[d] = tree
  BY <1>2, <1>4 DEF Apart, TypeOK
<1>8. RunOK(r)'
  <2>1. t' = Task(runs[i].task)' /\ Task(r.task)' = t
    BY <1>4, <1>6 DEF Task, plan
  <2>2. r.failures = Judgement(r, disk[r.dir])'
    BY <1>6, <1>7, <2>1 DEF Judgement, failures
  <2> QED BY <1>6, <2>2 DEF RunOK, Queued, Admitted, Asking, Checking, Judged,
                                 Ended, Unjudged
<1>9. \A j \in Using \ {i} : runs[j].dir # d /\ disk'[runs[j].dir] = disk[runs[j].dir]
  BY <1>2, <1>4 DEF Apart, TypeOK
<1>10. slots' \in Nat /\ interrupted' \in BOOLEAN /\ busy' \subseteq Dir
  BY <1>4 DEF TypeOK
<1> HIDE DEF d, t, EvalInv
<1> QED BY <1>1, <1>4, <1>6, <1>7, <1>8, <1>9, <1>10, Moved

\* The request ends without an answer, and may leave something that writes.
LEMMA UnansweredStep ==
  ASSUME EvalInv, NEW i, TimedOut(i) \/ RequestFails(i)
  PROVE  EvalInv'
<1> USE DEF EvalInv
<1>1. i \in DOMAIN runs /\ runs[i].stage = "asking"
  BY DEF TimedOut, RequestFails, At
<1>2. runs[i] \in Run /\ RunOK(runs[i]) /\ i \in Using
  BY <1>1, Fields DEF RunsOK, Using
<1>3. PICK r :
        /\ \/ r = [runs[i] EXCEPT !.stage = "judged", !.failures = {"timed out"},
                                  !.stop = "timeout", !.fact = "late"]
           \/ \E f \in {"cancelled", "no answer"} :
                r = [runs[i] EXCEPT !.stage = "judged", !.error = TRUE, !.fact = f]
        /\ runs' = [runs EXCEPT ![i] = r]
  <2>1. CASE TimedOut(i)
    BY <2>1 DEF TimedOut
  <2>2. CASE RequestFails(i)
    <3>1. PICK f \in {"cancelled", "no answer"} :
            f = IF interrupted THEN "cancelled" ELSE "no answer"
      OBVIOUS
    <3> QED BY <2>2, <3>1 DEF RequestFails
  <2> QED BY <2>1, <2>2
<1>4. /\ UNCHANGED <<plan, todo, slots, disk, interrupted, report>>
      /\ busy' \in {busy, busy \cup {runs[i].dir}}
  BY DEF TimedOut, RequestFails, Abandon, result
<1>5. Unjudged(runs[i])
  BY <1>1, <1>2 DEF RunOK, Asking
<1>6. /\ r \in Run /\ r.task = runs[i].task /\ r.dir = runs[i].dir
      /\ r.stage = "judged" /\ ~r.passed /\ (r.error <=> r.fact \in NotMeasured \ {"cut off"})
      /\ r.fact \in {"late", "cancelled", "no answer"}
  <2>1. CASE r = [runs[i] EXCEPT !.stage = "judged", !.failures = {"timed out"},
                                 !.stop = "timeout", !.fact = "late"]
    <3>1. {"timed out"} \in SUBSET Failings /\ "timeout" \in Ceilings
      BY DEF Ceilings, Failings
    <3>2. "late" \in Outcomes
      BY DEF Outcomes
    <3> QED BY <1>2, <1>5, <2>1, <3>1, <3>2 DEF Run, Unjudged, NotMeasured
  <2>2. CASE \E f \in {"cancelled", "no answer"} :
          r = [runs[i] EXCEPT !.stage = "judged", !.error = TRUE, !.fact = f]
    <3>1. PICK f \in {"cancelled", "no answer"} :
            r = [runs[i] EXCEPT !.stage = "judged", !.error = TRUE, !.fact = f]
      BY <2>2
    <3> QED BY <1>2, <1>5, <3>1 DEF Run, Unjudged, NotMeasured
  <2> QED BY <1>3, <2>1, <2>2
<1>7. RunOK(r)'
  BY <1>6 DEF RunOK, Queued, Admitted, Asking, Checking, Judged, Ended
<1>8. /\ r.dir \in Dir /\ disk'[r.dir] \in Trees /\ busy' \subseteq Dir
      /\ \A j \in Using \ {i} : runs[j].dir # r.dir
  <2>1. runs[i].dir \in Dir /\ disk[runs[i].dir] \in Trees /\ disk' = disk
    BY <1>2, <1>4 DEF Apart
  <2>2. busy' \subseteq Dir
    BY <1>4, <2>1 DEF TypeOK
  <2>3. \A j \in Using \ {i} : runs[j].dir # runs[i].dir
    BY <1>2 DEF Apart
  <2> QED BY <1>6, <2>1, <2>2, <2>3
<1> QED BY <1>1, <1>3, <1>4, <1>6, <1>7, <1>8, Moved DEF TypeOK

LEMMA CheckStep ==
  ASSUME EvalInv, NEW i, NEW outcome \in Outcomes, Check(i, outcome)
  PROVE  EvalInv'
<1> USE DEF EvalInv
<1> DEFINE cut == outcome = "late" \/ (interrupted /\ outcome # "zero")
           error == ~cut /\ outcome \in {"broken", "unstartable"}
           failures == runs[i].failures
                         \cup (IF cut THEN {"the checker timed out"} ELSE {})
                         \cup (IF ~cut /\ outcome = "one" THEN {"check failed"} ELSE {})
           fact == IF interrupted /\ outcome # "zero" THEN "cut off" ELSE outcome
<1>1. i \in DOMAIN runs /\ runs[i].stage = "checking"
  BY DEF Check, At
<1>2. runs[i] \in Run /\ RunOK(runs[i]) /\ i \in Using
  BY <1>1, Fields DEF RunsOK, Using
<1>3. PICK r : r = [runs[i] EXCEPT
                      !.stage = "judged", !.error = error, !.failures = failures,
                      !.passed = (~error /\ failures = {}), !.fact = fact]
  OBVIOUS
<1>4. /\ runs' = [runs EXCEPT ![i] = r]
      /\ UNCHANGED <<plan, todo, slots, disk, busy, interrupted, report>>
  BY <1>3 DEF Check, result
<1>5. Unjudged(runs[i]) /\ runs[i].failures = Judgement(runs[i], disk[runs[i].dir])
  BY <1>1, <1>2 DEF RunOK, Checking
<1>6. error \in BOOLEAN /\ (error <=> fact \in NotMeasured \ {"cut off"})
  BY DEF NotMeasured, Outcomes
<1>7. fact = "zero" => ~error /\ failures = runs[i].failures
  OBVIOUS
<1>8. fact \in Outcomes \cup NotMeasured
  BY DEF NotMeasured
<1>9. failures \in SUBSET Failings
  BY <1>2 DEF Run, Failings
<1>10. fact # "zero" => error \/ failures # {}
  BY DEF Outcomes
<1> HIDE DEF cut, error, failures, fact
<1>11. /\ r \in Run /\ r.task = runs[i].task /\ r.dir = runs[i].dir
       /\ r.turns = runs[i].turns /\ r.stop = runs[i].stop
       /\ r.stage = "judged" /\ r.error = error /\ r.failures = failures
       /\ r.passed = (~error /\ failures = {}) /\ r.fact = fact
  BY <1>2, <1>3, <1>6, <1>8, <1>9 DEF Run
<1>12. RunOK(r)'
  <2>1. Judgement(r, disk[r.dir])' = Judgement(runs[i], disk[runs[i].dir])
    BY <1>4, <1>11 DEF Judgement, Task, plan
  <2>2. fact = "zero" => r.dir \notin busy'
    <3>1. \A j \in Using : runs[j].stage = "judged" => runs[j].dir # runs[i].dir
      BY <1>1, <1>2 DEF Apart
    <3> QED BY <1>4, <1>11, <3>1 DEF Apart
  <2>3. Judged(r)'
    BY <1>5, <1>7, <1>11, <2>1, <2>2 DEF Judged
  <2>4. Ended(r)'
    BY <1>6, <1>7, <1>10, <1>11 DEF Ended
  <2> QED BY <1>11, <2>3, <2>4 DEF RunOK, Queued, Admitted, Asking, Checking
<1>13. /\ r.dir \in Dir /\ disk'[r.dir] \in Trees
       /\ \A j \in Using \ {i} : runs[j].dir # r.dir
  BY <1>2, <1>4, <1>11 DEF Apart
<1> QED BY <1>1, <1>4, <1>11, <1>12, <1>13, Moved DEF TypeOK

LEMMA ReleaseStep ==
  ASSUME EvalInv, NEW i, Release(i)
  PROVE  EvalInv'
<1> USE DEF EvalInv
<1> DEFINE d == runs[i].dir
<1>1. i \in DOMAIN runs /\ runs[i].stage = "judged"
  BY DEF Release, At
<1>2. runs[i] \in Run /\ RunOK(runs[i]) /\ i \in Using
  BY <1>1, Fields DEF RunsOK, Using
<1>3. PICK r : r = [runs[i] EXCEPT !.stage = "over", !.dir = None, !.turns = 0,
                                   !.stop = Unsaid]
  OBVIOUS
<1>4. /\ runs' = [runs EXCEPT ![i] = r] /\ slots' = slots + 1 /\ busy' = busy \ {d}
      /\ UNCHANGED <<plan, todo, interrupted, report>>
  BY <1>3 DEF Release, result
<1>5. disk' \in {disk, [disk EXCEPT ![d] = Gone]}
  BY DEF Release
<1>6. /\ r \in Run /\ r.task = runs[i].task /\ r.stage = "over"
      /\ r.error = runs[i].error /\ r.passed = runs[i].passed
      /\ r.fact = runs[i].fact /\ r.failures = runs[i].failures
  BY <1>2, <1>3 DEF Run
<1>7. RunOK(r)'
  <2>1. Ended(r)'
    BY <1>1, <1>2, <1>6 DEF RunOK, Ended
  <2> QED BY <1>6, <2>1 DEF RunOK, Queued, Admitted, Asking, Checking, Judged
<1>8. d \in Dir /\ \A j \in Using \ {i} : runs[j].dir \in Dir /\ runs[j].dir # d
  BY <1>2 DEF Apart
<1>9. /\ disk' \in [Dir -> Trees \cup {Gone}]
      /\ \A j \in Using \ {i} : disk'[runs[j].dir] = disk[runs[j].dir]
  BY <1>5, <1>8 DEF TypeOK
<1>10. slots' \in Nat /\ busy' \subseteq Dir /\ d \notin busy' /\ busy' \subseteq busy
  BY <1>4 DEF TypeOK
<1>11. interrupted' \in BOOLEAN
  BY <1>4 DEF TypeOK
<1> HIDE DEF EvalInv
<1> QED BY <1>1, <1>4, <1>6, <1>7, <1>9, <1>10, <1>11, Moved

(* The steps beside the repetitions.                                       *)

\* What an abandoned tool call writes to, and when it stops.
LEMMA LateWriteStep ==
  ASSUME EvalInv, NEW d, NEW tree \in Trees, LateWrite(d, tree)
  PROVE  EvalInv'
<1> USE DEF EvalInv
<1>1. /\ d \in busy /\ d \in Dir /\ disk' = [disk EXCEPT ![d] = tree]
      /\ UNCHANGED <<plan, todo, runs, slots, busy, interrupted, report>>
  BY DEF LateWrite, result, TypeOK
<1>2. PICK i \in Using : runs[i].stage = "judged" /\ runs[i].dir = d
  BY <1>1 DEF Apart
<1>3. /\ \A j \in Using : j # i => disk'[runs[j].dir] = disk[runs[j].dir]
      /\ disk'[d] = tree /\ disk' \in [Dir -> Trees \cup {Gone}]
  BY <1>1, <1>2 DEF Apart, TypeOK
<1>4. TypeOK'
  <2>1. Run' = Run
    BY <1>1 DEF Run, plan
  <2> QED BY <1>1, <1>3, <2>1 DEF TypeOK, plan
<1>5. Using' = Using
  BY <1>1 DEF Using
<1>6. Apart'
  BY <1>1, <1>2, <1>3, <1>5 DEF Apart
<1>7. RunsOK'
  <2> SUFFICES ASSUME NEW j \in DOMAIN runs PROVE RunOK(runs[j])'
    BY <1>1 DEF RunsOK
  <2>1. CASE j = i
    <3>1. RunOK(runs[i])
      BY <2>1 DEF RunsOK
    <3>2. runs[i].fact # "zero"
      BY <1>1, <1>2, <3>1 DEF RunOK, Judged
    <3> QED BY <1>1, <1>2, <2>1, <3>1, <3>2
            DEF RunOK, Queued, Admitted, Asking, Checking, Judged, Ended
  <2>2. CASE j # i
    <3>1. runs'[j] = runs[j] /\ suite' = suite /\ busy' = busy
      BY <1>1 DEF plan
    <3>2. j \in Using => /\ disk'[runs[j].dir] = disk[runs[j].dir]
                         /\ runs[j].dir \in busy' => runs[j].dir \in busy
      BY <1>3, <2>2, <3>1
    <3> QED BY <3>1, <3>2, OthersKept
  <2> QED BY <2>1, <2>2
<1>8. Accounted'
  BY <1>1 DEF Accounted, plan, Running, Task
<1> QED BY <1>4, <1>6, <1>7, <1>8

\* Steps that leave the repetitions and their workspaces alone.
LEMMA RunsAside ==
  ASSUME EvalInv, UNCHANGED <<suite, runs, disk>>, busy' \subseteq busy
  PROVE  Apart' /\ RunsOK'
<1> USE DEF EvalInv
<1>1. Using' = Using
  BY DEF Using
<1>2. Apart'
  BY <1>1 DEF Apart
<1>3. ASSUME NEW j \in DOMAIN runs PROVE RunOK(runs[j])'
  BY OthersKept
<1> QED BY <1>2, <1>3 DEF RunsOK

\* Accounted depends on nothing else.
LEMMA AccountedKept ==
  ASSUME Accounted, UNCHANGED <<loaded, suite, todo, runs, report>>
  PROVE  Accounted'
BY DEF Accounted, Running, Task

LEMMA SettleStep ==
  ASSUME EvalInv, NEW d, Settle(d)
  PROVE  EvalInv'
<1> USE DEF EvalInv
<1>1. /\ busy' = busy \ {d}
      /\ UNCHANGED <<plan, todo, runs, slots, disk, interrupted, report>>
  BY DEF Settle, result
<1>2. Run' = Run
  BY <1>1 DEF Run, plan
<1>3. TypeOK'
  BY <1>1, <1>2 DEF TypeOK, plan
<1>4. Apart' /\ RunsOK'
  BY <1>1, RunsAside DEF plan
<1> QED BY <1>1, <1>3, <1>4, AccountedKept DEF plan

LEMMA BesideStep ==
  ASSUME EvalInv,
         \/ Interrupt
         \/ \E a, b : CompareReports(a, b)
         \/ UNCHANGED vars
  PROVE  EvalInv'
<1> USE DEF EvalInv
<1>1. /\ interrupted' \in BOOLEAN
      /\ UNCHANGED <<opts, loaded, suite, todo, runs, slots, disk, busy, report>>
  BY DEF Interrupt, CompareReports, vars, plan, result, TypeOK
<1>2. Run' = Run
  BY <1>1 DEF Run
<1>3. TypeOK'
  BY <1>1, <1>2 DEF TypeOK
<1>4. Apart' /\ RunsOK'
  BY <1>1, RunsAside
<1> QED BY <1>1, <1>3, <1>4, AccountedKept

\* Between tasks there is nothing to say about repetitions.
LEMMA NoRuns ==
  ASSUME runs = <<>>
  PROVE  RunsOK /\ Using = {} /\ ~Running
<1>1. DOMAIN runs = {}
  OBVIOUS
<1> QED BY <1>1 DEF RunsOK, Using, Running

LEMMA LoadStep ==
  ASSUME EvalInv, NEW only, Load(only)
  PROVE  EvalInv'
<1> USE DEF EvalInv
<1> DEFINE names == {t.name : t \in suite'}
<1>1. /\ ~loaded /\ loaded' = TRUE /\ suite' = LoadSuite(Entries, only)
      /\ todo' = InOrder[names]
      /\ UNCHANGED <<opts, runs, slots, disk, busy, interrupted, report>>
  BY DEF Load, result
<1>2. suite' \subseteq Entries
  BY <1>1 DEF LoadSuite
<1>3. names \in SUBSET {t.name : t \in Entries}
  BY <1>2
<1>4. todo' \in Seq(names) /\ names = ToSet(todo')
  BY <1>1, <1>3, EvalAssumption
<1>5. runs = <<>> /\ runs' = <<>>
  BY <1>1 DEF Accounted
<1>6. TypeOK'
  <2>1. runs' \in Seq(Run')
    BY <1>5, EmptySeq
  <2> QED BY <1>1, <1>2, <1>4, <2>1 DEF TypeOK
<1>7. RunsOK' /\ Using' = {} /\ ~Running'
  BY <1>5 DEF RunsOK, Using, Running
<1>8. busy' = {}
  <2>1. Using = {}
    BY <1>5, NoRuns
  <2> QED BY <1>1, <2>1 DEF Apart
<1>9. Apart'
  BY <1>7, <1>8 DEF Apart
<1>10. Accounted'
  BY <1>1, <1>4, <1>7 DEF Accounted
<1> QED BY <1>6, <1>7, <1>9, <1>10

LEMMA StopEarlyStep ==
  ASSUME EvalInv, StopEarly
  PROVE  EvalInv'
<1> USE DEF EvalInv
<1>1. /\ todo' = <<>> /\ ~Running /\ runs = <<>> /\ todo # <<>>
      /\ UNCHANGED <<plan, runs, slots, disk, busy, interrupted, report>>
  BY DEF StopEarly, result, Running
<1>2. Run' = Run /\ {t.name : t \in suite'} = {t.name : t \in suite}
  BY <1>1 DEF Run, plan
<1>3. TypeOK'
  BY <1>1, <1>2, EmptySeq DEF TypeOK, plan
<1>4. Apart' /\ RunsOK'
  BY <1>1, RunsAside DEF plan
<1>5. Accounted'
  BY <1>1 DEF Accounted, plan, Running
<1> QED BY <1>3, <1>4, <1>5

LEMMA StartTaskStep ==
  ASSUME EvalInv, StartTask
  PROVE  EvalInv'
<1> USE DEF EvalInv
<1> DEFINE name == Head(todo)
           n == RepetitionsOr(Task(name), Fallback)
           S == {t.name : t \in suite}
<1>1. /\ todo # <<>> /\ ~Running /\ todo' = Tail(todo)
      /\ runs' = [i \in 1..n |-> Fresh(name)]
      /\ slots' = opts.concurrency
      /\ UNCHANGED <<plan, disk, busy, interrupted, report>>
  BY DEF StartTask, result
<1>2. todo \in Seq(S) /\ name \in S /\ todo' \in Seq(S)
  BY <1>1, HeadTailProperties DEF TypeOK
<1>3. Task(name) \in Entries /\ n \in Nat \ {0}
  BY <1>2, TaskFound, RepetitionsPositive DEF TypeOK
<1>4. Fresh(name) \in Run
  BY <1>2 DEF Fresh, Run
<1> HIDE DEF n
<1>5. /\ runs' \in Seq(Run) /\ Len(runs') = n /\ DOMAIN runs' = 1..n
      /\ \A i \in 1..n : runs'[i] = Fresh(name)
  BY <1>1, <1>3, <1>4
<1>6. Run' = Run /\ S' = S
  BY <1>1 DEF Run, plan
<1>7. TypeOK'
  <2>1. slots' \in Nat
    BY <1>1 DEF TypeOK
  <2> QED BY <1>1, <1>2, <1>5, <1>6, <2>1 DEF TypeOK, plan
<1>8. Using' = {}
  BY <1>5 DEF Using, Fresh
<1>9. busy' = {}
  <2>1. Using = {}
    BY <1>1, NoRuns DEF Running
  <2> QED BY <1>1, <2>1 DEF Apart
<1>10. Apart'
  BY <1>8, <1>9 DEF Apart
<1>11. RunsOK'
  <2>1. ASSUME NEW i \in 1..n PROVE RunOK(runs[i])'
    <3>1. runs'[i] = Fresh(name)
      BY <1>5
    <3>2. /\ runs'[i].stage = "queued" /\ ~runs'[i].error /\ ~runs'[i].passed
          /\ runs'[i].fact = None
      BY <3>1 DEF Fresh
    <3> QED BY <3>2 DEF RunOK, Queued, Admitted, Asking, Checking, Judged, Ended, Unjudged
  <2> QED BY <1>5, <2>1 DEF RunsOK
<1>12. Accounted'
  <2>1. Running' /\ runs'[1] = Fresh(name) /\ runs'[1].task = name
    <3>1. 1 \in 1..n /\ Len(runs') # 0
      BY <1>3, <1>5
    <3>2. runs' # <<>> /\ runs'[1] = Fresh(name)
      BY <1>5, <3>1
    <3> QED BY <3>2 DEF Running, Fresh
  <2>2. \A i \in DOMAIN runs' : runs'[i].task = runs'[1].task
    BY <1>5, <2>1 DEF Fresh
  <2>3. Len(runs') = RepetitionsOr(Task(runs[1].task), Fallback)'
    <3>1. Task(runs[1].task)' = Task(name)
      BY <1>1, <2>1 DEF Task, plan
    <3> QED BY <1>5, <3>1 DEF n, RepetitionsOr
  <2>4. ToSet(todo) = {name} \cup ToSet(todo')
    <3>1. /\ DOMAIN todo = 1..Len(todo) /\ DOMAIN todo' = 1..Len(todo')
          /\ Len(todo') = Len(todo) - 1 /\ Len(todo) \in Nat \ {0}
          /\ \A i \in 1..Len(todo') : todo'[i] = todo[i + 1]
      BY <1>1, <1>2, HeadTailProperties, LenProperties, EmptySeq
    <3>2. ASSUME NEW i \in 1..Len(todo), i # 1
          PROVE  i - 1 \in 1..Len(todo') /\ todo'[i - 1] = todo[i]
      BY <3>1, <3>2
    <3>3. todo[1] = name
      BY <1>1, <1>2, HeadTailProperties
    <3>4. ASSUME NEW m \in ToSet(todo) PROVE m \in {name} \cup ToSet(todo')
      <4>1. PICK i \in 1..Len(todo) : m = todo[i]
        BY <3>1, <3>4 DEF ToSet
      <4> QED BY <3>1, <3>2, <3>3, <4>1 DEF ToSet
    <3>5. ASSUME NEW m \in {name} \cup ToSet(todo') PROVE m \in ToSet(todo)
      <4>1. CASE m = name
        BY <3>1, <3>3, <4>1 DEF ToSet
      <4>2. CASE m \in ToSet(todo')
        <5>1. PICK i \in 1..Len(todo') : m = todo'[i]
          BY <3>1, <4>2 DEF ToSet
        <5>2. i + 1 \in 1..Len(todo) /\ m = todo[i + 1]
          BY <3>1, <5>1
        <5> QED BY <3>1, <5>2 DEF ToSet
      <4> QED BY <3>5, <4>1, <4>2
    <3> QED BY <3>4, <3>5
  <2>5. loaded'
    BY <1>1 DEF Accounted, plan, TypeOK
  <2>6. \A t \in suite' : \/ t.name \in {x.name : x \in report'}
                          \/ t.name \in ToSet(todo') \/ t.name = runs'[1].task
    BY <1>1, <2>1, <2>4 DEF Accounted, plan, Running
  <2> QED BY <2>1, <2>2, <2>3, <2>5, <2>6 DEF Accounted
<1> QED BY <1>7, <1>10, <1>11, <1>12

LEMMA CollectStep ==
  ASSUME EvalInv, Collect
  PROVE  EvalInv'
<1> USE DEF EvalInv
<1> DEFINE name == runs[1].task
           r == Summarise(Task(name), runs)
<1>1. /\ Running /\ runs' = <<>> /\ report' = report \cup {r}
      /\ \A i \in DOMAIN runs : runs[i].stage = "over"
      /\ UNCHANGED <<plan, todo, slots, disk, busy, interrupted>>
  BY DEF Collect, Waited
<1>2. name \in {t.name : t \in suite}
  <2>1. 1 \in DOMAIN runs
    BY <1>1, LenProperties, EmptySeq DEF Running, TypeOK
  <2> QED BY <2>1, Fields DEF Run
<1>3. r.name = name
  BY <1>2, TaskFound DEF Summarise
<1>4. TypeOK'
  <2>1. runs' \in Seq(Run')
    BY <1>1, EmptySeq
  <2> QED BY <1>1, <2>1 DEF TypeOK, plan
<1>5. RunsOK' /\ Using' = {} /\ ~Running'
  BY <1>1 DEF RunsOK, Using, Running
<1>6. busy' = {}
  <2>1. Using = {}
    BY <1>1 DEF Using
  <2> QED BY <1>1, <2>1 DEF Apart
<1>7. Apart'
  BY <1>5, <1>6 DEF Apart
<1> HIDE DEF r
<1>8. Accounted'
  BY <1>1, <1>3, <1>5 DEF Accounted, plan
<1> QED BY <1>4, <1>5, <1>7, <1>8

LEMMA EvalStep == EvalInv /\ [Next]_vars => EvalInv'
<1> SUFFICES ASSUME EvalInv, [Next]_vars PROVE EvalInv'
  OBVIOUS
<1>1. ASSUME NEW i \in Reps, Step(i) PROVE EvalInv'
  BY <1>1, AcquireStep, PrepareStep, PrepareFailsStep, AnswerStep, UnansweredStep,
     CheckStep, ReleaseStep DEF Step
<1>2. CASE \/ \E only \in Onlys : Load(only)
           \/ StartTask \/ StopEarly \/ Collect
  BY <1>2, LoadStep, StartTaskStep, StopEarlyStep, CollectStep
<1>3. CASE \E d \in Dir : Settle(d) \/ \E tree \in Trees : LateWrite(d, tree)
  BY <1>3, SettleStep, LateWriteStep
<1>4. CASE \/ Interrupt
           \/ \E base \in Baselines :
                CompareReports(base, report) \/ CompareReports(report, base)
           \/ UNCHANGED vars
  BY <1>4, BesideStep
<1> QED BY <1>1, <1>2, <1>3, <1>4 DEF Next
-----------------------------------------------------------------------------
\* The invariant (see the README for why each part of it is needed).
THEOREM RunsInvariant == Spec => []EvalInv
<1>1. Init => EvalInv
  BY Start
<1>2. EvalInv /\ [Next]_vars => EvalInv'
  BY EvalStep
<1> QED BY <1>1, <1>2, PTL DEF Spec

(***************************************************************************)
(* A run that is reported as passed did no damage, one that did none and   *)
(* whose checker agreed is reported as passed, and each repetition had the *)
(* template to itself (runOnce, check, prepare).                           *)
(***************************************************************************)
THEOREM OnlyTheAgentIsMeasured == Spec => []MeasuresTheAgent
<1>1. EvalInv => MeasuresTheAgent
  <2> SUFFICES ASSUME EvalInv PROVE MeasuresTheAgent
    OBVIOUS
  <2> USE DEF EvalInv
  <2>1. FreshWorkspaces
    <3>1. ASSUME NEW i \in Using, runs[i].stage = "asking"
          PROVE  disk[runs[i].dir] = Task(runs[i].task).repo
      <4>1. i \in DOMAIN runs
        BY DEF Using
      <4> QED BY <3>1, <4>1 DEF RunsOK, RunOK, Asking
    <3> QED BY <3>1 DEF FreshWorkspaces, Apart, Using
  <2>2. DamageShows
    <3> SUFFICES ASSUME NEW i \in DOMAIN runs, runs[i].stage = "judged",
                        runs[i].fact \in {"zero", "one", "late"}
                 PROVE  runs[i].passed
                          <=> /\ Sound(Task(runs[i].task), runs[i], Scan(disk[runs[i].dir]))
                              /\ runs[i].fact = "zero"
      BY DEF DamageShows, Sound
    <3>1. runs[i] \in Run /\ Judged(runs[i]) /\ Ended(runs[i])
      BY Fields DEF RunsOK, RunOK
    <3>2. CASE runs[i].fact # "zero"
      BY <3>1, <3>2 DEF Ended
    <3>3. CASE runs[i].fact = "zero"
      <4>1. /\ Task(runs[i].task) \in Entries
            /\ runs[i].turns \in Nat /\ runs[i].stop \in {Unsaid, "complete"} \cup Ceilings
        BY <3>1, TaskFound DEF Run, TypeOK
      <4>2. runs[i].passed <=> Judgement(runs[i], disk[runs[i].dir]) = {}
        BY <3>1, <3>3 DEF Judged, Ended
      <4> QED BY <3>3, <4>1, <4>2, JudgementIsSound DEF Judgement
    <3> QED BY <3>2, <3>3
  <2> QED BY <2>1, <2>2 DEF MeasuresTheAgent
<1> QED BY <1>1, RunsInvariant, PTL

\* A report's numbers are counts of the repetitions.
LEMMA SummaryCounts ==
  ASSUME EvalInv, Collect
  PROVE  LET r == Summarise(Task(runs[1].task), runs)
         IN  CountedOnce(r) /\ r.name = runs[1].task
<1> USE DEF EvalInv
<1> DEFINE t == Task(runs[1].task)
           r == Summarise(t, runs)
           errored == {i \in DOMAIN runs : runs[i].error}
           passed == {i \in DOMAIN runs \ errored : runs[i].passed}
<1>1. Running /\ \A i \in DOMAIN runs : runs[i].stage = "over"
  BY DEF Collect, Waited
<1>2. /\ 1 \in DOMAIN runs /\ DOMAIN runs = 1..Len(runs) /\ Len(runs) \in Nat
      /\ Len(runs) = RepetitionsOr(t, Fallback)
  BY <1>1, LenProperties, EmptySeq DEF Running, TypeOK, Accounted
<1>3. t.name = runs[1].task
  <2>1. runs[1].task \in {x.name : x \in suite}
    BY <1>2, Fields DEF Run
  <2> QED BY <2>1, TaskFound
<1>4. /\ r.name = t.name /\ r.attempts = Cardinality(DOMAIN runs)
      /\ r.errored = Cardinality(errored)
      /\ r.measured = Cardinality(DOMAIN runs) - Cardinality(errored)
      /\ r.passed = Cardinality(passed)
  BY DEF Summarise
<1>5. \A i \in DOMAIN runs :
        /\ runs[i].error <=> runs[i].fact \in NotMeasured \ {"cut off"}
        /\ runs[i].passed <=> runs[i].fact = "zero" /\ runs[i].failures = {}
  BY <1>1 DEF RunsOK, RunOK, Ended
<1>6. errored = Lost \ CutOff
  BY <1>5 DEF Lost, CutOff
<1>7. passed = Agreed
  BY <1>5 DEF Agreed, NotMeasured
<1>8. /\ IsFiniteSet(DOMAIN runs) /\ Cardinality(DOMAIN runs) = Len(runs)
      /\ Cardinality(errored) \in Nat
  <2>1. IsFiniteSet(DOMAIN runs) /\ Cardinality(DOMAIN runs) = Len(runs)
    BY <1>2, FS_Interval
  <2>2. IsFiniteSet(errored)
    BY <2>1, FS_Subset
  <2> QED BY <2>1, <2>2, FS_CardinalityType
<1>9. Task(r.name) = t
  BY <1>3, <1>4
<1> HIDE DEF t, r, errored, passed
<1>10. r.attempts = Len(runs) /\ r.attempts = r.measured + r.errored
  BY <1>2, <1>4, <1>8
<1>11. CountedOnce(r)
  BY <1>2, <1>4, <1>6, <1>7, <1>9, <1>10 DEF CountedOnce
<1> QED BY <1>3, <1>4, <1>11 DEF r, t

(***************************************************************************)
(* The report of a task accounts for each of its repetitions once, and the *)
(* tasks that have no report are still to come (RunTask, Summarise, the    *)
(* loop of runSuite).                                                      *)
(***************************************************************************)
THEOREM EveryRepetitionIsCounted == Spec => EveryRunIsCounted
<1> DEFINE Counted ==
      report' # report =>
        /\ CountedOnce(CHOOSE x \in report' : x \notin report)
        /\ \A t \in suite : \/ t.name \in {x.name : x \in report'}
                            \/ t.name \in ToSet(todo)
<1>1. EvalInv /\ [Next]_vars => Counted
  <2> SUFFICES ASSUME EvalInv, [Next]_vars, report' # report PROVE Counted
    OBVIOUS
  <2>1. Collect
    <3>1. ASSUME NEW i \in Reps, Step(i) PROVE FALSE
      <4>1. report' = report
        <5>1. CASE Acquire(i) \/ Prepare(i) \/ PrepareFails(i) \/ Release(i)
          BY <5>1 DEF Acquire, Prepare, PrepareFails, Release, result
        <5>2. CASE \E tree \in Trees, turns \in TurnCounts, stop \in Stops :
                     Answer(i, tree, turns, stop)
          BY <5>2 DEF Answer, result
        <5>3. CASE \/ TimedOut(i) \/ RequestFails(i)
                   \/ \E outcome \in Outcomes : Check(i, outcome)
          BY <5>3 DEF TimedOut, RequestFails, Abandon, Check, result
        <5> QED BY <3>1, <5>1, <5>2, <5>3 DEF Step
      <4> QED BY <4>1
    <3>2. CASE \/ \E only \in Onlys : Load(only)
               \/ StartTask \/ StopEarly \/ Interrupt
      BY <3>2 DEF Load, StartTask, StopEarly, Interrupt, result
    <3>3. CASE \E d \in Dir : Settle(d) \/ \E tree \in Trees : LateWrite(d, tree)
      BY <3>3 DEF Settle, LateWrite, result
    <3>4. CASE \/ UNCHANGED vars
               \/ \E base \in Baselines :
                    CompareReports(base, report) \/ CompareReports(report, base)
      BY <3>4 DEF CompareReports, vars
    <3> QED BY <3>1, <3>2, <3>3, <3>4 DEF Next
  <2> DEFINE r == Summarise(Task(runs[1].task), runs)
  <2>2. report' = report \cup {r} /\ Running
    BY <2>1 DEF Collect, Waited
  <2>3. CountedOnce(r) /\ r.name = runs[1].task
    BY <2>1, SummaryCounts
  <2> HIDE DEF r
  <2>4. (CHOOSE x \in report' : x \notin report) = r
    BY <2>2
  <2>5. ASSUME NEW t \in suite
        PROVE  t.name \in {x.name : x \in report'} \/ t.name \in ToSet(todo)
    BY <2>2, <2>3 DEF EvalInv, Accounted
  <2> QED BY <2>3, <2>4, <2>5
<1> QED BY <1>1, RunsInvariant, PTL DEF Spec, EveryRunIsCounted

-----------------------------------------------------------------------------
(* Induction over numbers, by the least counterexample: the subset ordering *)
(* of finite sets is well founded, and n is less than m just when 1..n is a *)
(* strict subset of 1..m.                                                   *)

LEMMA NatMin ==
  ASSUME NEW T \in SUBSET Nat, T # {}
  PROVE  \E n \in T : \A m \in T : n <= m
  <1> DEFINE U == {1..n : n \in T}
  <1>1. IsWellFoundedOn(StrictSubsetOrdering(Nat), FiniteSubsetsOf(Nat))
    BY FS_StrictSubsetOrderingWellFounded
  <1>2. U \subseteq FiniteSubsetsOf(Nat)
    <2> SUFFICES ASSUME NEW n \in T PROVE 1..n \in FiniteSubsetsOf(Nat)
      OBVIOUS
    <2> QED BY FS_Interval DEF FiniteSubsetsOf
  <1>3. U # {}
    OBVIOUS
  <1> HIDE DEF U
  <1>4. PICK x \in U : \A y \in U : ~(<<y, x>> \in StrictSubsetOrdering(Nat))
    BY <1>1, <1>2, <1>3, WFMin, Zenon
  <1> USE DEF U
  <1>5. PICK n \in T : x = 1..n
    OBVIOUS
  <1>6. ASSUME NEW m \in T, m < n PROVE FALSE
    <2>1. 1..m \in U
      OBVIOUS
    <2>2. /\ 1..m \subseteq 1..n /\ 1..m # 1..n
          /\ 1..m \in SUBSET Nat /\ 1..n \in SUBSET Nat
      BY <1>6
    <2>3. <<1..m, 1..n>> \in StrictSubsetOrdering(Nat)
      BY <2>2, <1>2, <1>5 DEF StrictSubsetOrdering, FiniteSubsetsOf
    <2> QED BY <1>4, <1>5, <2>1, <2>3
  <1> QED BY <1>6


-----------------------------------------------------------------------------
(* Choosing k of n things.                                                  *)

LEMMA ApartSize ==
  ASSUME NEW S, NEW T, IsFiniteSet(S), IsFiniteSet(T), S \cap T = {}
  PROVE  /\ IsFiniteSet(S \cup T)
         /\ Cardinality(S) \in Nat /\ Cardinality(T) \in Nat
         /\ Cardinality(S \cup T) = Cardinality(S) + Cardinality(T)
  <1>1. /\ IsFiniteSet(S \cup T)
        /\ Cardinality(S \cup T)
             = Cardinality(S) + Cardinality(T) - Cardinality(S \cap T)
    BY FS_Union, Zenon
  <1>2. Cardinality(S \cap T) = 0
    BY FS_EmptySet, Zenon
  <1>3. Cardinality(S) \in Nat /\ Cardinality(T) \in Nat
    BY FS_CardinalityType, Zenon
  <1> QED BY <1>1, <1>2, <1>3

LEMMA Chosen ==
  ASSUME NEW S, IsFiniteSet(S), NEW k
  PROVE  /\ IsFiniteSet(kSubset(k, S)) /\ Cardinality(kSubset(k, S)) \in Nat
         /\ \A s \in kSubset(k, S) :
              s \subseteq S /\ IsFiniteSet(s) /\ Cardinality(s) = k
  <1>1. IsFiniteSet(SUBSET S) /\ kSubset(k, S) \subseteq SUBSET S
    BY FS_SUBSET DEF kSubset
  <1>2. IsFiniteSet(kSubset(k, S))
    BY <1>1, FS_Subset
  <1> QED BY <1>2, FS_CardinalityType, FS_Subset DEF kSubset

\* A bijection between two sets carries a set of one to a set of the same size.
LEMMA ImageSize ==
  ASSUME NEW S, NEW T, NEW f \in Bijection(S, T),
         NEW s \in SUBSET S, IsFiniteSet(s)
  PROVE  /\ IsFiniteSet({f[x] : x \in s})
         /\ Cardinality({f[x] : x \in s}) = Cardinality(s)
  <1> DEFINE t == {f[x] : x \in s}
             g == [x \in s |-> f[x]]
  <1>1. \A x, y \in S : f[x] = f[y] => x = y
    BY DEF Bijection, Injection, IsInjective
  <1>2. g \in Bijection(s, t)
    <2>1. g \in [s -> t]
      OBVIOUS
    <2>2. \A x, y \in s : g[x] = g[y] => x = y
      BY <1>1
    <2>3. \A y \in t : \E x \in s : g[x] = y
      OBVIOUS
    <2> QED BY <2>1, <2>2, <2>3 DEF Bijection, Injection, Surjection, IsInjective
  <1>3. ExistsBijection(s, t)
    BY <1>2 DEF ExistsBijection
  <1> QED BY <1>3, FS_Bijection

\* It carries the choices of k of the one to those of k of the other.
LEMMA ChoicesAlike ==
  ASSUME NEW S, NEW T, IsFiniteSet(S), IsFiniteSet(T),
         Cardinality(S) = Cardinality(T), NEW k
  PROVE  Cardinality(kSubset(k, S)) = Cardinality(kSubset(k, T))
  <1>1. PICK f : f \in Bijection(S, T)
    BY FS_SameCardinalityBij DEF ExistsBijection
  <1> DEFINE F == [s \in kSubset(k, S) |-> {f[x] : x \in s}]
  <1>2. /\ f \in [S -> T] /\ \A x, y \in S : f[x] = f[y] => x = y
        /\ \A y \in T : \E x \in S : f[x] = y
    BY <1>1 DEF Bijection, Injection, Surjection, IsInjective
  <1>3. ASSUME NEW s \in kSubset(k, S) PROVE F[s] \in kSubset(k, T)
    <2>1. s \in SUBSET S /\ IsFiniteSet(s) /\ Cardinality(s) = k
      BY Chosen
    <2>2. Cardinality({f[x] : x \in s}) = k
      BY <1>1, <2>1, ImageSize
    <2>3. {f[x] : x \in s} \in SUBSET T
      BY <1>2, <2>1
    <2> QED BY <2>2, <2>3 DEF kSubset
  <1>4. ASSUME NEW s \in kSubset(k, S), NEW t \in kSubset(k, S), F[s] = F[t]
        PROVE  s = t
    <2>1. s \subseteq S /\ t \subseteq S
      BY DEF kSubset
    <2>2. {f[x] : x \in s} = {f[x] : x \in t}
      BY <1>4
    <2>3. ASSUME NEW x \in s PROVE x \in t
      <3>1. f[x] \in {f[y] : y \in t}
        BY <2>2
      <3> QED BY <3>1, <2>1, <1>2
    <2>4. ASSUME NEW x \in t PROVE x \in s
      <3>1. f[x] \in {f[y] : y \in s}
        BY <2>2
      <3> QED BY <3>1, <2>1, <1>2
    <2> QED BY <2>3, <2>4
  <1>5. ASSUME NEW t \in kSubset(k, T)
        PROVE  \E s \in kSubset(k, S) : F[s] = t
    <2> DEFINE s == {x \in S : f[x] \in t}
    <2>1. t \subseteq T /\ Cardinality(t) = k
      BY DEF kSubset
    <2>2. {f[x] : x \in s} = t
      BY <1>2, <2>1
    <2>3. s \in SUBSET S /\ IsFiniteSet(s)
      BY FS_Subset
    <2> HIDE DEF s
    <2>4. Cardinality(s) = k
      BY <1>1, <2>1, <2>2, <2>3, ImageSize
    <2>5. s \in kSubset(k, S)
      BY <2>3, <2>4 DEF kSubset
    <2> QED BY <2>2, <2>5
  <1>6. F \in Bijection(kSubset(k, S), kSubset(k, T))
    <2>1. F \in [kSubset(k, S) -> kSubset(k, T)]
      BY <1>3
    <2> HIDE DEF F
    <2> QED BY <2>1, <1>4, <1>5
            DEF Bijection, Injection, Surjection, IsInjective
  <1>7. ExistsBijection(kSubset(k, S), kSubset(k, T))
    BY <1>6 DEF ExistsBijection
  <1> QED BY <1>7, Chosen, FS_Bijection

Binomial(n, k) == Cardinality(kSubset(k, 1..n))

LEMMA BinomialType ==
  ASSUME NEW n \in Nat, NEW k PROVE Binomial(n, k) \in Nat
  BY FS_Interval, Chosen DEF Binomial

LEMMA ChooseNone ==
  ASSUME NEW n \in Nat PROVE Binomial(n, 0) = 1
  <1>1. IsFiniteSet(1..n)
    BY FS_Interval
  <1>2. kSubset(0, 1..n) = {{}}
    <2>1. ASSUME NEW s \in kSubset(0, 1..n) PROVE s = {}
      BY <1>1, Chosen, FS_EmptySet
    <2>2. {} \in kSubset(0, 1..n)
      BY FS_EmptySet DEF kSubset
    <2> QED BY <2>1, <2>2
  <1> QED BY <1>2, FS_Singleton DEF Binomial

LEMMA ChooseTooMany ==
  ASSUME NEW n \in Nat, NEW k \in Nat, k > n PROVE Binomial(n, k) = 0
  <1>1. IsFiniteSet(1..n) /\ Cardinality(1..n) = n
    BY FS_Interval
  <1>2. ASSUME NEW s \in kSubset(k, 1..n) PROVE FALSE
    <2>1. s \in SUBSET (1..n) /\ Cardinality(s) = k
      BY <1>1, Chosen
    <2>2. Cardinality(s) <= n
      BY <1>1, <2>1, FS_Subset
    <2> QED BY <2>1, <2>2
  <1>3. kSubset(k, 1..n) = {}
    BY <1>2
  <1> QED BY <1>3, FS_EmptySet DEF Binomial

\* The last of n + 1 things is not chosen, or it is.
LEMMA ChooseLast ==
  ASSUME NEW n \in Nat, NEW k \in Nat
  PROVE  Binomial(n + 1, k + 1) = Binomial(n, k + 1) + Binomial(n, k)
  <1> DEFINE with == {s \cup {n + 1} : s \in kSubset(k, 1..n)}
             add == [s \in kSubset(k, 1..n) |-> s \cup {n + 1}]
             out == kSubset(k + 1, 1..n)
  <1>0. IsFiniteSet(1..n) /\ IsFiniteSet(1..(n + 1)) /\ n + 1 \notin 1..n
        /\ 1..(n + 1) = (1..n) \cup {n + 1}
    <2>1. IsFiniteSet(1..n) /\ IsFiniteSet(1..(n + 1))
      BY FS_Interval
    <2> QED BY <2>1
  <1>1. IsFiniteSet(kSubset(k, 1..n)) /\ IsFiniteSet(out)
    BY <1>0, Chosen
  <1>2. IsFiniteSet(with) /\ Cardinality(with) = Binomial(n, k)
    <2>1. \A s \in kSubset(k, 1..n) : n + 1 \notin s
      BY <1>0, Chosen
    <2>2. add \in [kSubset(k, 1..n) -> with]
      OBVIOUS
    <2>3. \A s, t \in kSubset(k, 1..n) : add[s] = add[t] => s = t
      <3> SUFFICES ASSUME NEW s \in kSubset(k, 1..n), NEW t \in kSubset(k, 1..n),
                          s \cup {n + 1} = t \cup {n + 1}
                   PROVE  s = t
        OBVIOUS
      <3> QED BY <2>1
    <2>4. \A t \in with : \E s \in kSubset(k, 1..n) : add[s] = t
      OBVIOUS
    <2> HIDE DEF with, add
    <2>5. ExistsBijection(kSubset(k, 1..n), with)
      BY <2>2, <2>3, <2>4
         DEF ExistsBijection, Bijection, Injection, Surjection, IsInjective
    <2> QED BY <2>5, <1>1, FS_Bijection DEF Binomial
  <1>3. kSubset(k + 1, 1..(n + 1)) = out \cup with
    <2>1. ASSUME NEW s \in kSubset(k + 1, 1..(n + 1)), n + 1 \notin s PROVE s \in out
      <3>1. s \subseteq 1..n
        BY <2>1, <1>0 DEF kSubset
      <3> QED BY <3>1 DEF kSubset
    <2>2. ASSUME NEW s \in kSubset(k + 1, 1..(n + 1)), n + 1 \in s PROVE s \in with
      <3>1. IsFiniteSet(s) /\ Cardinality(s) = k + 1 /\ s \subseteq 1..(n + 1)
        BY <1>0, Chosen
      <3>2. s \ {n + 1} \in SUBSET (1..n)
        BY <3>1, <1>0
      <3>3. Cardinality(s \ {n + 1}) = k
        <4>1. Cardinality(s \ {n + 1}) = Cardinality(s) - 1
          BY <2>2, <3>1, FS_RemoveElement, Zenon
        <4> QED BY <3>1, <4>1
      <3>4. s \ {n + 1} \in kSubset(k, 1..n)
        BY <3>2, <3>3 DEF kSubset
      <3>5. s = (s \ {n + 1}) \cup {n + 1}
        BY <2>2
      <3> QED BY <3>4, <3>5
    <2>3. ASSUME NEW s \in out PROVE s \in kSubset(k + 1, 1..(n + 1))
      BY <1>0 DEF kSubset
    <2>4. ASSUME NEW s \in kSubset(k, 1..n)
          PROVE  s \cup {n + 1} \in kSubset(k + 1, 1..(n + 1))
      <3>1. IsFiniteSet(s) /\ Cardinality(s) = k /\ s \subseteq 1..n
        BY <1>0, Chosen
      <3>2. Cardinality(s \cup {n + 1}) = k + 1
        BY <3>1, <1>0, FS_AddElement
      <3>3. s \cup {n + 1} \in SUBSET (1..(n + 1))
        BY <3>1, <1>0
      <3> QED BY <3>2, <3>3 DEF kSubset
    <2> QED BY <2>1, <2>2, <2>3, <2>4
  <1>4. out \cap with = {}
    <2>1. \A s \in out : n + 1 \notin s
      BY <1>0, Chosen
    <2> QED BY <2>1
  <1> HIDE DEF with, out
  <1>5. Cardinality(out \cup with) = Cardinality(out) + Cardinality(with)
    BY <1>1, <1>2, <1>4, ApartSize, Zenon
  <1> QED BY <1>2, <1>3, <1>5 DEF out, Binomial

\* Choosing k of n and then one of the k is choosing one of the n and then k - 1
\* of the others.
LEMMA ChooseThenOne ==
  ASSUME NEW n \in Nat, NEW k \in Nat
  PROVE  (k + 1) * Binomial(n + 1, k + 1) = (n + 1) * Binomial(n, k)
  <1> DEFINE Fits(m, j) == (j + 1) * Binomial(m + 1, j + 1) = (m + 1) * Binomial(m, j)
             T == {m \in Nat : \E j \in Nat : ~Fits(m, j)}
  <1> SUFFICES ASSUME T # {} PROVE FALSE
    OBVIOUS
  <1>1. PICK m \in T : \A i \in T : m <= i
    <2>1. T \in SUBSET Nat
      OBVIOUS
    <2> HIDE DEF T
    <2> QED BY <2>1, NatMin, Zenon
  <1>2. PICK j \in Nat : ~Fits(m, j)
    BY <1>1
  <1>3. m \in Nat
    BY <1>1
  <1>4. Binomial(m + 1, j + 1) = Binomial(m, j + 1) + Binomial(m, j)
    BY <1>2, <1>3, ChooseLast
  <1>5. /\ Binomial(m, j + 1) \in Nat /\ Binomial(m, j) \in Nat
        /\ Binomial(m, 0) = 1
    BY <1>3, BinomialType, ChooseNone
  <1>6. CASE m = 0
    <2>1. Binomial(0, j + 1) = 0
      BY ChooseTooMany
    <2>2. j # 0 => Binomial(0, j) = 0
      BY ChooseTooMany
    <2>3. CASE j = 0
      BY <2>1, <2>3, <1>4, <1>5, <1>6, <1>2
    <2>4. CASE j # 0
      BY <2>1, <2>2, <2>4, <1>4, <1>5, <1>6, <1>2
    <2> QED BY <2>3, <2>4
  <1>7. CASE m # 0
    <2> DEFINE l == m - 1
    <2>1. l \in Nat /\ m = l + 1
      BY <1>3, <1>7
    <2>2. \A i \in Nat : Fits(l, i)
      <3>1. l \notin T
        BY <2>1, <1>1
      <3> QED BY <2>1, <3>1
    <2> HIDE DEF l
    <2>3. (j + 1) * Binomial(m, j + 1) = m * Binomial(l, j)
      BY <2>1, <2>2
    <2>4. /\ Binomial(l, j) \in Nat /\ Binomial(l, 0) = 1
      BY <2>1, BinomialType, ChooseNone
    <2>5. CASE j = 0
      <3>1. Binomial(m, 1) = m
        BY <2>3, <2>4, <2>5, <1>5, <2>1
      <3> QED BY <3>1, <2>5, <1>4, <1>5, <1>2, <1>3
    <2>6. CASE j # 0
      <3> DEFINE i == j - 1
      <3>1. i \in Nat /\ j = i + 1
        BY <2>6
      <3> HIDE DEF i
      <3>2. j * Binomial(m, j) = m * Binomial(l, i)
        BY <3>1, <2>1, <2>2
      <3>3. Binomial(m, j) = Binomial(l, j) + Binomial(l, i)
        BY <3>1, <2>1, ChooseLast
      <3>4. Binomial(l, i) \in Nat
        BY <3>1, <2>1, BinomialType
      <3> DEFINE a == Binomial(m, j + 1)
                 b == Binomial(m, j)
                 c == Binomial(l, j)
                 d == Binomial(l, i)
      <3>5. /\ (j + 1) * a = m * c /\ j * b = m * d /\ b = c + d
            /\ a \in Nat /\ b \in Nat /\ c \in Nat /\ d \in Nat
        BY <2>3, <3>2, <3>3, <3>4, <2>4, <1>5
      <3> HIDE DEF a, b, c, d
      <3>6. (j + 1) * (a + b) = (j + 1) * a + j * b + b
        BY <3>5
      <3>7. m * c + m * d = m * b
        BY <3>5, <1>3
      <3>8. (j + 1) * (a + b) = m * b + b
        <4>1. m * c \in Nat /\ m * d \in Nat /\ m * b \in Nat
          BY <3>5, <1>3
        <4> QED BY <3>5, <3>6, <3>7, <4>1
      <3>9. m * b + b = (m + 1) * b
        BY <3>5, <1>3
      <3> QED BY <3>8, <3>9, <1>2, <1>4 DEF a, b
    <2> QED BY <2>5, <2>6
  <1> QED BY <1>6, <1>7

LEMMA ChooseIsCount ==
  \A n, k \in Nat : Choose[n][k] = Binomial(n, k)
  <1> DEFINE
        Rule(f, n, k) == IF k = 0 THEN 1 ELSE IF k > n THEN 0
                         ELSE (f[n - 1][k - 1] * n) \div k
        F == [n \in Nat |-> [k \in Nat |-> Binomial(n, k)]]
  <1>0. \A n, k \in Nat : F[n][k] = Binomial(n, k)
    OBVIOUS
  <1>1. ASSUME NEW n \in Nat, NEW k \in Nat PROVE F[n][k] = Rule(F, n, k)
    <2> HIDE DEF F
    <2>1. CASE k = 0
      BY <2>1, <1>0, ChooseNone
    <2>2. CASE k > n
      <3>1. F[n][k] = 0
        BY <2>2, <1>0, ChooseTooMany
      <3> QED BY <2>2, <3>1
    <2>3. CASE k # 0 /\ k <= n
      <3> DEFINE m == n - 1
                 j == k - 1
      <3>1. m \in Nat /\ j \in Nat /\ n = m + 1 /\ k = j + 1
        BY <2>3
      <3>2. F[m][j] = Binomial(m, j) /\ F[n][k] = Binomial(n, k)
        BY <3>1, <1>0
      <3>7. Rule(F, n, k) = (F[m][j] * n) \div k
        BY <2>3
      <3> HIDE DEF m, j
      <3>3. k * Binomial(n, k) = n * Binomial(m, j)
        BY <3>1, ChooseThenOne
      <3>4. Binomial(n, k) \in Nat /\ Binomial(m, j) \in Nat
        BY <3>1, BinomialType
      <3> DEFINE a == Binomial(n, k)
                 b == Binomial(m, j)
      <3>5. a \in Nat /\ b \in Nat /\ k * a = n * b /\ k > 0
        BY <3>3, <3>4, <3>1
      <3> HIDE DEF a, b
      <3>6. (b * n) \div k = a
        <4>1. b * n = k * a
          BY <3>5
        <4>2. (k * a) \div k = a
          BY <3>5
        <4> QED BY <4>1, <4>2
      <3> QED BY <3>2, <3>6, <3>7 DEF a, b
    <2> QED BY <2>1, <2>2, <2>3
  <1>2. F = [n \in Nat |-> [k \in Nat |-> Rule(F, n, k)]]
    <2>1. ASSUME NEW n \in Nat PROVE F[n] = [k \in Nat |-> Rule(F, n, k)]
      <3>1. F[n] = [k \in Nat |-> F[n][k]]
        OBVIOUS
      <3> HIDE DEF F
      <3> QED BY <3>1, <1>1
    <2>2. F = [n \in Nat |-> F[n]]
      OBVIOUS
    <2> HIDE DEF F
    <2> QED BY <2>1, <2>2
  <1> HIDE DEF F
  <1>3. Choose = [n \in Nat |-> [k \in Nat |-> Rule(Choose, n, k)]]
    BY <1>2, Zenon DEF Choose
  <1> HIDE DEF Choose
  <1>4. ASSUME NEW n \in Nat, NEW k \in Nat
        PROVE  F[n][k] = Rule(F, n, k) /\ Choose[n][k] = Rule(Choose, n, k)
    BY <1>1, <1>3
  <1> DEFINE T == {n \in Nat : \E k \in Nat : Choose[n][k] # F[n][k]}
  <1>5. T = {}
    <2> SUFFICES ASSUME T # {} PROVE FALSE
      OBVIOUS
    <2>1. PICK n \in T : \A m \in T : n <= m
      <3>1. T \in SUBSET Nat
        OBVIOUS
      <3> HIDE DEF T
      <3> QED BY <3>1, NatMin, Zenon
    <2>2. PICK k \in Nat : n \in Nat /\ Choose[n][k] # F[n][k]
      OBVIOUS
    <2>3. k # 0 /\ k <= n
      BY <2>2, <1>4
    <2>4. n - 1 \in Nat /\ k - 1 \in Nat /\ n - 1 \notin T
      BY <2>1, <2>2, <2>3
    <2>5. Choose[n - 1][k - 1] = F[n - 1][k - 1]
      BY <2>4
    <2> HIDE DEF T
    <2> QED BY <2>2, <2>5, <1>4
  <1> QED BY <1>0, <1>5

\* The choices of h of n + m things, k of them among the first n.
Parted(n, m, h, k) ==
  {s \in kSubset(h, 1..(n + m)) : Cardinality(s \cap 1..n) = k}

LEMMA ChooseApart ==
  ASSUME NEW n \in Nat, NEW m \in Nat, NEW h \in Nat, NEW k \in Nat, k <= h
  PROVE  Cardinality(Parted(n, m, h, k))
           = Binomial(n, k) * Binomial(m, h - k)
  <1> DEFINE A == 1..n
             B == (n + 1)..(n + m)
             P == {s \in kSubset(h, 1..(n + m)) : Cardinality(s \cap A) = k}
             Q == kSubset(k, A) \X kSubset(h - k, B)
             F == [s \in P |-> <<s \cap A, s \cap B>>]
  <1>1. /\ IsFiniteSet(A) /\ IsFiniteSet(B) /\ IsFiniteSet(1..(n + m))
        /\ Cardinality(B) = m
    BY FS_Interval
  <1>2. 1..(n + m) = A \cup B /\ A \cap B = {}
    OBVIOUS
  <1>3. IsFiniteSet(kSubset(k, A)) /\ IsFiniteSet(kSubset(h - k, B))
    BY <1>1, Chosen
  <1>4. /\ Cardinality(kSubset(k, A)) = Binomial(n, k)
        /\ Cardinality(kSubset(h - k, B)) = Binomial(m, h - k)
    <2>1. IsFiniteSet(1..m) /\ Cardinality(1..m) = m
      BY FS_Interval
    <2>2. Cardinality(kSubset(h - k, B)) = Cardinality(kSubset(h - k, 1..m))
      <3> HIDE DEF B
      <3> QED BY <1>1, <2>1, ChoicesAlike
    <2> QED BY <2>2 DEF Binomial
  <1> HIDE DEF A, B
  <1>5. IsFiniteSet(Q) /\ Cardinality(Q) = Binomial(n, k) * Binomial(m, h - k)
    BY <1>3, <1>4, FS_Product
  <1>6. ASSUME NEW s \in SUBSET (A \cup B)
        PROVE  /\ IsFiniteSet(s) /\ IsFiniteSet(s \cap A) /\ IsFiniteSet(s \cap B)
               /\ Cardinality(s) = Cardinality(s \cap A) + Cardinality(s \cap B)
               /\ Cardinality(s \cap A) \in Nat /\ Cardinality(s \cap B) \in Nat
    <2>1. IsFiniteSet(s \cap A) /\ IsFiniteSet(s \cap B)
      BY <1>1, FS_Intersection
    <2> DEFINE x == s \cap A
               y == s \cap B
    <2>2. x \cap y = {} /\ x \cup y = s
      BY <1>2
    <2> HIDE DEF x, y
    <2>3. /\ IsFiniteSet(x \cup y)
          /\ Cardinality(x) \in Nat /\ Cardinality(y) \in Nat
          /\ Cardinality(x \cup y) = Cardinality(x) + Cardinality(y)
      BY <2>1, <2>2, ApartSize, Zenon DEF x, y
    <2> QED BY <2>1, <2>2, <2>3, Zenon DEF x, y
  <1>7. ASSUME NEW s \in P PROVE F[s] \in Q
    <2>1. s \in SUBSET (A \cup B) /\ Cardinality(s) = h /\ Cardinality(s \cap A) = k
      BY <1>2 DEF kSubset
    <2>2. Cardinality(s \cap B) = h - k
      <3>1. /\ Cardinality(s) = Cardinality(s \cap A) + Cardinality(s \cap B)
            /\ Cardinality(s \cap B) \in Nat
        BY <2>1, <1>6, Zenon
      <3> QED BY <2>1, <3>1
    <2>3. s \cap A \in kSubset(k, A) /\ s \cap B \in kSubset(h - k, B)
      BY <2>1, <2>2 DEF kSubset
    <2> QED BY <2>3
  <1>8. ASSUME NEW s \in P, NEW t \in P, F[s] = F[t] PROVE s = t
    <2>1. s \subseteq A \cup B /\ t \subseteq A \cup B
      BY <1>2 DEF kSubset
    <2>2. s \cap A = t \cap A /\ s \cap B = t \cap B
      BY <1>8
    <2> QED BY <2>1, <2>2
  <1>9. ASSUME NEW q \in Q PROVE \E s \in P : F[s] = q
    <2>1. PICK x \in kSubset(k, A), y \in kSubset(h - k, B) : q = <<x, y>>
      OBVIOUS
    <2> DEFINE s == x \cup y
    <2>2. x \subseteq A /\ y \subseteq B /\ Cardinality(x) = k /\ Cardinality(y) = h - k
      BY DEF kSubset
    <2>3. s \in SUBSET (A \cup B) /\ s \cap A = x /\ s \cap B = y
      BY <2>2, <1>2
    <2> HIDE DEF s
    <2>4. Cardinality(s) = h
      <3>1. Cardinality(s) = Cardinality(s \cap A) + Cardinality(s \cap B)
        BY <2>3, <1>6, Zenon
      <3>2. Cardinality(s) = Cardinality(x) + Cardinality(y)
        BY <2>3, <3>1, Zenon
      <3> QED BY <2>2, <3>2
    <2>5. s \in P
      BY <2>2, <2>3, <2>4, <1>2 DEF kSubset
    <2> QED BY <2>1, <2>3, <2>5
  <1>10. ExistsBijection(P, Q)
    <2>1. F \in [P -> Q]
      BY <1>7
    <2> HIDE DEF F, P, Q
    <2> QED BY <2>1, <1>8, <1>9
            DEF ExistsBijection, Bijection, Injection, Surjection, IsInjective
  <1>11. IsFiniteSet(P)
    <2>1. P \subseteq kSubset(h, 1..(n + m))
      OBVIOUS
    <2> HIDE DEF P
    <2> QED BY <2>1, <1>1, Chosen, FS_Subset
  <1>12. Cardinality(P) = Cardinality(Q)
    <2> HIDE DEF P, Q
    <2> QED BY <1>10, <1>11, FS_Bijection
  <1> QED BY <1>5, <1>12 DEF A, Parted

-----------------------------------------------------------------------------
(* Sums over sets count what is in classes.                                  *)

Tally(P, class, S) == {p \in P : class[p] \in S}

\* w gives how many are in each class of S.
Weighs(w, P, class, S) == \A x \in S : w[x] = Cardinality(Tally(P, class, {x}))

LEMMA TallyStep ==
  ASSUME NEW P, IsFiniteSet(P), NEW class, NEW S, NEW x \in S
  PROVE  /\ Cardinality(Tally(P, class, S)) \in Nat
         /\ Cardinality(Tally(P, class, S))
              = Cardinality(Tally(P, class, {x})) + Cardinality(Tally(P, class, S \ {x}))
  <1> DEFINE one == Tally(P, class, {x})
             rest == Tally(P, class, S \ {x})
  <1>1. Tally(P, class, S) = one \cup rest /\ one \cap rest = {}
    BY DEF Tally
  <1>2. IsFiniteSet(one) /\ IsFiniteSet(rest) /\ IsFiniteSet(Tally(P, class, S))
    <2>1. one \subseteq P /\ rest \subseteq P /\ Tally(P, class, S) \subseteq P
      BY DEF Tally
    <2> QED BY <2>1, FS_Subset
  <1> HIDE DEF one, rest
  <1>3. Cardinality(one \cup rest) = Cardinality(one) + Cardinality(rest)
    BY <1>1, <1>2, ApartSize, Zenon
  <1> QED BY <1>1, <1>2, <1>3, FS_CardinalityType, Zenon DEF one, rest

\* f sums w over the subsets of S, one element after the other.
Sums(f, w, S) ==
  f = [s \in SUBSET S |->
         IF s = {} THEN 0
         ELSE w[CHOOSE x \in s : TRUE] + f[s \ {CHOOSE x \in s : TRUE}]]

LEMMA SumExists ==
  ASSUME NEW P, IsFiniteSet(P), NEW class, NEW S, NEW w,
         Weighs(w, P, class, S)
  PROVE  \E f : Sums(f, w, S)
  <1> DEFINE f == [s \in SUBSET S |-> Cardinality(Tally(P, class, s))]
  <1>1. ASSUME NEW s \in SUBSET S
        PROVE  f[s] = IF s = {} THEN 0
                      ELSE w[CHOOSE x \in s : TRUE] + f[s \ {CHOOSE x \in s : TRUE}]
    <2>1. CASE s = {}
      <3>1. Tally(P, class, {}) = {}
        BY DEF Tally
      <3> QED BY <2>1, <3>1, FS_EmptySet
    <2>2. CASE s # {}
      <3> DEFINE x == CHOOSE y \in s : TRUE
      <3>1. x \in s
        BY <2>2
      <3> HIDE DEF x
      <3>2. f[s] = Cardinality(Tally(P, class, {x})) + f[s \ {x}]
        BY <3>1, TallyStep
      <3>3. f[s] = w[x] + f[s \ {x}]
        BY <3>1, <3>2 DEF Weighs
      <3> HIDE DEF f
      <3> QED BY <2>2, <3>3 DEF x
    <2> QED BY <2>1, <2>2
  <1>2. f = [s \in SUBSET S |-> f[s]]
    OBVIOUS
  <1> HIDE DEF f
  <1>3. Sums(f, w, S)
    BY <1>1, <1>2 DEF Sums
  <1> QED BY <1>3

LEMMA SumCounts ==
  ASSUME NEW P, IsFiniteSet(P), NEW class, NEW S, IsFiniteSet(S), NEW w,
         Weighs(w, P, class, S),
         NEW f, Sums(f, w, S)
  PROVE  f[S] = Cardinality(Tally(P, class, S))
  <1> DEFINE T == {n \in Nat : \E s \in SUBSET S :
                     Cardinality(s) = n /\ f[s] # Cardinality(Tally(P, class, s))}
  <1>1. T = {}
    <2> SUFFICES ASSUME T # {} PROVE FALSE
      OBVIOUS
    <2>1. PICK n \in T : \A m \in T : n <= m
      <3>1. T \in SUBSET Nat
        OBVIOUS
      <3> HIDE DEF T
      <3> QED BY <3>1, NatMin, Zenon
    <2>2. PICK s \in SUBSET S :
            Cardinality(s) = n /\ f[s] # Cardinality(Tally(P, class, s))
      BY <2>1
    <2>3. f[s] = IF s = {} THEN 0
                 ELSE w[CHOOSE x \in s : TRUE] + f[s \ {CHOOSE x \in s : TRUE}]
      BY DEF Sums
    <2>4. CASE s = {}
      <3>1. Tally(P, class, {}) = {}
        BY DEF Tally
      <3> QED BY <2>2, <2>3, <2>4, <3>1, FS_EmptySet
    <2>5. CASE s # {}
      <3> DEFINE x == CHOOSE y \in s : TRUE
      <3>1. x \in s
        BY <2>5
      <3>2. f[s] = w[x] + f[s \ {x}]
        BY <2>3, <2>5
      <3> HIDE DEF x
      <3>3. IsFiniteSet(s) /\ Cardinality(s \ {x}) = n - 1 /\ n \in Nat
        BY <2>2, <3>1, FS_Subset, FS_RemoveElement
      <3>4. Cardinality(s \ {x}) \in Nat
        BY <3>3, FS_RemoveElement, FS_CardinalityType
      <3>5. n - 1 \notin T
        BY <2>1, <3>3
      <3>6. f[s \ {x}] = Cardinality(Tally(P, class, s \ {x}))
        BY <3>3, <3>4, <3>5
      <3>7. f[s] = Cardinality(Tally(P, class, {x}))
                     + Cardinality(Tally(P, class, s \ {x}))
        BY <3>1, <3>2, <3>6 DEF Weighs
      <3> QED BY <3>1, <3>7, <2>2, TallyStep
    <2> QED BY <2>4, <2>5
  <1>2. Cardinality(S) \in Nat
    BY FS_CardinalityType
  <1> QED BY <1>1, <1>2

\* As many pairs with x as the field of x says.
Pairs(S, field) == UNION {{x} \X (1..x[field]) : x \in S}

LEMMA PairsCount ==
  ASSUME NEW S, IsFiniteSet(S), NEW field, \A x \in S : x[field] \in Nat
  PROVE  /\ IsFiniteSet(Pairs(S, field))
         /\ \A x \in S :
              Cardinality(Tally(Pairs(S, field), [p \in Pairs(S, field) |-> p[1]], {x}))
                = x[field]
  <1> DEFINE pieces == {{x} \X (1..x[field]) : x \in S}
             g == [x \in S |-> {x} \X (1..x[field])]
             class == [p \in Pairs(S, field) |-> p[1]]
  <1>1. ASSUME NEW x \in S
        PROVE  /\ IsFiniteSet({x} \X (1..x[field]))
               /\ Cardinality({x} \X (1..x[field])) = x[field]
    <2>1. IsFiniteSet({x}) /\ Cardinality({x}) = 1
      BY FS_Singleton
    <2>2. IsFiniteSet(1..x[field]) /\ Cardinality(1..x[field]) = x[field]
      <3> DEFINE k == x[field]
      <3>1. k \in Nat
        OBVIOUS
      <3> HIDE DEF k
      <3>2. IsFiniteSet(1..k) /\ Cardinality(1..k) = k
        BY <3>1, FS_Interval
      <3> QED BY <3>2 DEF k
    <2>3. /\ IsFiniteSet({x} \X (1..x[field]))
          /\ Cardinality({x} \X (1..x[field])) = 1 * x[field]
      BY <2>1, <2>2, FS_Product
    <2> QED BY <2>3
  <1>2. IsFiniteSet(pieces)
    <2>1. g \in Surjection(S, pieces)
      BY DEF Surjection
    <2> QED BY <2>1, FS_Surjection
  <1>3. IsFiniteSet(Pairs(S, field))
    <2>1. \A T \in pieces : IsFiniteSet(T)
      BY <1>1
    <2> HIDE DEF pieces
    <2>2. IsFiniteSet(UNION pieces)
      BY <1>2, <2>1, FS_UNION
    <2> QED BY <2>2 DEF Pairs, pieces
  <1>4. ASSUME NEW x \in S
        PROVE  Tally(Pairs(S, field), class, {x}) = {x} \X (1..x[field])
    BY DEF Tally, Pairs
  <1> QED BY <1>1, <1>3, <1>4, Zenon

\* The sum of a field over some of the records is the number of their pairs.
LEMMA TotalCounts ==
  ASSUME NEW S, IsFiniteSet(S), NEW field, \A x \in S : x[field] \in Nat
  PROVE  Total(field, S) = Cardinality(Pairs(S, field))
  <1> DEFINE P == Pairs(S, field)
             class == [p \in P |-> p[1]]
             w == [x \in S |-> x[field]]
  <1>1. IsFiniteSet(P) /\ Weighs(w, P, class, S)
    <2>1. /\ IsFiniteSet(P)
          /\ \A x \in S : x[field] = Cardinality(Tally(P, class, {x}))
      BY PairsCount, Zenon
    <2> HIDE DEF P, class
    <2> QED BY <2>1 DEF Weighs
  <1>2. PICK f : Sums(f, w, S)
    <2> HIDE DEF P, class, w
    <2> QED BY <1>1, SumExists
  <1> DEFINE Iter(g) == [s \in SUBSET S |->
        IF s = {} THEN 0
        ELSE (CHOOSE x \in s : TRUE)[field] + g[s \ {CHOOSE x \in s : TRUE}]]
  <1>3. \A g : Sums(g, w, S) <=> g = Iter(g)
    <2> SUFFICES ASSUME NEW g
                 PROVE  Iter(g) = [s \in SUBSET S |->
                   IF s = {} THEN 0
                   ELSE w[CHOOSE x \in s : TRUE] + g[s \ {CHOOSE x \in s : TRUE}]]
      BY DEF Sums
    <2>1. ASSUME NEW s \in SUBSET S, s # {}
          PROVE  (CHOOSE x \in s : TRUE)[field] = w[CHOOSE x \in s : TRUE]
      <3>1. (CHOOSE x \in s : TRUE) \in S
        BY <2>1
      <3> QED BY <3>1
    <2> HIDE DEF w
    <2> QED BY <2>1
  <1> DEFINE it == CHOOSE g : g = Iter(g)
  <1>4. it = Iter(it)
    <2> HIDE DEF Iter
    <2> QED BY <1>2, <1>3, Zenon
  <1>5. Total(field, S) = it[S]
    BY Zenon DEF Total, MapThenSumSet, MapThenFoldSet
  <1> HIDE DEF Iter, it
  <1>6. Sums(it, w, S)
    BY <1>3, <1>4, Zenon
  <1>7. it[S] = Cardinality(Tally(P, class, S))
    <2> HIDE DEF class, w, P
    <2> QED BY <1>1, <1>6, SumCounts, Zenon
  <1>8. Tally(P, class, S) = P
    BY DEF Tally, Pairs
  <1> QED BY <1>5, <1>7, <1>8

LEMMA TotalsCompare ==
  ASSUME NEW S, IsFiniteSet(S), NEW f, NEW g,
         \A x \in S : x[f] \in Nat /\ x[g] \in Nat /\ x[f] <= x[g]
  PROVE  Total(f, S) \in Nat /\ Total(g, S) \in Nat /\ Total(f, S) <= Total(g, S)
  <1>1. Total(f, S) = Cardinality(Pairs(S, f)) /\ Total(g, S) = Cardinality(Pairs(S, g))
    BY TotalCounts
  <1>2. IsFiniteSet(Pairs(S, f)) /\ IsFiniteSet(Pairs(S, g))
    BY PairsCount
  <1>3. Pairs(S, f) \subseteq Pairs(S, g)
    BY DEF Pairs
  <1> QED BY <1>1, <1>2, <1>3, FS_Subset, FS_CardinalityType

\* The ways to pick h of n + m runs, k of them among the first n, and those that
\* are no more than the ways with a among the first n.
Ways(n, m, h) ==
  [k \in 0..n |-> Cardinality(Parted(n, m, h, k))]
RarePicks(n, m, h, a) ==
  {s \in kSubset(h, 1..(n + m)) :
     Ways(n, m, h)[Cardinality(s \cap 1..n)] <= Ways(n, m, h)[a]}

(***************************************************************************)
(* The p-value of a table is the share of the picks that are as rare as    *)
(* the table, or rarer (fisherExact).                                      *)
(***************************************************************************)
LEMMA FisherCounts ==
  ASSUME NEW n \in Nat, NEW m \in Nat, NEW a \in 0..n, NEW c \in 0..m
  PROVE  FisherExact(a, n - a, c, m - c)
           = [num |-> Cardinality(RarePicks(n, m, a + c, a)),
              den |-> Cardinality(kSubset(a + c, 1..(n + m)))]
  <1> DEFINE h == a + c
             Picks == kSubset(h, 1..(n + m))
             W(k) == Choose[a + (n - a)][k] * Choose[c + (m - c)][a + c - k]
             K == Max({0, a - (m - c)}) .. Min({a + (n - a), a + c})
             V(k) == Binomial(n, k) * Binomial(m, h - k)
             class == [s \in Picks |-> Cardinality(s \cap 1..n)]
             S == {k \in K : W(k) <= W(a)}
             w == [k \in S |-> V(k)]
  <1>0. h \in Nat /\ n + m \in Nat /\ a + (n - a) = n /\ c + (m - c) = m
        /\ a + (n - a) + c + (m - c) = n + m
    OBVIOUS
  <1>1. Max({0, a - (m - c)}) = (IF h > m THEN h - m ELSE 0)
        /\ Min({a + (n - a), a + c}) = (IF n < h THEN n ELSE h)
    BY DEF Max, Min
  <1>2. K \subseteq 0..n /\ a \in K
        /\ \A k \in 0..n : k \in K <=> k <= h /\ h - k <= m
    BY <1>1
  <1>3. \A k \in K : W(k) = V(k)
    <2> SUFFICES ASSUME NEW k \in K PROVE W(k) = V(k)
      OBVIOUS
    <2> HIDE DEF K
    <2>1. k \in 0..n /\ k <= h
      BY <1>2
    <2> QED BY <2>1, <1>0, ChooseIsCount
  <1>4. Choose[a + (n - a) + c + (m - c)][a + c] = Cardinality(Picks)
    BY <1>0, ChooseIsCount DEF Binomial
  <1>5. IsFiniteSet(1..n) /\ IsFiniteSet(1..(n + m)) /\ IsFiniteSet(Picks)
        /\ IsFiniteSet(K) /\ IsFiniteSet(S)
    <2>1. IsFiniteSet(K)
      BY <1>1, FS_Interval
    <2>2. S \subseteq K
      OBVIOUS
    <2> HIDE DEF K, S
    <2>3. IsFiniteSet(S)
      BY <2>1, <2>2, FS_Subset
    <2> QED BY <2>1, <2>3, <1>0, FS_Interval, Chosen
  <1> HIDE DEF K, W
  <1>6. \A k \in K : Ways(n, m, h)[k] = V(k)
                     /\ Cardinality(Tally(Picks, class, {k})) = V(k)
    <2> SUFFICES ASSUME NEW k \in K
                 PROVE  Ways(n, m, h)[k] = V(k)
                        /\ Cardinality(Tally(Picks, class, {k})) = V(k)
      OBVIOUS
    <2>1. k \in 0..n /\ k \in Nat /\ k <= h
      BY <1>2
    <2>2. Cardinality(Parted(n, m, h, k)) = V(k)
      BY <1>0, <2>1, ChooseApart
    <2>3. Tally(Picks, class, {k}) = Parted(n, m, h, k)
      BY DEF Tally, Parted
    <2> QED BY <2>1, <2>2, <2>3 DEF Ways
  <1>7. \A s \in Picks : class[s] \in K
    <2> SUFFICES ASSUME NEW s \in Picks PROVE Cardinality(s \cap 1..n) \in K
      OBVIOUS
    <2> DEFINE A == 1..n
               B == (n + 1)..(n + m)
    <2>1. /\ IsFiniteSet(s) /\ s \subseteq 1..(n + m) /\ Cardinality(s) = h
          /\ IsFiniteSet(A) /\ IsFiniteSet(B)
          /\ Cardinality(A) = n /\ Cardinality(B) = m
      <3>1. /\ IsFiniteSet(A) /\ IsFiniteSet(B)
            /\ Cardinality(A) = n /\ Cardinality(B) = m
        BY FS_Interval
      <3>2. IsFiniteSet(s) /\ s \subseteq 1..(n + m) /\ Cardinality(s) = h
        BY <1>5, Chosen, Zenon
      <3> QED BY <3>1, <3>2, Zenon
    <2>2. (s \cap A) \cup (s \cap B) = s /\ (s \cap A) \cap (s \cap B) = {}
      <3>1. 1..(n + m) = A \cup B /\ A \cap B = {}
        OBVIOUS
      <3> HIDE DEF A, B
      <3> QED BY <2>1, <3>1
    <2> HIDE DEF A, B, Picks
    <2>3. /\ IsFiniteSet(s \cap A) /\ IsFiniteSet(s \cap B)
          /\ Cardinality(s \cap A) <= n /\ Cardinality(s \cap B) <= m
      BY <2>1, FS_Intersection
    <2> DEFINE x == s \cap A
               y == s \cap B
    <2> HIDE DEF x, y
    <2>4. /\ Cardinality(x) \in Nat /\ Cardinality(y) \in Nat
          /\ Cardinality(x \cup y) = Cardinality(x) + Cardinality(y)
      BY <2>2, <2>3, ApartSize, Zenon DEF x, y
    <2>5. Cardinality(x \cup y) = h /\ Cardinality(x) <= n /\ Cardinality(y) <= m
      BY <2>1, <2>2, <2>3, Zenon DEF x, y
    <2>6. Cardinality(x) \in K
      BY <2>4, <2>5, <1>0, <1>2
    <2> QED BY <2>6 DEF x, A
  <1>8. Weighs(w, Picks, class, S)
    <2> HIDE DEF V, Picks, class
    <2> QED BY <1>6 DEF Weighs
  <1>9. PICK f : Sums(f, w, S)
    <2> HIDE DEF w, Picks, class, S
    <2> QED BY <1>5, <1>8, SumExists
  <1> DEFINE Iter(g) == [s \in SUBSET S |->
        IF s = {} THEN 0
        ELSE W(CHOOSE x \in s : TRUE) + g[s \ {CHOOSE x \in s : TRUE}]]
  <1>10. \A g : Sums(g, w, S) <=> g = Iter(g)
    <2>1. ASSUME NEW s \in SUBSET S, s # {}
          PROVE  W(CHOOSE x \in s : TRUE) = w[CHOOSE x \in s : TRUE]
      <3> DEFINE y == CHOOSE x \in s : TRUE
      <3>1. y \in S
        BY <2>1
      <3> HIDE DEF y
      <3>2. W(y) = w[y]
        BY <3>1, <1>3
      <3> QED BY <3>2 DEF y
    <2> HIDE DEF w, S
    <2> DEFINE Same(g) == [s \in SUBSET S |->
          IF s = {} THEN 0
          ELSE w[CHOOSE x \in s : TRUE] + g[s \ {CHOOSE x \in s : TRUE}]]
    <2>2. ASSUME NEW g PROVE Iter(g) = Same(g)
      BY <2>1
    <2>3. \A g : Sums(g, w, S) <=> g = Same(g)
      BY DEF Sums
    <2> HIDE DEF Same, Iter
    <2> QED BY <2>2, <2>3, Zenon
  <1> DEFINE it == CHOOSE g : g = Iter(g)
  <1>11. it = Iter(it)
    <2> HIDE DEF Iter
    <2> QED BY <1>9, <1>10, Zenon
  <1>12. FisherExact(a, n - a, c, m - c)
           = [num |-> it[S], den |-> Choose[a + (n - a) + c + (m - c)][a + c]]
    BY Zenon DEF FisherExact, MapThenSumSet, MapThenFoldSet, W, K
  <1> HIDE DEF Iter, it
  <1>13. it[S] = Cardinality(Tally(Picks, class, S))
    <2>1. Sums(it, w, S)
      BY <1>10, <1>11, Zenon
    <2> HIDE DEF class, w, Picks, S
    <2> QED BY <2>1, <1>5, <1>8, SumCounts, Zenon
  <1>14. Tally(Picks, class, S) = RarePicks(n, m, h, a)
    <2> SUFFICES ASSUME NEW s \in Picks
                 PROVE  class[s] \in S
                          <=> Ways(n, m, h)[Cardinality(s \cap 1..n)] <= Ways(n, m, h)[a]
      BY DEF Tally, RarePicks
    <2>1. class[s] \in K /\ class[s] = Cardinality(s \cap 1..n)
      BY <1>7
    <2> HIDE DEF V, class, Picks
    <2> QED BY <2>1, <1>2, <1>3, <1>6
  <1> QED BY <1>4, <1>12, <1>13, <1>14

-----------------------------------------------------------------------------
(***************************************************************************)
(* The verdict on two reports is as VerdictIsHonest says.                  *)
(***************************************************************************)
LEMMA VerdictMeans ==
  ASSUME NEW A, NEW B, Written(A), Written(B), verdict # NoVerdict,
         verdict.a = A, verdict.b = B, verdict.says = Verdict(Compare(A, B))
  PROVE  VerdictIsHonest
<1> DEFINE Both == {x.name : x \in A} \cap {x.name : x \in B}
           SA == {x \in A : x.name \in Both}
           SB == {x \in B : x.name \in Both}
           n == Total("measured", SA)
           m == Total("measured", SB)
           a == Total("passed", SA)
           c == Total("passed", SB)
<1>1. n \in Nat /\ m \in Nat /\ a \in 0..n /\ c \in 0..m
  <2>1. ASSUME NEW R, Written(R), NEW S \in SUBSET R
        PROVE  /\ Total("measured", S) \in Nat
               /\ Total("passed", S) \in 0..Total("measured", S)
    <3>1. IsFiniteSet(S)
      BY <2>1, FS_Subset DEF Written
    <3>2. \A x \in S : x["passed"] \in Nat /\ x["measured"] \in Nat
                       /\ x["passed"] <= x["measured"]
      BY <2>1 DEF Written
    <3>3. /\ Total("passed", S) \in Nat /\ Total("measured", S) \in Nat
          /\ Total("passed", S) <= Total("measured", S)
      BY <3>1, <3>2, TotalsCompare
    <3> QED BY <3>3
  <2>2. SA \in SUBSET A /\ SB \in SUBSET B
    OBVIOUS
  <2> HIDE DEF SA, SB
  <2> QED BY <2>1, <2>2
<1>2. Compare(A, B) = [passedA |-> a, measuredA |-> n, passedB |-> c, measuredB |-> m]
  BY DEF Compare
<1> DEFINE Picks == kSubset(a + c, 1..(n + m))
           Rare == RarePicks(n, m, a + c, a)
<1>3. VerdictIsHonest
        <=> (verdict.says \in {"better", "worse"}
               <=> n > 0 /\ n + m > n /\ 20 * Cardinality(Rare) < Cardinality(Picks))
  BY DEF VerdictIsHonest, RarePicks, Ways, Parted
<1> HIDE DEF SA, SB, n, m, a, c
<1>4. FisherExact(a, n - a, c, m - c)
        = [num |-> Cardinality(Rare), den |-> Cardinality(Picks)]
  BY <1>1, FisherCounts
<1>5. Significant(Compare(A, B))
        <=> n > 0 /\ m > 0 /\ 20 * Cardinality(Rare) < Cardinality(Picks)
  BY <1>2, <1>4 DEF Significant
<1> HIDE DEF Rare, Picks
<1>6. Verdict(Compare(A, B)) \in {"better", "worse"}
        <=> n > 0 /\ m > 0 /\ 20 * Cardinality(Rare) < Cardinality(Picks)
  <2> DEFINE x == Compare(A, B)
             says == Verdict(x)
             few == 20 * Cardinality(Rare) < Cardinality(Picks)
             none == n = 0 \/ m = 0
             better == Significant(x) /\ c > a
             worse == Significant(x) /\ c <= a
  <2>1. /\ none => ~better /\ ~worse
        /\ better => ~worse
        /\ better \/ worse <=> n > 0 /\ m > 0 /\ few
    BY <1>1, <1>5
  <2>2. x.measuredA = n /\ x.measuredB = m /\ x.passedA = a /\ x.passedB = c
    BY <1>2
  <2> HIDE DEF x
  <2>3. says = CASE none -> "not enough runs" [] better -> "better"
                 [] worse -> "worse" [] OTHER -> "no difference"
    BY <2>2, Zenon DEF Verdict
  <2> HIDE DEF says, few, none, better, worse
  <2>4. none => says = "not enough runs"
    BY <2>1, <2>3, Zenon
  <2>5. better => says = "better"
    BY <2>1, <2>3, Zenon
  <2>6. worse => says = "worse"
    BY <2>1, <2>3, Zenon
  <2>7. ~none /\ ~better /\ ~worse => says = "no difference"
    BY <2>1, <2>3, Zenon
  <2>8. says \in {"better", "worse"} <=> n > 0 /\ m > 0 /\ few
    BY <2>1, <2>4, <2>5, <2>6, <2>7, Zenon
  <2> QED BY <2>8, Zenon DEF says, x, few
<1> QED BY <1>1, <1>3, <1>6

\* What was compared was written by the harness, and the verdict is on it.
Compared ==
  /\ Written(report)
  /\ verdict # NoVerdict =>
       /\ Written(verdict.a) /\ Written(verdict.b)
       /\ verdict.says = Verdict(Compare(verdict.a, verdict.b))

\* What a task's runs are summarised to is written.
LEMMA SummaryWritten ==
  ASSUME EvalInv, Collect, Written(report) PROVE Written(report')
<1> DEFINE t == Task(runs[1].task)
           r == Summarise(t, runs)
           errored == {i \in DOMAIN runs : runs[i].error}
           passed == {i \in DOMAIN runs \ errored : runs[i].passed}
<1>1. report' = report \cup {r}
  BY DEF Collect
<1>2. IsFiniteSet(DOMAIN runs)
  BY LenProperties, FS_Interval DEF EvalInv, TypeOK
<1>3. /\ IsFiniteSet(errored) /\ IsFiniteSet(passed)
      /\ Cardinality(errored) \in Nat /\ Cardinality(passed) \in Nat
      /\ Cardinality(errored \cup passed) = Cardinality(errored) + Cardinality(passed)
      /\ Cardinality(errored \cup passed) <= Cardinality(DOMAIN runs)
      /\ Cardinality(DOMAIN runs) \in Nat
  <2>1. /\ errored \subseteq DOMAIN runs /\ passed \subseteq DOMAIN runs
        /\ errored \cup passed \subseteq DOMAIN runs /\ errored \cap passed = {}
    OBVIOUS
  <2> HIDE DEF errored, passed
  <2>2. IsFiniteSet(errored) /\ IsFiniteSet(passed)
    BY <1>2, <2>1, FS_Subset
  <2> QED BY <1>2, <2>1, <2>2, FS_Subset, FS_CardinalityType, ApartSize
<1>4. /\ r.measured = Cardinality(DOMAIN runs) - Cardinality(errored)
      /\ r.passed = Cardinality(passed)
  BY DEF Summarise
<1> HIDE DEF r, errored, passed
<1>5. r.measured \in Nat /\ r.passed \in 0..r.measured
  BY <1>3, <1>4
<1>6. IsFiniteSet(report')
  BY <1>1, FS_AddElement DEF Written
<1> QED BY <1>1, <1>5, <1>6 DEF Written

(***************************************************************************)
(* A difference between two reports is called real just when fewer than    *)
(* one in twenty of all ways to pick which runs pass are as rare as the    *)
(* observed one (Compare, Significant, fisherExact).                       *)
(***************************************************************************)
THEOREM VerdictsAreHonest == Spec => []VerdictIsHonest
<1>1. Init => Compared
  BY FS_EmptySet DEF Init, Compared, Written
<1>2. EvalInv /\ Compared /\ [Next]_vars => Compared'
  <2> SUFFICES ASSUME EvalInv, Compared, [Next]_vars PROVE Compared'
    OBVIOUS
  <2> USE DEF Compared
  <2>1. ASSUME UNCHANGED <<report, verdict>> PROVE Compared'
    BY <2>1 DEF Written
  <2>2. CASE Collect
    BY <2>2, SummaryWritten DEF Collect, Written
  <2>3. ASSUME NEW base \in Baselines,
               CompareReports(base, report) \/ CompareReports(report, base)
        PROVE  Compared'
    BY <2>3, BaselineAssumption DEF CompareReports, Written
  <2>4. ASSUME NEW i \in Reps, Step(i) PROVE UNCHANGED <<report, verdict>>
    <3>1. CASE Acquire(i) \/ Prepare(i) \/ PrepareFails(i) \/ Release(i)
      BY <3>1 DEF Acquire, Prepare, PrepareFails, Release, result
    <3>2. CASE \E tree \in Trees, turns \in TurnCounts, stop \in Stops :
                 Answer(i, tree, turns, stop)
      BY <3>2 DEF Answer, result
    <3>3. CASE \/ TimedOut(i) \/ RequestFails(i)
               \/ \E outcome \in Outcomes : Check(i, outcome)
      BY <3>3 DEF TimedOut, RequestFails, Abandon, Check, result
    <3> QED BY <2>4, <3>1, <3>2, <3>3 DEF Step
  <2>5. CASE \/ \E only \in Onlys : Load(only)
             \/ StartTask \/ StopEarly \/ Interrupt
    BY <2>5, <2>1 DEF Load, StartTask, StopEarly, Interrupt, result
  <2>6. CASE \E d \in Dir : Settle(d) \/ \E tree \in Trees : LateWrite(d, tree)
    BY <2>6, <2>1 DEF Settle, LateWrite, result
  <2>7. CASE UNCHANGED vars
    BY <2>7, <2>1 DEF vars
  <2> QED BY <2>1, <2>2, <2>3, <2>4, <2>5, <2>6, <2>7 DEF Next
<1>3. Compared => VerdictIsHonest
  <2>1. CASE verdict = NoVerdict
    BY <2>1 DEF VerdictIsHonest
  <2> QED BY <2>1, VerdictMeans DEF Compared
<1> QED BY <1>1, <1>2, <1>3, RunsInvariant, PTL DEF Spec
=============================================================================
