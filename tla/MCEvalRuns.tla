----------------------------- MODULE MCEvalRuns -----------------------------
(***************************************************************************)
(* An instance for TLC: a suite of two tasks that can be run and one that  *)
(* cannot, with two repetitions of the first.                              *)
(***************************************************************************)
EXTENDS EvalRuns

Tree(a, rest) == ("a" :> a) @@ rest
MCRepo == Tree("old", "b" :> "old")

\* An agent changes nothing but .git, or edits one file and deletes another.
MCTrees == {MCRepo, Tree("old", "b" :> "old" @@ ".git" :> "new"), Tree("new", <<>>)}

MCSettings == {[concurrency |-> n, keep |-> FALSE] : n \in 1..2}
                \cup {[concurrency |-> 2, keep |-> TRUE]}

MCEntries ==
  { [name |-> "fix", dir |-> "fix", whole |-> TRUE, repetitions |-> 0,
     expectNoChanges |-> FALSE, mustSurvive |-> {"b"}, maxTurns |-> 1,
     repo |-> MCRepo],
    [name |-> "refuse", dir |-> "refuse", whole |-> TRUE, repetitions |-> 1,
     expectNoChanges |-> TRUE, mustSurvive |-> {}, maxTurns |-> 0,
     repo |-> MCRepo],
    [name |-> "typo", dir |-> "typos", whole |-> TRUE, repetitions |-> 1,
     expectNoChanges |-> FALSE, mustSurvive |-> {}, maxTurns |-> 0,
     repo |-> MCRepo] }

MCOnlys == {{}, {"fix"}, {"refuse", "fix"}, {"refuse", "gone"}}
MCInOrder ==
  [names \in SUBSET {"fix", "refuse", "typo"} |->
     SelectSeq(<<"fix", "refuse", "typo">>, LAMBDA n : n \in names)]

Past(name, measured, passed) ==
  [name |-> name, attempts |-> measured, errored |-> 0,
   measured |-> measured, passed |-> passed]

MCBaselines == { {Past("fix", 2, 0), Past("refuse", 1, 0)},
                 {Past("fix", 2, 2), Past("refuse", 1, 1)},
                 {Past("fix", 4, 0), Past("gone", 2, 2)} }
=============================================================================
