----------------------------- MODULE Compaction -----------------------------
(***************************************************************************)
(* How a conversation is made to fit the model's context window            *)
(* (internal/contextmgr/compact.go): old tool results are replaced by      *)
(* stubs, and, when that is not enough, everything but the task and the    *)
(* most recent messages is replaced by a summary.                          *)
(*                                                                         *)
(* A conversation is a sequence of messages that starts with the system    *)
(* prompt.  A message is its role, what its text is good for, the tool     *)
(* calls it makes and the one it answers, by position among the calls of   *)
(* the assistant message before it, and its cost, the estimated tokens.    *)
(* The estimator's arithmetic is left out: the cost of a conversation is   *)
(* the sum of its messages' costs.                                         *)
(***************************************************************************)
EXTENDS Integers, Sequences, SequencesExt, FiniteSetsExt

CONSTANTS
  Limit,         \* the window's threshold, less the tool definitions
  RetainBudget,  \* tokens of the most recent messages to keep
  PruneAbove,    \* a tool result that costs more is worth a stub
  Key            \* tool calls that differ in the tool or in the arguments

ASSUME CompactionAssumption ==
  /\ Limit \in Nat /\ RetainBudget \in Nat
  /\ PruneAbove \in Nat \ {0}

Role == {"system", "user", "assistant", "tool"}

Text == {"prompt", "task", "talk", "result", "stub", "summary"}

Message == [role : Role, text : Text, cost : Nat, calls : Seq(Key),
            answers : Nat]

Msg(role, text, cost) ==
  [role |-> role, text |-> text, cost |-> cost, calls |-> <<>>, answers |-> 0]

Cost(msgs) == FoldSeq(LAMBDA m, sum : m.cost + sum, 0, msgs)

SafeCutAnywhere(msgs, k) == k  \* deliberately wrong

\* The first message from position k on that is not a tool result.
SafeCut(msgs, k) ==
  LET n == Len(msgs)
  IN  Min({i \in k..n : msgs[i].role # "tool"} \cup {n + 1})

(***************************************************************************)
(* The position of the first message kept as it is: as many of the most    *)
(* recent messages as the budget allows, but at least the last two and     *)
(* never the first two, moved on so that no tool result is cut off from    *)
(* the call it answers.                                                    *)
(***************************************************************************)
RetainIndex(msgs) ==
  LET n == Len(msgs)
      kept == Min({k \in 1..n : Cost(SubSeq(msgs, k, n)) <= RetainBudget}
                    \cup {n + 1})
  IN  SafeCut(msgs, Max({3, Min({kept, n - 1})}))

PruneToolResults(msgs, retainFrom) ==
  [i \in DOMAIN msgs |->
     IF i < retainFrom /\ msgs[i].role = "tool" /\ msgs[i].cost > PruneAbove
     THEN [msgs[i] EXCEPT !.text = "stub", !.cost = 1]
     ELSE msgs[i]]

KeepsPromptOnly(msgs) == SubSeq(msgs, 1, 1)  \* deliberately wrong

\* The system prompt, and the task when it comes first.
Preserved(msgs) ==
  SubSeq(msgs, 1, IF msgs[2].role = "user" THEN 2 ELSE 1)

CanSummarize(msgs, retainFrom) == Len(Preserved(msgs)) + 1 < retainFrom

Summarize(msgs, retainFrom) ==
  Preserved(msgs) \o <<Msg("user", "summary", 1)>>
    \o SubSeq(msgs, retainFrom, Len(msgs))

(***************************************************************************)
(* Compactor's Force and Maybe; `answered` is whether the model asked for  *)
(* the summary answered with one.  A failed summary leaves the pruned      *)
(* conversation.                                                           *)
(***************************************************************************)
ForceCompaction(msgs, answered) ==
  LET retainFrom == RetainIndex(msgs)
      pruned == PruneToolResults(msgs, retainFrom)
  IN  IF Cost(pruned) >= Limit /\ CanSummarize(pruned, retainFrom) /\ answered
      THEN Summarize(pruned, retainFrom)
      ELSE pruned

Maybe(msgs, answered) ==
  IF Len(msgs) < 4 \/ Cost(msgs) < Limit THEN msgs
  ELSE ForceCompaction(msgs, answered)
=============================================================================
