---------------------------- MODULE MCToolCalls -----------------------------
(* An instance of ToolCalls: a command in two spellings that asks for      *)
(* time, others on the denylist or not to be read, and a call of another   *)
(* tool.                                                                   *)
EXTENDS ToolCalls, TLC

CONSTANTS r1, r2

Bash(command, timeout, workdir, form) ==
  [tool |-> "bash", command |-> command, timeout |-> timeout,
   workdir |-> workdir, form |-> form]

MCCalls ==
  { Bash("useful", 2, "root", "plain"), Bash("useful", 2, "root", "spaced"),
    Bash("denied", 0, "root", "plain"), Bash("denied", 1, "inside", "trailing"),
    Bash("useful", 0, "root", "extra"),
    [Bash("empty", 0, "root", "plain") EXCEPT !.tool = "read"] }

MCConfigs ==
  { [guards |-> TRUE, shell |-> TRUE, audit |-> TRUE],
    [guards |-> FALSE, shell |-> TRUE, audit |-> FALSE],
    [guards |-> TRUE, shell |-> FALSE, audit |-> FALSE] }

MCSymmetry == Permutations(Request)
=============================================================================
