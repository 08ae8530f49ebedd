------------------------------- MODULE Shell -------------------------------
(***************************************************************************)
(* One command of the bash tool: LocalShell.Run with its wait, time out    *)
(* and kill (internal/workspace/shell.go), and the writers that keep the   *)
(* end of the output in memory and its beginning in a file                 *)
(* (internal/tools/bash.go).                                               *)
(*                                                                         *)
(* The command is external: processes that fork, print, close their end of *)
(* the pipe, leave the process group and end as they like, and survive a   *)
(* SIGTERM if they like.  Three goroutines of the server meet it: Run, the *)
(* one in cmd.Wait, and the one in os/exec that copies the pipe.           *)
(*                                                                         *)
(* A byte is named by its place in the output.                             *)
(*                                                                         *)
(* Left out: where the command runs, for how long exactly, its exit code,  *)
(* the resource limits (a process they kill ends), line boundaries in the  *)
(* tail, and commands that cannot be started.                              *)
(***************************************************************************)
EXTENDS Integers, SequencesExt

CONSTANTS
  Bash,        \* the process started by the server
  Child,       \* processes the command may start
  Sizes,       \* values of [tail: TailBytes, spill: SpillBytes]
  MaxPrinted   \* bound on the bytes printed

ASSUME ShellAssumption ==
  /\ Bash \notin Child
  /\ Sizes \subseteq [tail : Nat \ {0}, spill : Nat]
  /\ MaxPrinted \in Nat

VARIABLES
  alive,     \* the command's processes
  group,     \* those in Bash's process group
  writers,   \* those that have the pipe's write end open
  printed,   \* bytes printed (history)
  copied,    \* tailWriter.total: bytes taken from the pipe
  tail,      \* tailWriter.buf
  buf,       \* spillFile.buf
  file,      \* what the overflow file holds
  created,   \* spillFile.file # nil
  failed,    \* spillFile.failed
  size,      \* the configured limits
  at,        \* where Run is
  waited,    \* cmd.Wait has returned, its result is in the channel
  expired,   \* the timeout has passed
  cancelled, \* the caller's context is done
  late,      \* Run has seen its context done before the command's end (history)
  timedOut   \* ShellResult.TimedOut

command == <<alive, group, writers, printed>>
output == <<copied, tail, buf, file, created, failed>>
clock == <<expired, cancelled>>
run == <<at, waited, late, timedOut>>
vars == <<command, output, clock, run, size>>
-----------------------------------------------------------------------------
Process == {Bash} \cup Child

TypeOK ==
  /\ alive \subseteq Process /\ group \subseteq alive /\ writers \subseteq alive
  /\ printed \in 0..MaxPrinted /\ copied \in 0..printed
  /\ tail \in Seq(Nat) /\ buf \in Seq(Nat) /\ file \in Seq(Nat)
  /\ created \in BOOLEAN /\ failed \in BOOLEAN
  /\ size \in Sizes
  /\ at \in {"waiting", "grace", "killed", "ended", "returned"}
  /\ waited \in BOOLEAN /\ expired \in BOOLEAN /\ cancelled \in BOOLEAN
  /\ late \in BOOLEAN /\ timedOut \in BOOLEAN

Init ==
  /\ alive = {Bash} /\ group = {Bash} /\ writers = {Bash}
  /\ printed = 0 /\ copied = 0
  /\ tail = <<>> /\ buf = <<>> /\ file = <<>>
  /\ created = FALSE /\ failed = FALSE
  /\ size \in Sizes
  /\ at = "waiting"
  /\ waited = FALSE /\ expired = FALSE /\ cancelled = FALSE
  /\ late = FALSE /\ timedOut = FALSE
-----------------------------------------------------------------------------
(* The command.                                                            *)

\* A process that ended is used again for another one.
Fork(p, q) ==
  /\ p \in alive /\ q \in Child \ alive
  /\ alive' = alive \cup {q}
  /\ group' = IF p \in group THEN group \cup {q} ELSE group
  /\ writers' = IF p \in writers THEN writers \cup {q} ELSE writers
  /\ UNCHANGED <<printed, output, clock, run, size>>

Dies(ps) ==
  /\ alive' = alive \ ps
  /\ group' = group \ ps
  /\ writers' = writers \ ps
  /\ UNCHANGED printed

\* By itself, on SIGTERM, or over a limit.
End(p) ==
  /\ p \in alive
  /\ Dies({p})
  /\ UNCHANGED <<output, clock, run, size>>

Emit(p) ==
  /\ p \in writers /\ printed < MaxPrinted
  /\ printed' = printed + 1
  /\ UNCHANGED <<alive, group, writers, output, clock, run, size>>

\* Its output goes elsewhere from now on.
Redirect(p) ==
  /\ p \in writers
  /\ writers' = writers \ {p}
  /\ UNCHANGED <<alive, group, printed, output, clock, run, size>>

\* setsid; the leader of a group cannot.
Leave(p) ==
  /\ p \in group \ {Bash}
  /\ group' = group \ {p}
  /\ UNCHANGED <<alive, writers, printed, output, clock, run, size>>

KillBash == Dies({Bash})  \* deliberately wrong

\* setProcessGroup makes Bash the leader, signalGroup signals the group.
KillGroup == Dies(group)
-----------------------------------------------------------------------------
(* The copying goroutine, which is the only one to write.                  *)

LastOf(s, n) == SubSeq(s, Len(s) - n + 1, Len(s))

\* tailWriter.Write
KeepTail(p) ==
  tail' = IF Len(p) >= size.tail THEN LastOf(p, size.tail)
          ELSE IF Len(tail) + Len(p) > size.tail
          THEN LastOf(tail, size.tail - Len(p)) \o p
          ELSE tail \o p

\* writeOut: up to the limit, and the disk may be full.
WriteOut(p) ==
  LET room == size.spill - Len(file)
      n == IF Len(p) > room THEN room ELSE Len(p)
  IN  \/ /\ file' = file \o SubSeq(p, 1, n)
         /\ UNCHANGED failed
      \/ /\ n > 0 /\ failed' = TRUE
         /\ \E k \in 0..n - 1 : file' = file \o SubSeq(p, 1, k)

SpillFromNowOn(p) ==  \* deliberately wrong
  IF failed \/ size.spill = 0 THEN UNCHANGED <<buf, file, created, failed>>
  ELSE IF created THEN WriteOut(p) /\ UNCHANGED <<buf, created>>
  ELSE IF Len(buf \o p) <= size.tail
  THEN buf' = buf \o p /\ UNCHANGED <<file, created, failed>>
  ELSE \/ /\ buf' = <<>> /\ created' = TRUE
          /\ WriteOut(p)
       \/ /\ buf' = buf \o p /\ failed' = TRUE
          /\ UNCHANGED <<file, created>>

\* spillFile.Write: nothing is created until the output exceeds the tail.
Spill(p) ==
  IF failed \/ size.spill = 0 THEN UNCHANGED <<buf, file, created, failed>>
  ELSE IF created THEN WriteOut(p) /\ UNCHANGED <<buf, created>>
  ELSE IF Len(buf \o p) <= size.tail
  THEN buf' = buf \o p /\ UNCHANGED <<file, created, failed>>
  ELSE \/ /\ buf' = <<>> /\ created' = TRUE
          /\ WriteOut(buf \o p)
       \/ /\ buf' = buf \o p /\ failed' = TRUE
          /\ UNCHANGED <<file, created>>

\* The next n bytes of the pipe, given to both writers.
Copy(n) ==
  /\ n \in 1..printed - copied
  /\ LET p == [i \in 1..n |-> copied + i]
     IN  KeepTail(p) /\ Spill(p)
  /\ copied' = copied + n
  /\ UNCHANGED <<command, clock, run, size>>
-----------------------------------------------------------------------------
(* Run and the goroutine in cmd.Wait.                                      *)

WaitForBash ==  \* deliberately wrong
  /\ ~waited
  /\ Bash \notin alive
  /\ waited' = TRUE
  /\ UNCHANGED <<command, output, clock, at, late, timedOut, size>>

\* cmd.Wait waits for the process and for the end of the copying, which is
\* when nobody has the pipe open and nothing is left in it.
Wait ==
  /\ ~waited
  /\ Bash \notin alive /\ writers = {} /\ copied = printed
  /\ waited' = TRUE
  /\ UNCHANGED <<command, output, clock, at, late, timedOut, size>>

Expire ==
  /\ ~expired /\ at # "returned"
  /\ expired' = TRUE
  /\ UNCHANGED <<command, output, cancelled, run, size>>

Cancel ==
  /\ ~cancelled /\ at # "returned"
  /\ cancelled' = TRUE
  /\ UNCHANGED <<command, output, expired, run, size>>

Goes(from, to) ==
  /\ at = from /\ at' = to
  /\ UNCHANGED <<output, clock, waited, timedOut, size>>

\* The select takes either of two channels that are ready.
Finished ==
  /\ Goes("waiting", "ended")
  /\ waited
  /\ UNCHANGED <<command, late>>

\* SIGTERM to the group; whether a process ends of it is its own affair.
AskToStop ==
  /\ Goes("waiting", "grace")
  /\ expired \/ cancelled
  /\ late' = TRUE
  /\ UNCHANGED command

NoSweep ==  \* deliberately wrong
  /\ Goes("grace", "ended")
  /\ waited
  /\ UNCHANGED <<command, late>>

\* The shell has ended in time; what outlived it has not.
Sweep ==
  /\ Goes("grace", "ended")
  /\ waited
  /\ KillGroup
  /\ UNCHANGED late

GraceEnds ==
  /\ Goes("grace", "killed")
  /\ KillGroup
  /\ UNCHANGED late

\* The wait after SIGKILL has no end of its own.
Reaped ==
  /\ Goes("killed", "ended")
  /\ waited
  /\ UNCHANGED <<command, late>>

\* What is returned is read from the writers now, without a lock.
Return ==
  /\ at = "ended" /\ at' = "returned"
  /\ timedOut' = (expired /\ ~cancelled)
  /\ UNCHANGED <<command, output, clock, waited, late, size>>
-----------------------------------------------------------------------------
Command ==
  \E p \in Process :
    \/ End(p) \/ Emit(p) \/ Redirect(p) \/ Leave(p)
    \/ \E q \in Child : Fork(p, q)

Copying == \E n \in 1..MaxPrinted : Copy(n)

Run == Finished \/ AskToStop \/ Sweep \/ GraceEnds \/ Reaped \/ Return

Next == Command \/ Copying \/ Wait \/ Run \/ Expire \/ Cancel

Spec == Init /\ [][Next]_vars

\* The server's goroutines run and its timers fire; nothing is assumed of the
\* command and of the caller.
FairSpec ==
  Spec /\ WF_vars(Copying) /\ WF_vars(Wait) /\ WF_vars(Run) /\ WF_vars(Expire)
-----------------------------------------------------------------------------
(* Properties.                                                             *)

Stream == [i \in 1..copied |-> i]

\* The tail is the last bytes taken from the pipe, as many as it may hold,
\* however they were cut into writes (tailWriter).
TailKeepsEnd ==
  tail = LastOf(Stream, IF copied > size.tail THEN size.tail ELSE copied)

\* The overflow file exists just when the tail is not everything, and holds the
\* beginning of the output up to its limit; when the disk fails it holds less,
\* and never anything else (spillFile).
SpillKeepsHead ==
  /\ IsPrefix(file, Stream)
  /\ created => copied > size.tail
  /\ ~failed /\ size.spill > 0 /\ copied > size.tail =>
       created /\ Len(file) = IF copied > size.spill THEN size.spill ELSE copied

\* No byte of the output is lost where it should have been kept, or twice there.
OutputKept == TailKeepsEnd /\ SpillKeepsHead

\* The output that Run returns is all there is: the copying has ended, and
\* nobody can print any more (shell.go reads the tail without a lock).
OutputIsWhole ==
  at \in {"ended", "returned"} => writers = {} /\ copied = printed

\* When the context ended before the command, nothing of its group is left,
\* and the result says so (shell.go: "SIGKILL goes to the group on every timeout
\* path - including the one where bash has already gone quietly").
TimeoutClearsGroup ==
  late /\ at = "returned" => group = {} /\ (timedOut \/ cancelled)

\* Run ends, unless a process that left the group keeps the pipe open for ever.
RunEnds ==
  <>(at = "returned") \/ <>[](writers \ group # {})

=============================================================================
