----------------------------- MODULE ToolCalls ------------------------------
(***************************************************************************)
(* The tool calls of the server's agent runs, from what the model asked    *)
(* for to the result it reads: the guards (internal/guard), the registry   *)
(* (internal/tools/registry.go) and the bash tool (internal/tools/bash.go),*)
(* as agent/loop.go's invoke puts them together; and the audit log that    *)
(* all runs, and one server after another, write (internal/audit).         *)
(*                                                                         *)
(* An argument text is the command it names, the timeout it asks for, the  *)
(* directory, and its form: "plain"; "spaced", which is plain but for white*)
(* space and order; "extra", with a key the tool does not know; "trailing",*)
(* JSON with text after it; "garbled", not JSON at all.                    *)
(*                                                                         *)
(* Left out: what other tools do (modules ReadBeforeEdit, FileTools) and   *)
(* how calls of one turn overlap (AgentLoop); how a command ends (Shell),  *)
(* and os/exec failing to wait for one; a log record that is no JSON.      *)
(***************************************************************************)
EXTENDS Integers, SequencesExt, BagsExt

CONSTANTS
  Request,          \* agent runs of one server at a time
  Calls,            \* the tool calls models ask for
  Configs,          \* what servers are configured with
  Allowlists,       \* harness.tools of requests; {}: not given
  Left,             \* seconds that may remain of a request's wall clock
  RepeatThreshold,  \* guards.repeat_threshold
  MaxCalls,         \* bound on the calls, of all runs together
  MaxServers        \* bound on the servers started one after the other

ASSUME CallAssumption ==
  /\ Calls \subseteq
       [tool : STRING, command : {"empty", "useful", "denied"}, timeout : Nat,
        workdir : {"root", "inside", "missing", "outside", "file"},
        form : {"plain", "spaced", "extra", "trailing", "garbled"}]
  /\ Configs \subseteq [guards : BOOLEAN, shell : BOOLEAN, audit : BOOLEAN]
  /\ Left \subseteq Nat /\ RepeatThreshold \in Nat \ {0, 1}
  /\ MaxCalls \in Nat /\ MaxServers \in Nat \ {0}

VARIABLES
  config,    \* the configuration, the same for every server
  server,    \* the number of the server
  up,        \* it is running
  failed,    \* Logger.failed
  file,      \* the audit log's pieces: events, written whole or torn
  offered,   \* offered[r]: the names in the registry of run r
  prior,     \* prior[r]: the bag of calls r has made, canonical
  asked,     \* calls so far, of all runs
  current,   \* current[r]: the call in progress
  due,       \* events that should be on record (history)
  reported   \* servers that reported a failing log (history)

log == <<failed, file, due, reported>>
vars == <<config, server, up, offered, prior, asked, current, log>>
-----------------------------------------------------------------------------
(* The configured tools and guards.                                        *)

DefaultTools ==
  {"read", "glob", "grep", "edit", "write"}
    \cup (IF config.shell THEN {"bash"} ELSE {})

DefaultGuards ==
  IF ~config.guards THEN <<>>
  ELSE IF ~config.shell THEN <<"repeat-tool">>
  ELSE <<"repeat-tool", "command-denylist", "timeout-policy">>

\* json.Unmarshal: the text is one JSON value; unknown keys are skipped.
GuardReads(c) == c.form \in {"plain", "spaced", "extra"}

\* parseArgs: a Decoder takes the first JSON value and refuses unknown keys.
ToolReads(c) == c.form \in {"plain", "spaced", "trailing"}

\* canonicalArgs: what is no JSON value stays as it is.
Canonical(c) == IF c.form = "spaced" THEN [c EXCEPT !.form = "plain"] ELSE c

Occurrences(c, calls) ==
  LET k == Canonical(c) IN IF BagIn(k, calls) THEN calls[k] ELSE 0

\* What a guard sees of a pending call.
Execution(r, c, left) == [call |-> c, left |-> left, prior |-> prior[r]]

Repeated(ex) == Occurrences(ex.call, ex.prior) >= RepeatThreshold

\* The patterns are in the command: one that matches is "denied".
OnDenylist(ex) ==
  /\ ex.call.tool = "bash" /\ GuardReads(ex.call)
  /\ ex.call.command = "denied"

\* No time left is taken for no limit.
TooLong(ex) ==
  /\ ex.call.tool = "bash" /\ GuardReads(ex.call)
  /\ ex.left > 0 /\ ex.call.timeout > ex.left

Objects(guard, ex) ==
  CASE guard = "repeat-tool" -> Repeated(ex)
    [] guard = "command-denylist" -> OnDenylist(ex)
    [] guard = "timeout-policy" -> TooLong(ex)

\* Chain.Check: the first guard that objects, or none.
Check(chain, ex) ==
  LET objecting == {i \in DOMAIN chain : Objects(chain[i], ex)}
  IN  IF objecting = {} THEN "none" ELSE chain[Min(objecting)]
-----------------------------------------------------------------------------
(* The audit log.                                                          *)

\* What a server records of its n-th call: a command, or a refusal.
Event(n) == [server |-> server, call |-> n]

\* Logger.Write, one line in one write to a file opened for appending: it is
\* whole, or torn before its end, or not there.  Only the first failure is
\* reported.
Record(ev) ==
  IF ~config.audit THEN UNCHANGED log
  ELSE /\ due' = due \cup {ev}
       /\ \/ /\ file' = Append(file, [event |-> ev, whole |-> TRUE])
             /\ UNCHANGED <<failed, reported>>
          \/ /\ \/ file' = Append(file, [event |-> ev, whole |-> FALSE])
                \/ UNCHANGED file
             /\ failed' = TRUE
             /\ reported' = IF failed THEN reported
                            ELSE reported \cup {server}

OpenAfresh == <<>>  \* deliberately wrong

\* What a server finds in the log when it opens it: O_APPEND, not O_TRUNC.
Opened == file
-----------------------------------------------------------------------------
NoCall == [at |-> "none"]

Init ==
  /\ config \in Configs
  /\ server = 1 /\ up = TRUE
  /\ failed = FALSE /\ file = <<>>
  /\ offered = [r \in Request |-> {}]
  /\ prior = [r \in Request |-> EmptyBag]
  /\ asked = 0
  /\ current = [r \in Request |-> NoCall]
  /\ due = {} /\ reported = {}

At(r, place) == up /\ current[r].at = place

Goes(r, place) == current' = [current EXCEPT ![r].at = place]

Answer(r, code) ==
  current' = [current EXCEPT ![r] =
    [at |-> "answered", call |-> @.call, event |-> @.event,
     started |-> @.at \in {"running", "ended"}, code |-> code]]

\* A run begins, where another may have ended.  Registry.Subset: a request that
\* names an unknown tool gets none.
StartRun(r) ==
  /\ At(r, "none") \/ At(r, "idle")
  /\ \E list \in Allowlists :
       /\ list \subseteq DefaultTools
       /\ offered' = [offered EXCEPT ![r] = IF list = {} THEN DefaultTools
                                            ELSE list]
  /\ prior' = [prior EXCEPT ![r] = EmptyBag]
  /\ current' = [current EXCEPT ![r] = [at |-> "idle"]]
  /\ UNCHANGED <<config, server, up, asked, log>>

\* The model asks for a tool, one it was offered or not, and the guards look at
\* the call, what is left of the time, and the earlier calls.
Ask(r) ==
  /\ At(r, "idle") /\ asked < MaxCalls
  /\ asked' = asked + 1
  /\ \E c \in Calls : \E left \in Left :
       LET by == Check(DefaultGuards, Execution(r, c, left))
       IN  current' = [current EXCEPT ![r] =
             [at |-> IF by = "none" THEN "invoked" ELSE "refused",
              call |-> c, left |-> left, event |-> Event(asked + 1)]]
  /\ UNCHANGED <<config, server, up, offered, prior, log>>

Denied(r) == Answer(r, "denied")

\* A refusal is recorded before it is answered.
Refuse(r) ==
  /\ At(r, "refused")
  /\ Record(current[r].event)
  /\ Denied(r)
  /\ UNCHANGED <<config, server, up, offered, prior, asked>>

\* The errors of tools, by their codes: UNKNOWN_TOOL, INVALID_ARGUMENTS,
\* TOOL_PANIC, CANCELLED and so on are all one here.
Fails(r) == Answer(r, "error")

Unknown(r) ==
  /\ At(r, "invoked") /\ current[r].call.tool \notin offered[r]
  /\ Fails(r)
  /\ UNCHANGED <<config, server, up, offered, prior, asked, log>>

Tool(r, isBash) ==
  /\ At(r, "invoked") /\ current[r].call.tool \in offered[r]
  /\ isBash <=> current[r].call.tool = "bash"

\* Any other tool: it answers, or it fails, for its caller has gone perhaps, or
\* it panics, which Invoke recovers from.
Other(r) ==
  /\ Tool(r, FALSE)
  /\ Answer(r, "ok") \/ Fails(r)
  /\ UNCHANGED <<config, server, up, offered, prior, asked, log>>

\* Jail.Rel: the only check there is of where a command works.
Reaches(dir) == dir # "outside"

\* What Bash.Execute asks for before it runs a command.
Valid(c) ==
  /\ ToolReads(c) /\ c.command # "empty"
  /\ Reaches(c.workdir) /\ c.workdir \notin {"missing", "file"}

\* It fails before the command runs: it is not valid, or does not start.
NotRun(r) ==
  /\ Tool(r, TRUE)
  /\ Fails(r)
  /\ UNCHANGED <<config, server, up, offered, prior, asked, log>>

Run(r) ==
  /\ Tool(r, TRUE) /\ Valid(current[r].call)
  /\ Goes(r, "running")
  /\ UNCHANGED <<config, server, up, offered, prior, asked, log>>

\* Deliberately wrong: a command whose caller has gone is forgotten.
EndedOrStopped(r) ==
  /\ At(r, "running")
  /\ Goes(r, "ended") \/ Fails(r)
  /\ UNCHANGED <<config, server, up, offered, prior, asked, log>>

\* By itself, or killed: at its timeout, for its caller, or over a limit.  None
\* of these is an error of the tool.
Ended(r) ==
  /\ At(r, "running")
  /\ Goes(r, "ended")
  /\ UNCHANGED <<config, server, up, offered, prior, asked, log>>

\* The record comes between the command's end and its result.
RecordCommand(r) ==
  /\ At(r, "ended")
  /\ Record(current[r].event)
  /\ Answer(r, "ok")
  /\ UNCHANGED <<config, server, up, offered, prior, asked>>

\* The next call is guarded with this one in mind, refused or not.
Return(r) ==
  /\ At(r, "answered")
  /\ prior' = [prior EXCEPT ![r] = BagAdd(@, Canonical(current[r].call))]
  /\ current' = [current EXCEPT ![r] = [at |-> "idle"]]
  /\ UNCHANGED <<config, server, up, offered, asked, log>>
-----------------------------------------------------------------------------
\* The server ends: killed, or because its grace is over.
Stop ==
  /\ up
  /\ up' = FALSE
  /\ offered' = [r \in Request |-> {}]
  /\ prior' = [r \in Request |-> EmptyBag]
  /\ current' = [r \in Request |-> NoCall]
  /\ UNCHANGED <<config, server, asked, log>>

\* Another one appends to the same log.
Start ==
  /\ ~up /\ server < MaxServers
  /\ up' = TRUE /\ server' = server + 1
  /\ failed' = FALSE /\ file' = Opened
  /\ UNCHANGED <<config, offered, prior, asked, current, due, reported>>

Step(r) ==
  \/ StartRun(r) \/ Ask(r) \/ Refuse(r)
  \/ Unknown(r) \/ Other(r) \/ NotRun(r)
  \/ Run(r) \/ Ended(r) \/ RecordCommand(r)
  \/ Return(r)

Next == (\E r \in Request : Step(r)) \/ Stop \/ Start

Spec == Init /\ [][Next]_vars
-----------------------------------------------------------------------------
(* Properties.                                                             *)

\* A reader of the log finds an event on a line of its own: it was written
\* whole, and so was what is before it.
Legible(ev) ==
  \E i \in DOMAIN file :
    /\ file[i].event = ev /\ file[i].whole
    /\ i = 1 \/ file[i - 1].whole

\* Every command that ended and every refusal is on record as long as no server
\* has complained of the log, over all runs that write it at once and over all
\* restarts.  A server's complaint has to stand for its successor as well: the
\* first line of that one joins a torn one, and it does not notice (audit.go:
\* "a restart never truncates history").
GapsAreReported ==
  \A ev \in due : Legible(ev) \/ \E n \in reported : n <= ev.server

\* A command runs only if the server, the request and every guard allow it,
\* in whatever spelling it is asked for again.  Two gaps are the code's: the
\* denylist and the timeout policy are silent on a text that only the tool can
\* read, and with no time left at all nothing is too long.
OnlyGuardedRuns ==
  \A r \in Request : At(r, "running") =>
    LET c == current[r].call
    IN  /\ config.shell /\ c.tool \in offered[r]
        /\ config.guards =>
             /\ Occurrences(c, prior[r]) < RepeatThreshold
             /\ c.command = "denied" => c.form = "trailing"
             /\ c.timeout > current[r].left =>
                  c.form = "trailing" \/ current[r].left = 0

\* The answer tells the model what happened: a bash call without an error is a
\* command that ran to its end and is due on record, one with an error has run
\* nothing and may be tried again.
AnswerTellsWhatRan ==
  \A r \in Request : At(r, "answered") =>
    LET p == current[r]
    IN  /\ p.started <=> p.call.tool = "bash" /\ p.code = "ok"
        /\ config.audit /\ (p.started \/ p.code = "denied") =>
             p.event \in due

\* What ran was allowed, and what is answered ran or did not as it says.
RunsAsAnswered == OnlyGuardedRuns /\ AnswerTellsWhatRan
=============================================================================
