# A verification project for harness-api

harness-api is an HTTP server that speaks the OpenAI chat completions protocol
and runs an agent loop behind it: a request is a task, a language model behind
an upstream provider asks for tools, the server runs them in the session's
workspace and sends the results back until the model answers. Beside it is a
program that measures such a server on a suite of tasks. This directory holds
TLA+ modules of both, TLC configurations that check them on small instances,
and theorems about the core whose proofs TLAPS checks.

    tlc -workers 2 -config read_before_edit.cfg MCReadBeforeEdit.tla
    tlapm ReadBeforeEditProofs.tla

Paths below are relative to `src/internal/` unless they start with `src/`.

## Inventory

| Component | State it keeps | Operations | Talks to |
|---|---|---|---|
| `workspace/ledger.go` | per session: path -> (hash or absent, turn, stale), under a mutex | Observe, ObserveAbsent, MarkStale, MarkStaleBefore, Authorize, Forget (no caller) | called by the file tools and the loop |
| `workspace/manager.go`, `session.go` | registry id -> session, `closed`; per session a lock, last use, turn, jail | create, adopt, get, list, remove, sweep, close, destroy | handlers, sweeper, main |
| `workspace/jail.go` | an `os.Root` handle | Rel, ReadFile, WriteFile, Stat, ... | file tools; the file system |
| `workspace/ignore.go` | compiled rules, per session | compile, match | glob, grep |
| `workspace/shell*.go`, `limits.go` | a running process group, the tail of its output | run, time out, kill, wait | bash tool |
| `tools/` read, write, edit, bash | none of their own, but bash's overflow file | stat, load, check the ledger, store, observe; run a command | jail, ledger, shell, audit |
| `tools/` glob, grep, truncate | none | walk, filter, limit, sort; cut a file into pages | jail, ignore rules |
| `tools/` registry | the tools of a request | subset, dispatch, recover from panics | loop |
| `agent/loop.go` | per request: history, prior calls, turn counter | compact, call upstream, recover from overflow, run tools, stop | contextmgr, upstream, guard, tools, ledger |
| `agent/budget.go` | iterations, usage, start time | BeginIteration, AddUsage, Remaining | loop, guards |
| `guard/` | none | repeat-tool, command-denylist, timeout-policy | loop |
| `contextmgr/` | bytes-per-token ratio, shared by every request | Maybe, Force, retainIndex, prune, summarize; Observe | loop; upstream for the summary |
| `server/chat.go`, `sessions.go` | none | decode, acquire a session, run, answer; list, delete | manager, loop |
| `server/stream.go` | one SSE stream: its lock, its first error, a keepalive timer | frames from several goroutines | loop events |
| `server/binding.go` | none | which of four channels names the session | chat |
| `server/` middleware, health, models, routing | none shared | authenticate, recover, limit | |
| `upstream/` client, quirks | per model: the learned profile and the fixes that made it, under a mutex | Complete: shape, send, retry, learn from a rejection | loop and compactor call it; provider |
| `upstream/sse.go` | a stream's decoder | Next, Recv (`Client.Stream` has no caller in the server) | provider |
| `oai/` | stream assembly of a response (`delta.go`) | encoding, decoding | upstream, server |
| `audit/` | an append-only file under a mutex, whether it failed | Command, Denied, Session (no caller) | loop, bash |
| `config/` | none at run time | defaults, file, environment, flags; Validate | main |
| `logx/` | none | logging, redaction | all |
| `src/cmd/harness-api/main.go` | the process | start, signal, drain, close | manager, server |
| `eval/`, `src/cmd/harness-eval/main.go` | a suite, its runs, a report | prepare, ask, check, summarise, compare | a server, checkers |

How they interact. A handler acquires a session (`server/chat.go`
`acquireSession`) and holds its lock for the whole run. The run is sequential
but for groups of tool calls that may overlap. Every call passes the guards; a
refusal, and a command that ended, is written to the audit log that all requests
share. Every read records in the ledger what the file held; every write or edit
asks the ledger whether the file still holds what was recorded; compaction,
which removes old file contents from the conversation, tells the ledger which of
its entries no longer have a counterpart there. If the client asked for a
stream, the loop, its tool goroutines and a timer write frames to one response.
Meanwhile other handlers create, list and delete sessions, a sweeper evicts idle
ones, and shutdown destroys all that are left.

What is hard here:

- *Stale state.* Files change under the session: by its own shell commands, by
  what they leave running, by an editor, by another session bound to the same
  directory. Observations outlive the conversation they came from; ignore rules
  outlive the file they came from.
- *Interleaving and atomicity.* Session pointers are used after the registry's
  mutex is released; a session's lock is taken to look and released before
  acting; parallel reads record observations in any order; frames of one stream
  come from several goroutines.
- *Protocol sequence.* Tool calls and results must stay paired through
  compaction, and the task has to survive any number of compactions; fragments
  of calls interleave in a provider's stream.
- *Retries.* One client learns a provider's rules from its rejections while other
  calls use and change the same profile.
- *Crash and partial failure.* Directories survive the process; a write may
  truncate a file and fail; removing a directory may fail; a jail may not open;
  the audit log's disk may tear a line; a client leaves in the middle of its
  stream; a repetition of an evaluation never reaches the model.
- *Timeouts.* A command's deadline races its exit, its children outlive it, and
  its output comes through a pipe that others may hold.
- *Boundaries.* Pages, limits, overlapping matches, an overflow file that stops,
  significance over a handful of runs.
- *Ending.* Runs, commands, streams, suites, shutdown, sweeps and reclamation
  have to end.

`PROJECT.json` lists each of these hazards at its line, with the property that
would catch it going wrong.

What makes each component correct:

- ledger, file tools, compaction: no write replaces bytes the session has not
  observed; the ledger vouches for nothing that compaction dropped; only a look
  at the file restores trust.
- manager, handlers, sweeper, main: runs are exclusive; a session is destroyed
  once, by whoever took it out of the registry, and never under a run; nothing
  leaks; only the server's own dead directories are removed; abandoned
  workspaces are reclaimed; shutdown ends.
- loop, budget, contextmgr: requests pair calls with results; prompt and task
  survive; what the tools return reaches the model; writes are barriers; repeats
  stop; the run ends; an overflow is fatal only when nothing helps.
- guards, registry, audit: what ran was allowed, what is answered is what was
  done, and what was done is on record or its absence is reported.
- shell, bash: a result is returned when nobody can print any more; the tail is the
  end of the output and the overflow file its beginning; a timeout leaves nothing
  of the command's group; the run ends.
- read, edit, glob, grep: following the pages shows all of the file; all tools
  number lines alike; an edit changes what it named and nothing else; a search
  finds what is there and not ignored.
- configuration, middleware, binding: nobody without a token is served over an
  exposed address; a request works in the workspace it named.
- streaming: the frames can be parsed, come in order and nest; the client is told
  how the run ended; nothing is written once the handler returned.
- upstream client: what is learned accumulates and is used; a rejection is paid
  for once; a call sends a bounded number of requests and ends. Its streams lose
  and tear nothing, and what they say is assembled as it was meant.
- evaluation: only the agent is measured, every repetition is counted once, and a
  verdict is what the counts support.

## Modules

| Module | Models |
|---|---|
| `Ledger` | `workspace/ledger.go` as operators on a partial function |
| `ReadBeforeEdit` | loop, file tools, compaction and ledger together, over files others change |
| `MCReadBeforeEdit`, `ReadBeforeEditProofs` | its instances, its theorems |
| `Sessions` | registry, handlers, sweeper, process |
| `SessionLife` | what the registry promises: the life of a session; `Sessions` implements it |
| `MCSessions`, `SessionsProofs` | instances and theorems of `Sessions` |
| `Compaction` | `contextmgr/compact.go` as operators on sequences of messages |
| `AgentLoop`, `MCAgentLoop`, `AgentLoopProofs` | one run of `agent/loop.go`, with the budget and the repeat guard; theorems of it and of `Upstream`, the client it calls |
| `ToolCalls`, `MCToolCalls`, `ToolCallsProofs` | every call of every run: guards, registry, bash, audit log |
| `Upstream` | `Client.Complete` of `upstream/client.go` with the profiles of `quirks.go`, many calls on one client |
| `MCUpstream` | its instance; its theorems are in `AgentLoopProofs` |
| `StreamDecoder`, `StreamAccumulator` | `upstream/sse.go` and `oai/delta.go` as operators |
| `ProviderStream`, `MCProviderStream` | a provider's stream through both |
| `Shell` | one command: `workspace/shell.go`, `shell_unix.go` and the overflow file of `tools/bash.go` |
| `MCShell` | its instance |
| `Gateway` | configuration, authentication, decoding and binding as operators |
| `ChatStream`, `MCChatStream`, `ChatStreamProofs` | one chat completion, over `Gateway`, to its last frame |
| `FileText`, `Search` | pages, edits and matches of a text; ignore rules, glob and grep |
| `FileTools`, `MCFileTools` | a session that reads, edits and searches with them |
| `Ordering` | a finite set as a sequence, for what the code sorts |
| `DataProofs` | the theorems about data: of `Shell`, `FileTools` and `ProviderStream` |
| `SearchProofs` | what `FileTools` answers to glob, grep and edit, over the lemmas of `DataProofs` |
| `EvalReport` | judging, summarising and comparing runs |
| `EvalRuns`, `MCEvalRuns`, `EvalRunsProofs` | a suite's repetitions at once, over `EvalReport` |

### Ledger and ReadBeforeEdit

The ledger of a session is a function from the paths it has seen to records
`seen`, `turn`, `stale`; the hash is the content itself. `disk` is what the
files hold, per directory, so that two sessions can share one. `phase` is where
the request is: `ready` (top of the loop), `sent` and `resent` (a call
upstream), `tools`. A tool call in flight is a record whose `step` is the next
system call it will make, because the code looks at the file several times:

- read: `ReadStat`/`ReadAbsent`, `ReadLoad`, `ReadObserve` (`tools/read.go`);
- write, edit: `ModifyCheck` (load and Authorize), `ModifyStore` or
  `StoreFails`, `ModifyObserve`, with `ModifyRefused` and `EditMissing` for the
  early returns.

`StartReads` starts a group of up to `MaxParallel` reads that overlap;
`StartModify` and `Bash` run alone, and `OtherCall` is any call that only names a
path. `Outside` is any change made beside the tools. `context` and `batch` are the
results the conversation and the current turn still hold, each with the id of
the call it answers, its turn and the file it shows. They are what compaction
takes away: `Compact` chooses any cut and either prunes (drops large results before
the cut) or summarises (drops everything before it), and `Invalidate` does to the
ledger what `Loop.compact` does.

What is pruned is named as the code names it. A call is an id, which the provider
makes up and may use again, and the text of its arguments, `Spelling`; `Rel` is the
file the tool works on. `readPaths` is what `pruneToolResults` would find for each
id: the path that the last call of the whole conversation with that id gives
(`LastNamed`, `Record`), as it was spelled, where `argPath` can read it (`Name`;
`Untidy` are the arguments with something behind the object, which the tools'
decoder takes and `json.Unmarshal` refuses). `PrunedPaths` looks the dropped results
up there, whichever call they answer. The calls go with a summary (`Forgotten`) and
not with a prune. A request starts with whatever calls and results the client
sends; they have turn 0, and a cut leaves all or none of them behind it. `asked`
and `reads` are history variables. `Overflow` and `OverflowFatal` are the recovery
from a context overflow; the fatal one invalidates and then fails the request.

### Sessions

Each action is one critical section of the manager's mutex or of a session's
lock, or one system call on a directory. A request goes through the steps of
its handler: `Lookup`, `Touch`, `Claim` (TryLock) or `Conflict`, `BeginRun`,
`EndRun` for a session that exists; `Begin`, `Make` or `Nominate`, `OpenJail`
or `OpenFails`, `Adopt` or `Reject`, `LockNew` for a new one; `Claim`,
`Release`, `Remove` or `AlreadyGone`, then destruction, for DELETE. The sweeper
holds the manager's mutex through its scan (`sweep.at`), which is the only
section of several actions. `doomed` and `removing` are the sessions an actor
took out of the registry and is destroying: `CloseJail`, then `RemoveDir`,
which may fail. `Crash` keeps only what is on disk; `Restart` is `NewManager`,
which does not look there.

`SessionLife` says the same without handlers, locks and directories: an id comes,
is live, goes and is gone, and its tree with it. The mapping (`Life`, at the end
of `Sessions`) takes an id as coming while a creator holds it, as live while the
registry has it, and as going while an actor is about to destroy it.
`LifeImplemented` is that every step of `Sessions` is a step of the life or a
stutter. The life does not say that a session stays live while a request runs in
it: the registry does not keep that, which is what `in_use` shows.

### Compaction and AgentLoop

A conversation is a sequence of messages. What is kept of a message is what
compaction and pairing depend on: its role, whether its text is the prompt, the
task, talk, a result, a stub or a summary, the calls it makes, the call it answers,
and a cost. `RetainIndex`, `SafeCut`, `PruneToolResults`, `Summarize`,
`ForceCompaction` (the code's `Force`) and `Maybe` are the functions of `compact.go`
in the same order of steps; positions count from one, the code's from zero. The
estimator's ratio is floating point, learned at run time and shared by all requests;
it is replaced by a sum of costs, which keeps what the algorithm relies on: costs
add up, and a stub is small.

`AgentLoop` runs one request: `StopAtCeiling` and `BeginTurn` (with
`Maybe`), the four ends of a call upstream (`Answer`, `AskForTools`,
`UpstreamFails`, `Overflow` with `ForceCompaction`), `StartGroup` and `Return` for tool
calls, `EndTurn`. Tool calls are keys: equal keys are the same tool with the
same canonical arguments. `fresh` and `ran` are history variables: the code does
not keep them and no guard reads them. Wall clock, token ceiling
and cancellation are choices at the points where the code looks.

`AgentLoop` and `ReadBeforeEdit` overlap in the loop on purpose: the first has
the messages and no files, the second the files and no messages.

### ToolCalls

Runs of one server at a time make calls. `Ask` evaluates the chain of guards
(`Check`: the first that objects) over the call, the time left and the bag of
earlier calls; then `Refuse`, `Unknown`, `Other` (any tool but bash), or bash:
`NotRun`, or `Run`, `Ended`, `RecordCommand`. `Return` adds the call to the ones
the repeat guard remembers. An argument text is what it asks for and its form:
the guards read it with `json.Unmarshal`, the tool with a `Decoder` that refuses
unknown keys and stops after the first value (`GuardReads`, `ToolReads`), and the
repeat guard compares canonical texts. `Record` is `Logger.Write`: the line is in
the file whole, torn or not at all, and only the first failure is reported.
`Stop` ends the server at any moment; `Start` starts another one that appends to
the same file. `due` and `reported` are history variables.

### StreamDecoder, StreamAccumulator and ProviderStream

`Next` of the decoder takes a line and gives a payload or keeps collecting;
`Add` of the accumulator takes a chunk, and `Slot` decides which call a fragment
belongs to; `Response` is what comes out. `ProviderStream` puts a provider before
them: it says chunks of text and fragments of two calls in any order, in a
*style* (indexed, with the id repeated, without ids, with the zero index left out,
by id alone, or bare), and frames them as SSE or NDJSON with comments and blank
lines between and data cut into several lines; the connection ends or breaks
anywhere. What a chunk was to convey (`said`) is for the properties only: a
history of fragments, from which `CallsMeant` and `Meant` say what the response
should be, call by call (`CallsIn`, `FirstOf`, `ArgsOf`) and without a decoder or
an accumulator.

### Gateway and ChatStream

A layer of the configuration is a function from the settings it gives to values;
`Layered` is the defaults with file, environment and flags laid over them, and
`Validate` what `config.go` refuses. `ChatStream` first decides (`front`): the
server does not start, the request is refused, or it is admitted with a binding
and a model. Then the handler, the tool goroutines and the keepalive write
frames; the start of a call whose arguments are not JSON cannot be encoded and is
not reported (`ToolEvent`). A writer takes the lock (`Begin`), writes the first half,
the second half, and lets go; a write fails when the client has gone or the connection has.
The first error stops the later frames, as `sseStream.err` does. The handler's
steps are those of `streamAgentRun`: headers and role, the run with its events,
`KeepaliveStopped`, the final frames, return. A run completes, fails, is stopped
by the client's leaving, or panics.

### FileText, Search and FileTools

Texts are sequences of characters of which one is two bytes wide and one is a
carriage return. `BuildView`, `Edit` and `MatchLines` are the functions of the
tools; `CompileIgnore`, `Match`, `Glob` and `Grep` those of the searches, with
the walks' order and limits. A `.gitignore` pattern and a glob are sequences of
names with `*` and `**`; what they match is doublestar's and external. `PathOrder`
is the order of the strings that spell the paths, by which the searches break ties
and which is not that of the walk. In `FileTools` a session follows the pages of a
file, edits it, and searches around it, while the file of the ignore rules may
change (`WriteIgnore`) under the rules in force, which were loaded when the session
was made (`Adopt`). `AnswersAreTrue` is by the rules in force, not by the file as it
is, and says nothing of rules that bring `.git` or `.harness` back, nor which files
a limit keeps: there the code does not do what its comments say (see "Noticed").

### EvalReport and EvalRuns

`EvalReport` has what judges one run (`DeclarativeFailures` over the difference
of two trees), what counts runs (`Summarise`, where errored runs are in no rate),
and what compares two reports (`Compare`, `FisherExact`; over integers: both
sides of the comparison of probabilities have the same denominator). In
`EvalRuns` the repetitions of a task run under a semaphore, each in a copy of
the task's tree: `Acquire`, prepare, ask the server, check, judge. Requests may
time out while the server's tool still writes; an interrupt cancels what runs;
a checker may exit with any code, be cut off or not start. `fact` is what really
happened to a repetition, a history variable; `cut off` is a checker that an
interrupt stopped, which the code takes for one that timed out.

### Upstream

`learned` and `applied` are the two maps of the client; `learned` holds the
configured profile where the map has no entry. A call goes through `Begin`,
`Shape` (copy the profile and send, `completeOnce`), and one of the ends of an
exchange: `Accept`, `Reject` (a 400 from which a fix can be inferred), `Refuse`
(anything else that ends the call), `Fail` (may be retried). `Retry` and
`GiveUp` are the two cases of the `select` in `do`; `Learn` is `learnFrom`, one
critical section of the client's mutex. Between `Shape` and `Learn` other calls
change the profile, which is where the difficulty is. `Learn` says of a
complaint that cannot be learned from that the call `failed`.

A request is the set of optional things it carries; `Body` is the set of
features of what is sent that some provider is known to reject, one per entry of
`autoFixes`, and `Fixed` the change a fix makes. The provider is external: for
each model a set of features it always rejects, `rejects`, of which it names one
at a time, and otherwise any behaviour. `sends` is a history variable, saturated
one above the bound it must not pass. `AgentLoop` takes a whole call as one
step, `Answer`, `AskForTools`, `UpstreamFails` or `Overflow`; `CompleteEnds` is
what justifies that a call has an end.

### Shell

The command is external: a set of processes, `alive`, that fork (`Fork`), print
(`Emit`), close their end of the output pipe (`Redirect`), leave the process
group by `setsid` (`Leave`) and end (`End`) when they like, also on the SIGTERM
of `AskToStop`. `group` are those a signal to the group reaches, `writers` those
that hold the pipe. A process that leaves does not come back to the group.

Three goroutines of the server take part. The one `os/exec` starts to copy the
pipe gives any number of the next bytes to the two writers (`Copy`: `KeepTail`
is `tailWriter.Write`, `Spill` is `spillFile.Write`). The one in `cmd.Wait`
(`Wait`) returns when the shell has ended and the copying too, which is when
nobody holds the pipe and it is empty. Run itself is at `waiting` (the first
`select`), `grace` (the second), `killed` (the last receive), `ended`
(`waitOrKill` returned) or `returned`. When two channels of a `select` are
ready it takes either.

A byte is its place in the output, so that the writers' contents can be compared
with what they should hold: `Stream`. `printed` and `late` are history
variables. A write of the overflow file may fail after any number of bytes, and
so may its creation.

## Runs

| Run | What it asks | Instance | Result |
|---|---|---|---|
| `read_before_edit` | `NoBlindOverwrite`, `PlainlyVouchedIsVisible`, `OnlyALookRestoresTrust` | one session, one file, three spellings of which one is untidy, two ids, two contents, two requests of two turns with one call group, two reads at once, one outside change | holds |
| `sessions` | `OneRunPerSession`, `DestroyedOnce`, `NothingLeaks`, `OnlyDeadWorkspacesRemoved`, `LifeImplemented` | two requests, two ids, a caller's directory, sweeper, shutdown that does not wait, crash and a restart | holds |
| `sessions_live` | `AbandonedIsReclaimed`, `NewSessionRuns`, `ShutdownEnds` | two requests, one id | holds |
| `in_use` | `NoRunLosesItsWorkspace` | two requests, two ids, shutdown that waits | violated |
| `agent_loop` | `RequestsAnswered`, `PromptAndTaskKept`, `WritesAreBarriers`, `RepeatsStop`, `RunEnds` | three turns of up to 2, 3 and 2 calls, a reading and a writing key, results of cost 1 or 4 | holds |
| `tool_calls` | `GapsAreReported`, `RunsAsAnswered` | two runs, three calls of six kinds, two servers, three configurations | holds |
| `upstream` | `LearnedStaysAway`, `SendsBounded`, `CompleteEnds` | two calls, one model and the empty name, three providers, one retry, three fixes | holds |
| `provider_stream` | `NothingLostOrTorn`, `AssembledAsMeant` | two calls with a gap between their indices, three chunks, six styles, two framings | holds |
| `shell` | `OutputKept`, `OutputIsWhole`, `TimeoutClearsGroup`, `RunEnds` | the shell and two children, five bytes, a tail of two, an overflow limit of none, one and four | holds |
| `chat_stream` | `AdmittedAsAsked`, `StreamWellFormed`, `ClientIsTold`, `QuietAfterReturn`, `StreamEnds` | every request over every combination of seven files, eight environments and five command lines; two turns with two calls at once and one, one keepalive, an answer of no piece or one | holds |
| `file_tools` | `ReadingShowsAll`, `EditIsExact`, `AnswersAreTrue` | every text of three characters, pages of two lines or two bytes, one edit, ten entries, every `.gitignore` of two of nine lines | holds |
| `evals` | `MeasuresTheAgent`, `VerdictIsHonest`, `EveryRunIsCounted`, `SuiteEnds` | two tasks of two repetitions and one, one that does not load, one or two at once, three earlier reports | holds |

What the violation shows, a disagreement between the code and its comments, quoted
in `PROJECT.json`: DELETE probes the lock, releases it, and then removes the session; a
request that locks it in between runs in a workspace that is being removed. The same
happens with the sweeper and a handler that already has the pointer, and with a
creator, whose session is listed before it is locked.

Every component that has a proof module has a type invariant, `TypeOK`, on which
its proofs rest, in the component's module or in that of its proofs; it is
proved for all values of the constants and in no run.

### Why the bounds are enough

*read_before_edit.* The hazards need: an observation, a compaction that drops
it, a second spelling, a later modification, a change in between, and a second
request that inherits the ledger. Two requests of two turns of one call group
have room for each of these; a group may be two reads at once. A result that is
named wrongly needs an id that two calls share, in one group or one turn after the
other, and arguments that give another name or none. Two contents are enough because
contents are only compared for equality, which also makes them symmetric, as ids
are. That the calls a client sends change nothing, and that any number of groups in
a turn does not, is what the theorems add.

*sessions.* Every race in the code is between two actors over one session, with
a third that may already hold its lock; two requests, the sweeper and main give
four actors over two sessions. One restart shows what is left from before. An
id is never handed out twice, as 128 random bits make sure in the code, so
instances with two ids can end with all of them used; that is why deadlock is
not checked: a system whose ids are used up and whose process exited really
stops in the model.

*agent_loop.* A group limit of two needs three calls to be exceeded; two groups
with a write between need three too. A threshold of two repeats needs three
turns. The limit of 9 with results of cost 1 and 4 and a retained budget of 3
makes conversations that fit, that fit after pruning, and that need a summary,
within three turns; conversations that start with the task, and with an
assistant's greeting, differ in what `summarize` preserves. A finished run
stops, so deadlock is not checked.

*upstream.* What interferes is one call's learning with another's: two calls on
one model show it. The provider that rejects four features, both roles among
them, has more to teach than the three fixes that may be learned, in every
order, and makes a fix and its opposite both be adopted; the second one rejects
something no fix removes. One retry shows that attempts start again after each
fix and not after each failure. Calls end, so deadlock is not checked. The
theorems hold for any number of each.

*shell.* Two children are one that leaves the group and one that stays, or one
that forks the other before it ends; which of them holds the pipe, outlives the
shell or ignores SIGTERM is free. Five bytes are enough to fill a tail of two
twice and to pass an overflow limit of four by one write or by several; the
limits are below the tail, above it, and none. A run that has returned stops, so
deadlock is not checked. The theorems hold for any sizes and any output.

*tool_calls.* A threshold of two repeats needs three calls; two runs show that one
run's calls do not count for the other, and that their records may meet in the
log. Two servers are one that fails and one that appends to what it left. The
kinds of calls are one in two spellings, one the guards object to, one only the
tool can read, one only the guards can, and one of another tool; the time left is
none or less than is asked for.

*provider_stream.* A call that is split or merged needs two calls and a third
fragment that comes back to the first. A gap between the indices is a call the
accumulator never sees. An event of two lines, one filler line and a cut at every
place are each of the decoder's cases once.

*chat_stream.* Two calls that overlap and a keepalive are three writers and the
handler a fourth; frames that interleave need two. A second turn shows that
events nest. Each layer gives, overrides or spoils each setting the decisions
depend on. A returned handler stops, so deadlock is not checked.

*file_tools.* With pages of two lines of two characters and texts of three
characters, one of them wide, every boundary of `BuildView` is met from both
sides; three characters hold two overlapping occurrences. Two lines of ignore
rules are one that speaks after another. Limits are below and above the number
of entries.

*evals.* Two repetitions at once, with a third directory for what was abandoned,
are what could share a workspace or a slot. Two tasks show that counts do not
leak from one to the next. The earlier reports have counts at which a difference
is and is not significant, tasks the suite lacks, and more runs than it has. A
finished suite stops, so deadlock is not checked.

*Counters that the code does not bound* are bounded by constants: `MaxRequests`,
`MaxCalls`, `MaxOutside`, `MaxSent` in `ReadBeforeEdit`, `MaxRestarts` in `Sessions`,
`MaxCalls` in `AgentLoop`, `MaxCalls` and `MaxServers` in `ToolCalls`,
`MaxPrinted` in `Shell`, `MaxChunks`, `MaxEvent` and `MaxFiller` in
`ProviderStream`, `MaxCalls` (of a turn), `MaxTicks` and `MaxPieces` in
`ChatStream`, `MaxText` and `MaxEdits` in `FileTools`. `MaxTurns`,
`MaxIterations`, `MaxParallel` and `RepeatThreshold` are configuration the code
has; `MaxLines`, `MaxLineChars`, `MaxViewBytes` and the limits of glob and grep
are its constants, smaller.

### Fairness

- `Sessions.FairSpec`. A handler that can go on does (strong fairness, because a
  Go mutex goes into starvation mode and hands itself to a waiter that has
  waited for a millisecond; a request waiting in `LockNew` is not overtaken for
  ever by `TryLock`s). Destruction goes on once begun. Time passes (`Age`) and
  the ticker of `Manager.Run` fires. A run ends, because the wall clock budget
  and the command timeouts end it. The grace period ends. No fairness is
  assumed of new requests, signals or crashes.
- `AgentLoop.FairSpec`. Weak fairness of the whole next-state relation: a call
  upstream ends by answer or by the HTTP client's timeout, a tool call is assumed
  to return (a command that leaves a process with the pipe need not, see "Noticed"),
  and the loop is otherwise sequential. Which of the outcomes occurs is never
  assumed, so the run ends even if the model asks for tools for ever.

- `Upstream.FairClientSpec`. Weak fairness of each call: an exchange ends by the HTTP
  client's timeout if by nothing else, a backoff is a finite delay, and the
  mutex is held for no longer than `learnFrom` runs. No outcome is preferred: a
  provider may fail or complain for ever, and the call still ends.

- `Shell.FairSpec`. The copying, `cmd.Wait`, Run and the timeout get to run, as
  goroutines that can go on do and timers fire. Nothing is assumed of the
  command, which may run, print and fork as long as it likes, or of the caller.
  A process that was sent SIGKILL has ended.

- `ChatStream.FairSpec`. Weak fairness of the handler, of each writer that waits for
  the stream's lock, of each tool call before it runs and once it is over, and of the
  timer's goroutine once it is told to stop: each can go on when its turn comes. A
  call upstream ends by the HTTP client's timeout. Nothing is assumed of how long a
  tool call runs, which no timeout bounds when a process left its group and holds
  the pipe, nor of a write, for which the server sets none: `StreamEnds` says that
  the handler returns unless one of these never ends. No tick, and no leaving of
  the client, is assumed.

- `EvalRuns.FairSpec`. Weak fairness of the main goroutine and of each
  repetition: a request and a checker end by their timeouts. Nothing is assumed
  of interrupts, of an abandoned server's writes or of how a checker exits.

## Theorems

| Theorem | States |
|---|---|
| `ReadBeforeEditProofs!TypeCorrect` | `Spec => []TypeOK` |
| `VouchedStaysVisible` | `Spec => []PlainlyVouchedIsVisible` |
| `TrustIsEarned` | `Spec => OnlyALookRestoresTrust` |
| `NothingOverwrittenUnseen` | `Spec => NoBlindOverwrite`, under `Exclusive` |
| `SessionsProofs!TypeCorrect` | `Spec => []TypeOK` |
| `RunsAreExclusive` | `Spec => []OneRunPerSession` |
| `DestructionIsClaimed` | `Spec => []DestroyedOnce` |
| `EverythingIsOwned` | `Spec => []NothingLeaks` |
| `RemovalIsSafe` | `Spec => OnlyDeadWorkspacesRemoved` |
| `ClientTypeCorrect` | `ClientSpec => []ClientTypeOK` of `Upstream` |
| `SendsAreBounded` | `ClientSpec => []SendsBounded` |
| `LearnedAway` | `ClientSpec => LearnedStaysAway` |
| `DataProofs!TypeCorrect` | `Spec => []TypeOK` |
| `OutputComplete` | `Spec => []OutputIsWhole` |
| `TimeoutClears` | `Spec => []TimeoutClearsGroup` |
| `OutputIsKept` | `Spec => []OutputKept` (by `TailKept` and `SpillKept`) |
| `StreamsAreWhole` | `StreamSpec => []NothingLostOrTorn` of `ProviderStream` |
| `ResponsesAreMeant` | `StreamSpec => []AssembledAsMeant` |
| `ReadingIsComplete` | `FileToolsSpec => []ReadingShowsAll` |
| `EditsAreExact` | `FileToolsSpec => []EditIsExact` |
| `SearchProofs!AnswersTrue` | `FileToolsSpec => []AnswersAreTrue` |
| `RegistryImplementsLife` | `Spec => LifeImplemented`: `Sessions` implements `SessionLife` |
| `LoopInvariant` | `Spec => []LoopInv` of `AgentLoop` |
| `BarriersHold` | `Spec => []WritesAreBarriers` |
| `RepeatsAreBounded` | `Spec => []RepeatsStop` |
| `PromptAndTaskSurvive` | `Spec => PromptAndTaskKept` |
| `EveryRequestIsAnswered` | `Spec => []RequestsAnswered`, for clients whose own messages are paired |
| `CallInvariant` | `Spec => []CallInv` of `ToolCalls` |
| `GapsReported` | `Spec => []GapsAreReported` |
| `RunsAreAnswered` | `Spec => []RunsAsAnswered` |
| `StreamInvariant` | `Spec => []StreamInv` of `ChatStream` |
| `ReturnIsQuiet` | `Spec => QuietAfterReturn` |
| `Admission` | `Spec => []AdmittedAsAsked` |
| `StreamIsWellFormed` | `Spec => []StreamWellFormed` |
| `ClientIsAlwaysTold` | `Spec => []ClientIsTold` |
| `RunsInvariant` | `Spec => []EvalInv` of `EvalRuns` |
| `OnlyTheAgentIsMeasured` | `Spec => []MeasuresTheAgent` |
| `EveryRepetitionIsCounted` | `Spec => EveryRunIsCounted` |
| `VerdictsAreHonest` | `Spec => []VerdictIsHonest` |

They hold for every value of the constants that satisfies the assumptions of the
modules (`AbsentAssumption`, `WorkspaceAssumption`, `SessionsAssumption`,
`UpstreamAssumption`, `ShellAssumption`, `CompactionAssumption`, `LoopAssumption`,
`CallAssumption`, `StreamAssumption`, `EvalAssumption`, `BaselineAssumption`,
`DecoderAssumption`, `ProviderAssumption`, `TextAssumption`, `FileToolsAssumption`,
`SearchAssumption`): any number of sessions, files, spellings, clients, turns and
parallel reads; any number of calls and models, any provider, profile and limits;
any processes and any output, cut into writes in any way; any conversation, costs
and budgets; any requests, calls and guards' settings; any layers of configuration;
any suite, trees and checkers; any provider's style and framing, any number of
calls, chunks and pieces; any text, any size of a page, any edit; any finite
workspace, any ignore rules and any limits of a search. The assumptions say what
kind of values the constants are, of `EvalRuns.InOrder` that sorting names loses and
adds none, and of `PathOrder` that it lists each path once.

*ReadBeforeEdit.* `PlainlyVouchedIsVisible` says that a file this request has read
is trusted only while a result that showed it is in the conversation, if every read
of it in this request gave its cleaned path and no other call with an id of theirs
names another file. That is what the naming of pruned results needs, and no less:
without it a pruned file stays trusted (see "Noticed"). The property is not
inductive: it does not say where the trusted entry came from, nor what the ids stand
for. The strengthening `IInv` is `TypeOK` and, for every session, a conjunction
`Local` of facts about its own state. They say which calls can be in flight in which
phase, so that a modification is alone (`CallsDisciplined`); that between its check
and its observation a modification finds the ledger still vouching for what it was
checked against (`Vetted`); that every file this request read has an entry dated by
this request, and by an earlier turn once the turn has been sent (`ReadIsDated`), so
that a summary marks it; that a call in flight that names a path has its id stand
for a path named in this turn (`CallsAreNamed`); that a result large enough to be
pruned comes from a read of this request, whose id stands for a path that some call
with that id named since (`BigIsRead`); that an idle session remembers no reads
(`IdleIsClean`); and the property itself (`Visible`). `RecordNames` is what the
calls of a new group do to the ids: those it names stand for one of its own, the
others for what they stood for, also when several calls of the group have one id
(`Greatest` gives the last). `CompactionKeepsNames` is what compaction leaves of
them: a call behind the cut stays, and a prune drops no call. `PlainlyPruned` joins
the two: a long result of a plainly named file is pruned under that file's name
whichever call gave it. `CompactionMarksWhatItDrops` then shows that whatever is
dropped is marked. The step proof has a lemma for each kind of action, and
`LocalFrame` says that a session whose own variables are untouched keeps `Local`,
which takes care of all other sessions at once.

`NothingOverwrittenUnseen` assumes `Exclusive`: no two sessions have the same
directory, and nothing outside writes between a check and its write
(`~OutsideAnytime`). Both are needed. Without the first, the code lets one
session write between another's check and write, because each holds only its
own lock (see "Noticed" below); without the second, any process may write in
that window, which no program that uses plain files can close.

*Sessions.* `OneRunPerSession` follows from `LocksHeld`: a request that runs,
or is at any step between taking and freeing a lock, is its holder. The other
properties follow from ownership: every id is unused, being made by one
request, registered, or being destroyed by one actor, and these exclude each
other (`IdsFresh`, `MakersOwn`, `DestroyersOwn`, `ScanHolds`, and
`NothingLeaks` itself). `IInv` is their conjunction, proved once for locks and
once for ownership because few actions disturb both.

*Upstream.* That a call sends a bounded number of requests is a fact about all
calls together: what a call may still learn is used up by others as well. The
invariant charges it to the model (`Charged`): a call has sent at most
`MaxRetries + 1` requests for each fix adopted for its model, by whichever call,
and those of the current round. A fix adopted by another call only raises what
is allowed (`Bystander`); the call's own fix pays for the round that ends
(`AdoptKeeps`); and no more than `MaxAutoFixes` are adopted (`Capped`).
`LearnedAway` follows from `InForce`: an adopted fix is in force unless its
opposite was adopted, which the step that adopts a fix keeps because a fix
brings in nothing but its opposite (`FixedPermits`).

*Shell.* What Run returns is whole because of `RunOrdered`: `cmd.Wait` returned
only when nobody could print and all was copied, nobody opens the pipe again,
and Run passes on only after that. The same part orders the signals: once Run is
past the grace period because the context ended, the group was killed, and a
group without members stays so. The contents are a matter of sequences that
count on from a number, as every part of the output does: `TailHolds` and
`SpillHolds` say which number and how long, and five lemmas say that joining,
cutting and comparing such sequences is arithmetic. `SpillHolds` has to say what
the buffer holds before the file is created, and that a file at its limit takes
nothing more.

*Data.* What a recursive definition computes for every input needs an induction,
and the library's induction theorems take an operator, which no prover here can
instantiate. `DataProofs` has its own: in a non-empty set of numbers there is a
least one (`NatMin`, from the well-foundedness of strict inclusion among finite
sets), and so a set that has 0 and with each number the next has all (`Upwards`).
`Flattening` says with it that `FlattenSeq` is the last of the sequences one gets
by joining one piece after another, and everything said about texts and arguments
is said of these.

*ProviderStream.* `StreamOK` says where a stream may be: between two items, with
nothing left to read (`Waiting`), behind the sentinel (`Ending`), or inside an
item (`Midway`), when the decoder has heard exactly the pieces that were written
(`Heard`) and the lines to come are exactly the rest (`Rest`). Each kind of line
leads from one of them to one of them, and a connection that ends in `Midway` is
the only thing that makes a chunk malformed. At most the last item said is not
yet received (`AlmostAll`).
`AssembledOK` relates what was received to the accumulator. `Holds` names the slot
of each call: no two calls have the same, the slots are in the order the calls are
meant to have, and a slot has the id and all arguments of its call and nothing
else. That the next fragment of a call finds this slot, or a new one in the right
place, has a lemma for each way the code has of finding it: by index
(`SlotByIndex`), the missing index that means zero (`SlotOfZero`), and by id or by
nothing (`SlotWithoutIndex`). `HoldsOld` and `HoldsNew` then say that `Holds` goes
on holding, `ChunkKeeps` that it does for a chunk of two calls. For providers that
give neither index nor id it holds up to the second call; from then on there are
two slots, which is the case the property excludes. `ListedByNumber` says that
sorting slots and sorting calls is the same, so that what `Finalize` gives is what
was meant.

*FileTools.* `EditIsExact` is about all ways to pick occurrences, and the code has
one, from left to right: by `FoundAlike` what it finds from a place on depends only
on what it finds further on, and by `OccurrencesFound` and `PlacesAreFull` what it finds
is disjoint and leaves no occurrence that does not overlap one of it.
`ReplacedIsRewritten` says that joining the pieces between them with the new text
is the text with the old text replaced there, character by character. For
`ReadingShowsAll` the invariant says of the pages so far that they are the lines up
to the offset the next one starts from (`FirstThenPage`, `PageShows`); that a page
moves on is the code's rule that it always has its first line.

*Search.* `AnswersAreTrue` compares what the tools find with what is there and not
hidden by the rules in force (nothing is said of searches under rules that bring
`.git` or `.harness` back), so each answer is followed from the first entry of the
walk to the last. A list that puts a finite set in order has each element at the
place that is the number of elements before it (`Orders`, `PlaceTaken`), once the
order is shown to be one (`WalkIsListed` for the walk, `RecencyIs` for what is
newer, with `SpellingOrders` for what is as new). A fold over such a list is the
last value of a recursive function of the entries seen (`FoldExists`), about which
`Upwards` can reason. `LastRuleDecides` says what the scan of the rules computes,
`HiddenIs` that `Match` is the property's own notion of a hidden path, and
`IgnoredBelow` that whatever lies below an ignored directory is hidden too, which is
why pruning a directory loses nothing. `GlobOK` and `GrepOK` are what holds after
each entry: what was found, counted and skipped is what was there among the entries
seen, and once the walk gave up its limit was reached; `GlobEnds` and `GrepEnds`
draw the conclusion at the end of the walk. That the tools agree about line numbers
is a matter of newlines: the line a position is in is one more than the newlines
before it (`NewlinesTo`, `LineBetween`), and a line keeps its number and its
beginning when returns and the last newline are dropped from the text (`TextLines`,
`CharLines`), so what grep cuts out, what edit points to and what read prints is one
line (`FoundLine`). The state invariant `FilesOK` says only what kind of values the
rules in force and the times of modification are; `EditAnswersTrue`,
`GlobAnswersTrue`, `GrepAnswersTrue` and `FileGrepAnswersTrue` are the steps.

*Sessions implement the life of a session.* `RegistryImplementsLife` needs `IInv`
and `RequestsKnown`, that a request which is not making its session works on an
id that was handed out and published. Because every id has one owner, each step
either moves the ids of one actor on in the life, or leaves the mapping as it
is. There is a lemma for each step of the life (`ComeStep`, `UseStep`,
`LeaveStep`, `AbortStep`, `PublishStep`, `DeleteStep`, `BuryStep`), and one each
for the sweeper, the process, and the steps the life does not see.

*AgentLoop.* Two parts of the invariant are needed for what may overlap:
`ResultsFit`, that results come from the calls that were asked for, and
`OneGroup`, that what runs is a bounded number of calls that may overlap, or the
single call that was started last. `RepeatsCounted` ties the history variable
`ran` to what the repeat guard counts: every earlier turn in which a call ran left
an entry in `prior`, so a call at the threshold cannot start. `PairedSoFar` is
about the messages: outside a turn every call has its results right behind it,
inside a turn all but those of the last message. That compaction keeps this is a
fact about positions: `CutIsSafe` and `RetainIsSafe` say that what is retained
never starts with a tool result, `PrunedFacts` that pruning changes neither
roles, calls nor answers, and `MaybeFacts` and `CompactionFacts` put them
together. `EveryRequestIsAnswered` has a hypothesis, that the conversations
clients send are paired: the handler takes their messages unchecked
(`server/chat.go:233`), so an unpaired one is sent on unpaired. The other
theorems hold for every client.

*ToolCalls.* `GapsAreReported` alone is not inductive: after a server died in the
middle of a line, the next one's first line is lost with it although nothing has
failed since. `TornIsReported` says that a file that ends in a torn line was left
by a server that has reported, and that a server which has failed has. `CallOK`
carries what the guards decided from `Ask` to the answer: between the two the
bag of earlier calls, the configuration and the time given to the call stay what
they were.

*ChatStream.* `LockHeld` is mutual exclusion seen on the wire: who has the lock is
the one with half a frame there, and that half is the last thing on it.
`Disciplined` says who may be writing at which step of the handler; with it
`QuietAfterReturn` follows, since a handler past `KeepaliveStopped` has no
writers left. `Ordered` states that whatever is being written, or is still to be,
may come after everything on the wire, `ToldSoFar` that what the client must be
told is on the wire, in the handler's hand or next, and `Nested` (`EventsNest`,
`Reported`, `Calling`, `Announcing`) does the same for events: a started call
either has its end on the wire, or is running, or its end is being written. A
panicked run is excluded where the code gives no such guarantee. `Admission` is
about `Gateway`'s operators and one step, and rests on what a layer of the
configuration may say; the proof of it showed that a suffix stays in the model's
name when an earlier channel names the very same session, and `BoundAsNamed` is
stated with that.

*EvalRuns.* `RunsOK` says what each stage knows of its run: an asking run finds the
template below its directory, a checking one has been judged by the tree that is
there. For a verdict to stay true of the tree, no late write may reach a run that
passed: by `Apart` workspaces are distinct and only those of judged runs are written
to late, and `Judged` excludes those of runs whose checker agreed. `Accounted` says
that the runs are all repetitions of one task, and that each task is reported,
running or to come; the numbers in a report are then counts of disjoint sets, by the
library's theorems on cardinality. What the report counts as errors are the
repetitions that could not be measured but for those whose checker an interrupt
stopped (`CutOff`), which the code does not tell from failures; `EveryRunIsCounted`
says so, against what was promised. `JudgementIsSound` relates the failures of
`DeclarativeFailures` to what the two trees hold.

That a verdict is honest is counting. A sum over a set is the number of things
in the classes it sums over (`SumCounts`, by induction on the size of the set),
the recursion that computes binomials gives the numbers of subsets
(`ChooseIsCount`, from `ChooseLast` and `ChooseThenOne`), and picking from all runs
with so many among the first is picking from the two parts (`ChooseApart`). So the
sum of products that the code adds up is the number of picks as rare as the
observed one (`FisherCounts`), for any counts. The invariant `Compared` says that
both reports were written by the harness; of baselines that is assumed.

Only model-checked: liveness (`AbandonedIsReclaimed`, `NewSessionRuns`,
`ShutdownEnds`, `StreamEnds`, `SuiteEnds`, the `RunEnds` of `AgentLoop` and of
`Shell`, `CompleteEnds`), which is out of the prover's reach.

## Not modelled

- The containment of paths in the workspace is `os.Root`'s; `Rel` is any map
  from a call's arguments to clean paths that leaves clean paths alone.
- Text: prompts, schemas, rendering of results, diffs, hints, log lines, HTTP
  encoding, the layout of reports; regular expressions and patterns beyond whether
  they match.
- The estimator's ratio, and with it when exactly compaction starts.
- Compaction switched off (no window known): `AgentLoop` always has a
  compactor. A limit larger than any conversation comes close, but overflow
  recovery is not attempted without one; what remains then is `UpstreamFails`.
- Of the client: how long it waits, what an answer says, reasoning tags.
- Of a command: its exit code, resource limits (a process over one ends), line
  boundaries in the tail, and an `os/exec` that cannot wait for it.
- Request ids, the access log and the limit of a body; `health.go`, `models.go`
  and `logx`, which keep no state that another part depends on.
- The tasks of the evaluation suite and their repositories
  (`src/evals/`), which are data.

## Noticed

Where the code and its comments or documents disagree, or the code does what a
reader would not expect. The models do as the code does, and a property that
this breaks excludes the case or is stated without it. The DELETE of a
session in use, which breaks `NoRunLosesItsWorkspace`, is told under "Runs".

About the core:

- Compaction invalidates pruned files under the names the model gave them
  (`agent/loop.go:284`), the ledger has their cleaned paths: after a read of
  `./a` is pruned the entry of `a` goes on vouching, against
  `contextmgr/compact.go:121-125` and `src/README.md:94-96`.
  `PlainlyVouchedIsVisible` excludes such reads.
- The name is that of the last call with the result's id, anywhere in the
  conversation (`contextmgr/compact.go:260-267`). Where ids come again the file of
  another call is invalidated instead; where the last arguments cannot be read by
  `argPath`, which refuses text behind the object that the tools' decoder accepts
  (`tools/tool.go:160`), an earlier call's, or none. `PlainlyNamed` says when
  neither can happen.
- A summary invalidates observations of earlier turns by number
  (`agent/loop.go:278`), and turn numbers start again with each request: what
  turn 3 of an earlier request observed stays trusted, against the comment at
  273-275 and `contextmgr/compact.go:127`. No property here catches it:
  `PlainlyVouchedIsVisible` is about files that the request itself read.
- When a turn ends with the results of two or more parallel calls, `safeCut`
  walks past all of them (`contextmgr/compact.go:243`): nothing is retained, and
  results the model has never seen are stubbed or summarised, against lines
  37-39 and 229 and `src/README.md:92`.
- Two calls sent with the same profile are rejected for the same parameter; the
  first learns, the second finds the fix applied and fails
  (`upstream/client.go:125`), although it would now be sent without it, which is
  what 162-164 promises. `Learn` does the same, and no property excludes it.
- A child that leaves its group with `setsid` and keeps the pipe makes Run wait
  for it after the deadline (`workspace/shell.go:267`), and with it the request
  and the session, against `workspace/shell.go:43`.
- `Tracker.Remaining` is zero when there is no limit and when nothing is left
  (`agent/budget.go:156`); the timeout guard takes either for no limit
  (`guard/builtin.go:175`), so with nothing left no command is refused, against
  166-172.
- The denylist and the timeout guard read arguments with `json.Unmarshal`, which
  refuses text after the value, and then object to nothing; the tool's Decoder
  takes the first value and runs it (`guard/builtin.go:141`,
  `tools/tool.go:160`). `RunsAsAnswered` names both gaps.
- A command is recorded when it has ended (`tools/bash.go:193`). One that still
  runs when the server is killed, or its grace is over, is not on record, while
  `src/docs/security.md` speaks of every command. `audit.Session` is never called.
- After a torn line the next server appends to it (`audit/audit.go:94`), so the
  first line of that one is lost with it; its predecessor reported the failure.
- A panic in a streamed run passes the call that stops the keepalive, which is
  not deferred (`server/chat.go:96`), so the timer writes on after the handler
  returned; and `withRecover` writes its error past the stream's lock, and writes
  JSON into an event stream (`server/middleware.go:65`). `StreamWellFormed`,
  `ClientIsTold` and `QuietAfterReturn` exclude such runs.
- `events.go` says the done event is emitted once when the loop stops; when a run
  fails it is not.
- Ignore rules are loaded when a session is made (`workspace/manager.go:122`), and
  `ReloadIgnore` has no caller but in tests, against `tools/glob.go:45`.
- A `tool_start` event whose arguments are not JSON cannot be encoded and is dropped
  silently (`server/stream.go:156`); the call's end is reported.

About the rest of the server:

- `src/docs/security.md:197` says repeat-tool stops a fourth identical call in
  one request. Calls of one turn are all checked against the calls of earlier
  turns (`agent/loop.go:393`), so four identical calls in one reply all run.
  `RepeatsStop` is stated over turns for that reason.
- The task survives a summary verbatim only when the conversation starts with
  it. After an assistant's greeting, only the system prompt is preserved
  (`contextmgr/compact.go:349`); `PromptAndTaskKept` says so.
- The tokens a summary costs are not added to the request's usage, nor counted
  against its ceiling (`agent/budget.go:133` speaks of every upstream call).
- A run that stops at a ceiling replaces the last of `Result.Messages`, which
  may be a tool result (`agent/loop.go:342`); nothing reads that field.
- Two sessions may be bound to one directory (`workspace/manager.go:96`). Each
  holds only its own lock, so one can write between the other's check and write
  (`workspace/ledger.go:185` relies on the session lock for that). With two
  sessions over one directory `NoBlindOverwrite` fails.
- Shutdown cancels the sweeper's context and does not wait for it
  (`src/cmd/harness-api/main.go:126`), so its removals overlap with those of
  `Manager.Close` and the process may end in the middle of one, which the
  comment above that line rules out. No session is destroyed twice for that.
- The fix for schema keywords (`upstream/quirks.go:257`) changes a profile that
  nothing reads again: the tools' schemas were built with the configured dialect
  (`server/server.go:164`). The retry sends the same body and is rejected again.
- A 408, 409 or 425 that outlasts the retries is reported to the caller as an
  invalid request (`upstream/client.go:418`).
- From a 36th retry on, the backoff (`upstream/client.go:376`) overflows and
  `rand.Int64N` panics.
- Recovery from an overflow decides by the number of messages whether compaction
  helped (`agent/loop.go:230`). Pruning keeps that number, so the request fails
  although it became smaller; the comment on the next line says nothing could be
  freed. `Overflow` in `AgentLoop` does the same.
- The request for a summary has no model (`contextmgr/compact.go:365`), and only
  the chat handler puts in the default, which `upstream/client.go:153` describes
  as used when a request does not name one. A provider that insists on a model
  refuses every summary; what is learned from such a request is learned for the
  empty name.
- A command that finishes just before its deadline is reported as timed out when
  the deadline passes before `Run` looks (`workspace/shell.go:217`), and what it
  left behind is then not swept; the note to the model says it was still running
  and was stopped with everything it had started (`tools/bash.go:270`).
- A command's result names the overflow file as the complete output
  (`tools/bash.go:259`) also when the file stopped at its limit or the disk was
  full.
- `workspace/shell.go:243` says a signal cannot hit another group because the id
  stays reserved while the group has a member. In the sweep after the shell was
  reaped it may have none.
- `Workspace.Default` is documented in `config/config.go` and never used.
- `!.git/` in a `.gitignore` makes the searches see `.git`, against
  `workspace/ignore.go:39`.
- Glob takes the first matches of its walk up to the limit and sorts those by time,
  so the most recent ones may be missing, against `tools/glob.go:43-46`; grep says
  nowhere that it stopped at its limit of scanned files, and on a single file
  ignores its limit; it decides by bytes that a line is too long and then cuts by
  characters (`tools/grep.go:324`).
- Occurrences are counted without overlaps (`tools/edit.go`): `aa` is there once
  in `aaa`, and the edit replaces the first. `EditIsExact` allows it.
- Read hides carriage returns and edit does not: text of several lines copied
  from a read is not found in a file with CRLF.
- A model's session suffix is stripped only when no earlier channel named a
  session (`server/binding.go:48-56`); otherwise it goes upstream with the name.
- `[DONE]` does not end a stream before the connection does; an NDJSON stream
  that starts with a comment is taken for SSE, and nothing of it is delivered.
- Calls with neither index nor id are all merged into one (`oai/delta.go:71`);
  `AssembledAsMeant` excludes two of them.

About the evaluation:

- Ctrl-C says it lets runs in flight finish (`src/cmd/harness-eval/main.go:118`)
  and cancels them.
- An interrupt during a checker is recorded as a failure of the agent, "the
  checker timed out", against `eval/runner.go:20-26`. `EveryRunIsCounted`
  leaves such runs out (`CutOff`).
- `must_survive` is documented to notice deletion or truncation
  (`eval/task.go:107`); only deletion is looked for, and a path that never existed
  is not noticed.
- After a timeout the tree is not compared, though `Failures` is to name every
  check that did not hold; and the copy may be removed while the server's tool
  still writes to it.
- The sign of a verdict comes from the counts of passed runs, not the rates
  (`eval/compare.go:195`), which may disagree when the numbers of runs differ.
- A probability of exactly one in twenty may round either way.

## Plan

Done: `Ledger`, `ReadBeforeEdit`, `Sessions` with `SessionLife`, `Compaction`,
`AgentLoop`, `ToolCalls`, `Upstream`, `Shell`, `ChatStream`, `EvalRuns`,
`ProviderStream` and `FileTools`, each with the proofs of its safety properties.
Left, in order of what matters most:

1. An abstract `Workspace` specification (a file changes only when the session
   knows what it holds) that `ReadBeforeEdit` implements under `Exclusive`, and an
   abstract client that `Upstream` implements.
2. Several commands of one session, and the overflow files they leave.
