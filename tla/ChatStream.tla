----------------------------- MODULE ChatStream -----------------------------
(***************************************************************************)
(* One chat completion, from the start of the server to the last frame of  *)
(* the answer (internal/server/stream.go, chat.go, the events of           *)
(* internal/agent/events.go and loop.go, and the middleware that recovers  *)
(* from panics).                                                           *)
(*                                                                         *)
(* First the server reads its configuration and the request passes what    *)
(* Gateway defines.  Then, if it asked for a stream:                       *)
(* The handler, the goroutine that keeps the connection alive and the      *)
(* goroutines that run tool calls all write frames to one response.  A     *)
(* frame is put on the wire in two halves, with a write that may fail      *)
(* after either, so a frame that another writer gets into would show.      *)
(*                                                                         *)
(* Left out: what frames say beyond their kind, turn and call; what the    *)
(* model and the tools do (AgentLoop), of which the turns, the groups of   *)
(* overlapping calls and the ways a run ends are kept; the session, which  *)
(* is released when the handler returns (Sessions).                        *)
(***************************************************************************)
EXTENDS Naturals, FiniteSets, SequencesExt, Gateway

CONSTANTS
  Call,        \* tool calls of one turn
  Handler,     \* the handler's goroutine
  Keepalive,   \* the goroutine that writes comments
  MaxTurns,    \* bound: turns of the run
  MaxCalls,    \* bound: tool calls of each turn
  MaxTicks,    \* bound: keepalives
  MaxPieces,   \* bound: pieces of the answer
  Layers,      \* bound: what file, environment and flags may give
  Requests     \* bound: requests

Writer == Call \cup {Handler, Keepalive}

ASSUME StreamAssumption ==
  /\ Handler \notin Call /\ Keepalive \notin Call /\ Handler # Keepalive
  /\ "none" \notin Writer
  /\ MaxTurns \in Nat /\ MaxCalls \in [1..MaxTurns -> Nat]
  /\ MaxTicks \in Nat /\ MaxPieces \in Nat
  /\ \A request \in Requests :
       request.model \in [name : STRING, suffix : BOOLEAN, session : STRING]

VARIABLES
  front,    \* configuration and request, until the run begins
  options,  \* what the request asks for: events, a usage frame
  at,       \* where the handler is
  turn,     \* turns begun
  outcome,  \* how the run ended
  stage,    \* stage[c]: where tool call c is in its turn
  todo,     \* frames the handler has yet to write before it goes on
  want,     \* want[w]: the frame w is writing
  pen,      \* pen[w]: how far it is with it
  mu,       \* holder of sseStream.mu, if any
  err,      \* whether sseStream.err is set
  wire,     \* halves of frames the client is sent
  gone,     \* whether the client went away
  stop,     \* whether the keepalive's stop channel is closed
  ticker,   \* the keepalive goroutine: not started, on or off
  ticks

vars == <<front, options, at, turn, outcome, stage, todo, want, pen, mu, err, wire,
          gone, stop, ticker, ticks>>

runVars == <<front, options, turn, outcome, stage>>

writeVars == <<want, pen, mu, err, wire>>

tickVars == <<stop, ticker, ticks>>
-----------------------------------------------------------------------------
None == "none"

\* A frame, with the turn and the call of a progress event.
EventFrame(kind, k, c) == [kind |-> kind, turn |-> k, call |-> c]

Frame(kind) == EventFrame(kind, 0, None)

EventKind == {"turn_start", "tool_start", "tool_end", "done_event"}

ClosingKind == {"content", "finish", "usage", "error", "done"}

Control == {"new", "plain", "opened", "looping", "asked", "tools", "ran",
            "stopping", "closing", "recovering", "returned"}

NoOptions == [stream |-> FALSE, events |-> FALSE, usage |-> FALSE]

Init ==
  /\ front \in [layers : Layers]
  /\ options = NoOptions
  /\ at = "down" /\ turn = 0 /\ outcome = None
  /\ stage = [c \in Call |-> "idle"]
  /\ todo = <<>>
  /\ want = [w \in Writer |-> Frame(None)]
  /\ pen = [w \in Writer |-> "idle"]
  /\ mu = None /\ err = FALSE /\ wire = <<>>
  /\ gone = FALSE
  /\ stop = FALSE /\ ticker = "unborn" /\ ticks = 0
-----------------------------------------------------------------------------
(* sseStream.raw.                                                          *)

Write(w, frame) ==
  /\ pen[w] = "idle"
  /\ want' = [want EXCEPT ![w] = frame]
  /\ pen' = [pen EXCEPT ![w] = "waiting"]
  /\ UNCHANGED <<mu, err, wire>>

Quiet == UNCHANGED <<runVars, at, todo, gone, tickVars>>

Enter(w) ==
  IF err THEN /\ pen' = [pen EXCEPT ![w] = "idle"]
              /\ UNCHANGED <<mu, wire>>
         ELSE /\ pen' = [pen EXCEPT ![w] = "half"] /\ mu' = w
              /\ wire' = Append(wire, [frame |-> want[w], half |-> 1])

\* Deliberately wrong: the lock is not waited for.
BeginBlindly(w) ==
  /\ pen[w] = "waiting"
  /\ Enter(w)
  /\ UNCHANGED <<want, err>> /\ Quiet

\* With the lock, the first half; nothing once a write has failed.
Begin(w) ==
  /\ pen[w] = "waiting" /\ mu = None
  /\ Enter(w)
  /\ UNCHANGED <<want, err>> /\ Quiet

Unlock(w) ==
  /\ pen' = [pen EXCEPT ![w] = "idle"]
  /\ mu' = IF mu = w THEN None ELSE mu

\* Deliberately wrong: the lock is kept when the write fails.
FinishKeepsLock(w) ==
  /\ pen[w] = "half"
  /\ \/ /\ wire' = Append(wire, [frame |-> want[w], half |-> 2])
        /\ Unlock(w)
        /\ UNCHANGED err
     \/ /\ gone /\ err' = TRUE
        /\ pen' = [pen EXCEPT ![w] = "idle"]
        /\ UNCHANGED <<mu, wire>>
  /\ UNCHANGED want /\ Quiet

\* The second half, or a failure: the client is gone.
Finish(w) ==
  /\ pen[w] = "half"
  /\ \/ /\ wire' = Append(wire, [frame |-> want[w], half |-> 2])
        /\ UNCHANGED err
     \/ gone /\ err' = TRUE /\ UNCHANGED wire
  /\ Unlock(w)
  /\ UNCHANGED want /\ Quiet

WriteStep(w) == Begin(w) \/ Finish(w)
-----------------------------------------------------------------------------
(* The handler.                                                            *)

\* The handler is not writing.
Ready == pen[Handler] = "idle" /\ todo = <<>>

Send ==
  /\ todo # <<>>
  /\ Write(Handler, Head(todo))
  /\ todo' = Tail(todo)
  /\ UNCHANGED <<runVars, at, gone, tickVars>>

\* Progress is reported only to a client that asked for it.
Emit(kind, k) ==
  todo' = IF options.events THEN <<EventFrame(kind, k, None)>> ELSE <<>>

\* Main: a configuration that cannot be read or is not valid ends it.
Boot ==
  /\ at = "down"
  /\ LET config == Layered(front.layers)
     IN  IF Readable(front.layers) /\ Validate(config)
         THEN at' = "listening" /\ front' = [config |-> config]
         ELSE at' = "refused" /\ UNCHANGED front
  /\ UNCHANGED <<options, turn, outcome, stage, todo, writeVars, gone,
                tickVars>>

\* One JSON object is the whole answer.
ReplyJSON ==
  /\ wire' = [half \in 1..2 |-> [frame |-> Frame("json"), half |-> half]]
  /\ at' = "returned"
  /\ UNCHANGED <<turn, stage, todo, want, pen, mu, err, gone, tickVars>>

Arrive(request) ==
  /\ at = "listening"
  /\ IF Refusal(front.config, request) # "none"
     THEN ReplyJSON /\ UNCHANGED <<front, options, outcome>>
     ELSE /\ at' = "decided"
          /\ front' = [config |-> front.config, request |-> request,
                       binding |-> ResolveBinding(request),
                       model |-> ModelAsked(front.config, request)]
          /\ UNCHANGED <<options, turn, outcome, stage, todo, writeVars, gone,
                        tickVars>>

\* acquireSession: a session that is named may be unknown or busy, a directory
\* unusable, a new workspace impossible.
SessionRefused ==
  /\ at = "decided" /\ ReplyJSON
  /\ UNCHANGED <<front, options, outcome>>

SessionAcquired ==
  /\ at = "decided"
  /\ at' = IF front.request.stream THEN "new" ELSE "plain"
  /\ options' \in IF front.request.stream
                  THEN [stream : {TRUE}, events : BOOLEAN, usage : BOOLEAN]
                  ELSE {NoOptions}
  /\ front' = <<>>
  /\ UNCHANGED <<turn, outcome, stage, todo, writeVars, gone, tickVars>>

\* A run that is not streamed: the answer or an error, nothing to a client
\* that left, a plain error if it panics.
PlainRun ==
  /\ at = "plain"
  /\ outcome' \in {"answered", "failed", "panicked"}
  /\ \/ ReplyJSON
     \/ /\ outcome' = "failed" /\ gone
        /\ at' = "returned"
        /\ UNCHANGED <<turn, stage, todo, writeVars, gone, tickVars>>
  /\ UNCHANGED <<front, options>>

\* Headers, then the frame that opens the message.
Open ==
  /\ at = "new" /\ at' = "opened"
  /\ todo' = <<Frame("role")>>
  /\ UNCHANGED <<runVars, writeVars, gone, tickVars>>

StartKeepalive ==
  /\ at = "opened" /\ Ready /\ at' = "looping"
  /\ ticker' = "on"
  /\ UNCHANGED <<runVars, todo, writeVars, gone, stop, ticks>>

BeginTurn ==
  /\ at = "looping" /\ Ready /\ turn < MaxTurns
  /\ turn' = turn + 1 /\ at' = "asked"
  /\ Emit("turn_start", turn + 1)
  /\ UNCHANGED <<front, options, outcome, stage, writeVars, gone, tickVars>>

\* The run is over: an answer, a ceiling or a client that went away.
Done ==
  /\ outcome' = "answered" /\ at' = "ran"
  /\ Emit("done_event", turn)
  /\ UNCHANGED <<front, options, turn, stage, writeVars, gone, tickVars>>

StopAtCeiling == at = "looping" /\ Ready /\ Done

Answer == at = "asked" /\ Ready /\ Done

AskForTools(calls) ==
  /\ at = "asked" /\ Ready
  /\ Cardinality(calls) \in 1..MaxCalls[turn]
  /\ stage' = [c \in Call |-> IF c \in calls THEN "ready" ELSE "idle"]
  /\ at' = "tools"
  /\ UNCHANGED <<front, options, turn, outcome, todo, writeVars, gone, tickVars>>

\* No event says that a run failed.
UpstreamFails ==
  /\ at = "asked" /\ Ready
  /\ outcome' = "failed" /\ at' = "ran"
  /\ UNCHANGED <<front, options, turn, stage, todo, writeVars, gone, tickVars>>

EndTurn ==
  /\ at = "tools"
  /\ \A c \in Call : stage[c] \in {"idle", "over"}
  /\ stage' = [c \in Call |-> "idle"]
  /\ at' = "looping"
  /\ UNCHANGED <<front, options, turn, outcome, todo, writeVars, gone, tickVars>>

CloseStop ==
  /\ at = "ran" /\ Ready /\ at' = "stopping"
  /\ stop' = TRUE
  /\ UNCHANGED <<runVars, todo, writeVars, gone, ticker, ticks>>

\* The frames that end the stream.  An error is not reported to a client that
\* is known to be gone.
Closing(pieces) ==
  IF outcome = "failed"
  THEN IF gone THEN <<>> ELSE <<Frame("error"), Frame("done")>>
  ELSE [i \in 1..pieces |-> Frame("content")] \o <<Frame("finish")>>
         \o (IF options.usage THEN <<Frame("usage")>> ELSE <<>>)
         \o <<Frame("done")>>

\* Deliberately wrong: the goroutine is told to stop and not waited for.
KeepaliveLeft ==
  /\ at = "stopping" /\ at' = "closing"
  /\ \E pieces \in 0..MaxPieces : todo' = Closing(pieces)
  /\ UNCHANGED <<runVars, writeVars, gone, tickVars>>

\* Deliberately wrong: the terminator is left out after an error.
KeepaliveStoppedNoEnd ==
  /\ at = "stopping" /\ ticker = "off" /\ at' = "closing"
  /\ \E pieces \in 0..MaxPieces :
       todo' = IF outcome = "failed" THEN <<Frame("error")>>
               ELSE Closing(pieces)
  /\ UNCHANGED <<runVars, writeVars, gone, tickVars>>

KeepaliveStopped ==
  /\ at = "stopping" /\ ticker = "off" /\ at' = "closing"
  /\ \E pieces \in 0..MaxPieces : todo' = Closing(pieces)
  /\ UNCHANGED <<runVars, writeVars, gone, tickVars>>

Return ==
  /\ at \in {"closing", "recovering"} /\ Ready /\ at' = "returned"
  /\ UNCHANGED <<runVars, todo, writeVars, gone, tickVars>>

\* The run panics, as backoff (client.go) can.  Nobody stops the keepalive,
\* and the middleware answers with an error as if nothing had been written,
\* past the stream and its lock.
Panic ==
  /\ at = "asked" /\ Ready /\ at' = "recovering"
  /\ outcome' = "panicked"
  /\ want' = [want EXCEPT ![Handler] = Frame("plain")]
  /\ pen' = [pen EXCEPT ![Handler] = "half"]
  /\ wire' = Append(wire, [frame |-> Frame("plain"), half |-> 1])
  /\ UNCHANGED <<front, options, turn, stage, todo, mu, err, gone, tickVars>>
-----------------------------------------------------------------------------
(* Tool calls.  One that runs alone is run by the handler, which waits.    *)

\* Nothing is written to a client that did not ask for progress, nor is the
\* start of a call whose arguments are not JSON: it cannot be encoded.
ToolEvent(c, kind) ==
  \/ options.events /\ Write(c, EventFrame(kind, turn, c))
  \/ /\ ~options.events \/ kind = "tool_start"
     /\ pen[c] = "idle" /\ UNCHANGED writeVars

Advance(c, from, to) ==
  /\ at = "tools" /\ stage[c] = from
  /\ stage' = [stage EXCEPT ![c] = to]
  /\ UNCHANGED <<front, options, at, turn, outcome, todo, gone, tickVars>>

\* A call may start alone or beside others of its group.
StartTool(c) == Advance(c, "ready", "running") /\ ToolEvent(c, "tool_start")

\* A guard refuses the call: it ends without having started.
DenyTool(c) == Advance(c, "ready", "ending") /\ ToolEvent(c, "tool_end")

EndTool(c) == Advance(c, "running", "ending") /\ ToolEvent(c, "tool_end")

ToolReturns(c) ==
  Advance(c, "ending", "over") /\ pen[c] = "idle" /\ UNCHANGED writeVars

ToolStep(c) == StartTool(c) \/ DenyTool(c) \/ EndTool(c) \/ ToolReturns(c)
-----------------------------------------------------------------------------
(* The keepalive goroutine.                                                *)

\* The select may prefer the tick to a channel that is already closed.
Tick ==
  /\ ticker = "on" /\ ticks < MaxTicks
  /\ Write(Keepalive, Frame("comment"))
  /\ ticks' = ticks + 1
  /\ UNCHANGED <<runVars, at, todo, gone, stop, ticker>>

TickerStops ==
  /\ ticker = "on" /\ stop /\ pen[Keepalive] = "idle"
  /\ ticker' = "off"
  /\ UNCHANGED <<runVars, at, todo, writeVars, gone, stop, ticks>>

\* The client goes away.
Leave ==
  /\ ~gone /\ at \in Control \ {"returned"}
  /\ gone' = TRUE
  /\ UNCHANGED <<runVars, at, todo, writeVars, tickVars>>
-----------------------------------------------------------------------------
Turn ==
  \/ BeginTurn \/ StopAtCeiling \/ Answer \/ UpstreamFails \/ EndTurn
  \/ \E calls \in SUBSET Call : AskForTools(calls)

HandlerStep ==
  \/ SessionRefused \/ SessionAcquired \/ PlainRun
  \/ Send \/ Open \/ StartKeepalive \/ Turn \/ CloseStop \/ KeepaliveStopped
  \/ Return \/ Panic

Next ==
  \/ Boot
  \/ \E request \in Requests : Arrive(request)
  \/ HandlerStep
  \/ \E w \in Writer : WriteStep(w)
  \/ \E c \in Call : ToolStep(c)
  \/ Tick \/ TickerStops
  \/ Leave

Spec == Init /\ [][Next]_vars

(***************************************************************************)
(* Goroutines that can run are run, and a call upstream ends (by the       *)
(* timeout of its client, if not before).  Nothing is assumed of how long  *)
(* a tool call takes: a command's process that left its group and holds    *)
(* the pipe is waited for beyond every deadline (shell.go, cmd.Wait); nor  *)
(* of a write: the server sets no timeout for one, and a client may        *)
(* neither read nor leave.                                                 *)
(***************************************************************************)
FairSpec ==
  /\ Spec
  /\ WF_vars(HandlerStep)
  /\ \A w \in Writer : WF_vars(Begin(w))
  /\ \A c \in Call : WF_vars(StartTool(c) \/ DenyTool(c) \/ ToolReturns(c))
  /\ WF_vars(TickerStops)
-----------------------------------------------------------------------------
(* Properties.                                                             *)

\* The frames a client has been sent whole end here.
Whole == {i \in DOMAIN wire : wire[i].half = 2}

Rank(kind) ==
  CASE kind \in {"json", "role"} -> 0
    [] kind = "comment" \/ kind \in EventKind -> 1
    [] kind = "content" -> 2
    [] kind \in {"finish", "error"} -> 3
    [] kind = "usage" -> 4
    [] kind = "done" -> 5

\* Progress and content repeat, all else is sent once.
MayPrecede(f, g) ==
  LET first == Rank(f.kind)
      second == Rank(g.kind)
  IN  first < second \/ (first = second /\ first \in {1, 2})

Panicked == outcome = "panicked"

\* Whoever writes and whenever, each frame arrives in one piece, only the last
\* one torn, and in the order role, progress, content, finish or error, usage,
\* terminator, with nothing after the terminator (stream.go: "two writers
\* interleaving would produce frames that no client can parse").  A run that
\* panicked is excluded: its error is written past the lock.
FramesInOrder == ~Panicked =>
  /\ \A i \in DOMAIN wire :
       IF wire[i].half = 1
       THEN i = 1 \/ wire[i - 1].half = 2
       ELSE i > 1 /\ wire[i - 1] = [frame |-> wire[i].frame, half |-> 1]
  /\ \A i \in Whole, j \in DOMAIN wire :
       i < j => MayPrecede(wire[i].frame, wire[j].frame)

Events == {i \in Whole : wire[i].frame.kind \in EventKind}

\* A watcher can follow the work: the events of a turn come after its start and
\* before the next one's, none comes twice, and a call that is reported to have
\* started is reported to have ended before the next turn or the end of the run.
EventsNest ==
  /\ \A i, j \in Events : i < j =>
       /\ wire[i].frame.turn <= wire[j].frame.turn
       /\ wire[i].frame # wire[j].frame
  /\ \A j \in Events : wire[j].frame.kind \in {"tool_start", "tool_end"} =>
       \E i \in Events :
         i < j /\ wire[i].frame = EventFrame("turn_start", wire[j].frame.turn, None)
  /\ \A i, j \in Events :
       /\ wire[i].frame.kind = "tool_start"
       /\ wire[j].frame.kind \in {"turn_start", "done_event"} /\ i < j
       => \E k \in Events :
            /\ i < k /\ k < j
            /\ wire[k].frame = [wire[i].frame EXCEPT !.kind = "tool_end"]

\* What the client is sent can be parsed, and followed.
StreamWellFormed == FramesInOrder /\ EventsNest

Told(kind) == \E i \in Whole : wire[i].frame = Frame(kind)

\* A client that stays is told how the run ended: the answer and a finish
\* reason, or an error, and the terminator (chat.go: "every failure after this
\* point has to be reported inside the stream").  Without a stream it gets one
\* object.
ClientIsTold ==
  at = "returned" /\ ~gone /\ ~Panicked =>
    IF options.stream
    THEN /\ Told("role") /\ Told("done") /\ ~Told("json")
         /\ Told("error") <=> outcome = "failed"
         /\ Told("finish") <=> outcome = "answered"
         /\ Told("content") => outcome = "answered"
         /\ Told("usage") <=> outcome = "answered" /\ options.usage
    ELSE /\ Told("json")
         /\ \A i \in Whole : wire[i].frame = Frame("json")

\* Whatever file, environment and flags say together, a request that is given a
\* workspace over an address others can reach has shown one of the tokens, and
\* someone asked for that address to be allowed (middleware.go: "it cannot
\* silently leave a network-facing server open").
ExposedNeedsToken ==
  at = "decided" /\ ~IsLoopback(front.config.addr) =>
    /\ front.request.token \in front.config.tokens \ {Blank}
    /\ front.config.allow

\* A request works in the workspace that the most specific channel names, never
\* in a fresh one when any names one; a suffix that was the channel is gone from
\* the model that is asked, and there always is one (binding.go: "keeps it from
\* leaking into an upstream request").
BoundAsNamed ==
  at = "decided" =>
    LET q == front.request
        b == front.binding
    IN  /\ q.headerSession # Blank => b.session = q.headerSession
        /\ q.headerSession = Blank /\ q.headerWorkspace # Blank =>
             b.session = Blank /\ b.workspace = q.headerWorkspace
        /\ b = NoBinding =>
             /\ q.bodySession = Blank /\ q.bodyWorkspace = Blank
             /\ ~Suffixed(q.model)
        /\ b.session \notin {Blank, q.headerSession, q.bodySession} =>
             b.session = q.model.session /\ ~front.model.suffix
        /\ front.model.name # Blank \/ front.model.suffix

\* What gets past the server's front is allowed to, and bound to what it names.
AdmittedAsAsked == ExposedNeedsToken /\ BoundAsNamed

\* Nothing is written to a response whose handler has returned: net/http has
\* given its buffer away by then (stream.go: the function keepalive returns
\* "stops it and waits for the goroutine").
QuietAfterReturn ==
  [][at = "returned" /\ ~Panicked => UNCHANGED <<pen, wire>>]_vars

\* A stream's handler returns, and lets go of the session, whoever writes when,
\* whichever write fails and however the run ends, unless a tool call runs for
\* ever or a write to the client never ends.
StreamEnds ==
  \/ (at = "new") ~> (at = "returned")
  \/ \E c \in Call : <>[](stage[c] = "running")
  \/ \E w \in Writer : <>[](pen[w] = "half")
=============================================================================
