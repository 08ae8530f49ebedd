-------------------------- MODULE ChatStreamProofs --------------------------
(***************************************************************************)
(* Theorems about ChatStream, for any calls, bounds, configurations and    *)
(* requests.                                                               *)
(***************************************************************************)
EXTENDS ChatStream, TLAPS

-----------------------------------------------------------------------------
(* The inductive invariant.                                                *)

FrameKind ==
  EventKind \cup ClosingKind \cup {"role", "json", "comment", "plain", None}

StreamFrame == [kind : FrameKind, turn : Nat, call : Call \cup {None}]

Piece == [frame : StreamFrame, half : {1, 2}]

Early == {"down", "refused", "listening", "decided", "new", "plain"}

RunPhase == {"looping", "asked", "tools", "ran", "stopping"}

Ending == {"answered", "failed"}

TypeOK ==
  /\ at \in Early \cup Control
  /\ options \in [stream : BOOLEAN, events : BOOLEAN, usage : BOOLEAN]
  /\ turn \in Nat
  /\ outcome \in Ending \cup {None, "panicked"}
  /\ stage \in [Call -> {"idle", "ready", "running", "ending", "over"}]
  /\ todo \in Seq(StreamFrame)
  /\ want \in [Writer -> StreamFrame]
  /\ pen \in [Writer -> {"idle", "waiting", "half"}]
  /\ mu \in Writer \cup {None}
  /\ wire \in Seq(Piece)
  /\ err \in BOOLEAN /\ gone \in BOOLEAN /\ stop \in BOOLEAN
  /\ ticker \in {"unborn", "on", "off"} /\ ticks \in Nat

Busy(w) == pen[w] # "idle"

\* Who may be writing when.
Disciplined ==
  /\ at \in Early =>
       /\ \A w \in Writer : ~Busy(w)
       /\ todo = <<>> /\ wire = <<>> /\ mu = None /\ ~err /\ ticker = "unborn"
  /\ at \in Early \ {"new"} => options = NoOptions
  /\ at \in Control \ {"plain", "returned"} => options.stream
  /\ at \in Early \cup {"opened", "looping", "asked", "tools"} => outcome = None
  /\ at \in {"ran", "stopping", "closing"} => outcome \in Ending
  /\ at = "returned" /\ options.stream /\ ~Panicked => outcome \in Ending
  /\ at = "recovering" => Panicked
  /\ Panicked => at \in {"recovering", "returned"}
  /\ \A c \in Call :
       /\ stage[c] # "idle" => at = "tools"
       /\ Busy(c) => stage[c] \in {"running", "ending"}
  /\ ticker = "on" \/ ~Busy(Keepalive)
  /\ ticker = "on" => at \in RunPhase \/ Panicked
  /\ at \in {"looping", "tools", "stopping"} \/ (at = "returned" /\ ~Panicked) =>
       Ready

\* The holder of the lock is the one with half a frame on the wire, and it is
\* the end of the wire.
LockHeld ==
  ~Panicked =>
    /\ \A w \in Writer : pen[w] = "half" <=> mu = w
    /\ mu # None =>
         wire # <<>> /\ wire[Len(wire)] = [frame |-> want[mu], half |-> 1] /\ ~err
    /\ mu = None /\ ~err => wire = <<>> \/ wire[Len(wire)].half = 2
    /\ err => gone

Base == TypeOK /\ Disciplined /\ LockHeld

Ranked(f) == Rank(f.kind) \in 0..5

\* What is still to be written may follow what is on the wire.
Ordered ==
  ~Panicked =>
    /\ \A i \in DOMAIN wire : Ranked(wire[i].frame)
    /\ \A w \in Writer : Busy(w) =>
         /\ Ranked(want[w])
         /\ \A i \in Whole : MayPrecede(wire[i].frame, want[w])
    /\ \A k \in DOMAIN todo :
         /\ Ranked(todo[k])
         /\ \A i \in Whole : MayPrecede(wire[i].frame, todo[k])
         /\ Busy(Handler) => MayPrecede(want[Handler], todo[k])
         /\ \A l \in DOMAIN todo : k < l => MayPrecede(todo[k], todo[l])
    /\ at \in RunPhase =>
         /\ \A w \in Writer : Busy(w) => Rank(want[w].kind) = 1
         /\ \A k \in DOMAIN todo : Rank(todo[k].kind) = 1
    /\ at \in RunPhase \cup {"opened"} =>
         \A i \in Whole : Rank(wire[i].frame.kind) \in {0, 1}

\* A frame is sent, being sent or next to be sent.
Owed(kind) ==
  \/ Told(kind)
  \/ Busy(Handler) /\ want[Handler] = Frame(kind)
  \/ \E k \in DOMAIN todo : todo[k] = Frame(kind)

Closed == at = "closing" \/ (at = "returned" /\ options.stream)

Permitted ==
  {"role", "comment"} \cup EventKind
    \cup (IF ~Closed THEN {}
          ELSE IF outcome = "failed" THEN {"error", "done"}
          ELSE IF options.usage THEN {"content", "finish", "usage", "done"}
          ELSE {"content", "finish", "done"})

\* What the client has to be told is on its way, and nothing else.
ToldSoFar ==
  ~Panicked =>
    /\ Closed \/ at \in RunPhase \cup {"opened"} =>
         /\ \A i \in Whole : wire[i].frame.kind \in Permitted
         /\ \A w \in Writer : Busy(w) => want[w].kind \in Permitted
         /\ \A k \in DOMAIN todo : todo[k].kind \in Permitted
         /\ ~err => Owed("role")
    /\ Closed /\ ~gone =>
         /\ Owed("done")
         /\ outcome = "failed" => Owed("error")
         /\ outcome = "answered" => Owed("finish")
         /\ outcome = "answered" /\ options.usage => Owed("usage")
    /\ at = "returned" /\ ~options.stream /\ ~gone =>
         /\ Told("json")
         /\ \A i \in Whole : wire[i].frame = Frame("json")

OnWire(f) == \E i \in Events : wire[i].frame = f

Start(c) == EventFrame("tool_start", turn, c)
End(c) == EventFrame("tool_end", turn, c)
TurnStart == EventFrame("turn_start", turn, None)

\* The event that the handler writes, if any.
Announced ==
  IF at = "asked" THEN TurnStart ELSE EventFrame("done_event", turn, None)

\* The call runs, or the report of its end is being written.
Ongoing(c) ==
  at = "tools" /\ (stage[c] = "running" \/ (stage[c] = "ending" /\ Busy(c)))

Closes(i) ==
  \/ \E k \in Events :
       i < k /\ wire[k].frame = [wire[i].frame EXCEPT !.kind = "tool_end"]
  \/ err
  \/ \E c \in Call : Ongoing(c) /\ wire[i].frame = Start(c)

\* A call that has been reported as started is reported as ended, or will be.
Reported ==
  /\ Events # {} => options.events
  /\ \A i \in Events :
       /\ wire[i].frame.turn <= turn
       /\ wire[i].frame.kind = "done_event" => outcome # None
       /\ wire[i].frame.kind = "tool_start" =>
            /\ Closes(i)
            /\ \E c \in Call :
                 wire[i].frame = EventFrame("tool_start", wire[i].frame.turn, c)

\* What a call is about to report has not been reported.
Calling ==
  /\ \A c \in Call :
       /\ Busy(c) =>
            /\ options.events /\ ~OnWire(want[c])
            /\ want[c] = IF stage[c] = "running" THEN Start(c) ELSE End(c)
       /\ at = "asked" \/ stage[c] = "ready" => ~OnWire(Start(c))
       /\ at = "asked" \/ stage[c] \in {"ready", "running"} => ~OnWire(End(c))
  /\ Busy(Keepalive) => want[Keepalive].kind = "comment"

\* Nor what the handler is; a turn that works has been.
Announcing ==
  /\ at \in {"asked", "ran"} =>
       /\ todo = <<>> \/ (todo = <<Announced>> /\ ~Busy(Handler))
       /\ Busy(Handler) => want[Handler] = Announced
       /\ ~Ready => options.events /\ ~OnWire(Announced)
  /\ at \notin {"asked", "ran"} =>
       /\ Busy(Handler) => want[Handler].kind \notin EventKind
       /\ \A k \in DOMAIN todo : todo[k].kind \notin EventKind
  /\ options.events /\ ~err /\ (at = "tools" \/ (at = "asked" /\ Ready)) =>
       OnWire(TurnStart)

Nested == EventsNest /\ Reported /\ Calling /\ Announcing

StreamInv == Base /\ FramesInOrder /\ Ordered /\ ToldSoFar /\ Nested
-----------------------------------------------------------------------------
(* Types.                                                                  *)

LEMMA Writers ==
  /\ Handler \in Writer /\ Keepalive \in Writer /\ Handler # Keepalive
  /\ \A c \in Call : c \in Writer /\ c # Handler /\ c # Keepalive /\ c # None
  /\ None \notin Writer
  /\ \A w \in Writer : w = Handler \/ w = Keepalive \/ w \in Call
  BY StreamAssumption DEF Writer, None

LEMMA FrameTypes ==
  /\ \A kind \in FrameKind : Frame(kind) \in StreamFrame
  /\ \A kind \in FrameKind, k \in Nat, c \in Call \cup {None} :
       EventFrame(kind, k, c) \in StreamFrame
  BY DEF Frame, EventFrame, StreamFrame

\* A writer that is not writing takes a frame.
LEMMA WriteIs ==
  ASSUME TypeOK, NEW w \in Writer, NEW f \in StreamFrame, Write(w, f)
  PROVE  /\ want' \in [Writer -> StreamFrame]
         /\ pen' \in [Writer -> {"idle", "waiting", "half"}]
         /\ ~Busy(w) /\ pen'[w] = "waiting" /\ want'[w] = f
         /\ \A v \in Writer \ {w} : pen'[v] = pen[v] /\ want'[v] = want[v]
         /\ UNCHANGED <<mu, err, wire>>
  BY DEF Write, TypeOK, Busy

\* What a piece adds to the wire.
LEMMA Appended ==
  ASSUME TypeOK, NEW p \in Piece, wire' = Append(wire, p)
  PROVE  /\ wire' \in Seq(Piece)
         /\ Len(wire) \in Nat /\ Len(wire') = Len(wire) + 1
         /\ DOMAIN wire = 1..Len(wire) /\ DOMAIN wire' = 1..Len(wire) + 1
         /\ wire'[Len(wire) + 1] = p
         /\ \A i \in DOMAIN wire : wire'[i] = wire[i]
  BY DEF TypeOK, Piece

-----------------------------------------------------------------------------
(* Who writes when, and who holds the lock.                                *)

\* Nothing is written, or a writer that was idle takes a frame.
LEMMA LockKept ==
  ASSUME TypeOK, LockHeld, Panicked => Panicked', UNCHANGED <<mu, err, wire>>,
         gone => gone',
         \A w \in Writer :
           \/ pen'[w] = pen[w] /\ want'[w] = want[w]
           \/ pen[w] = "idle" /\ pen'[w] = "waiting"
  PROVE  LockHeld'
  <1> SUFFICES ASSUME ~Panicked'
               PROVE  /\ \A w \in Writer : pen'[w] = "half" <=> mu' = w
                      /\ mu' # None =>
                           /\ wire' # <<>> /\ ~err'
                           /\ wire'[Len(wire')] = [frame |-> want'[mu'], half |-> 1]
                      /\ mu' = None /\ ~err' => wire' = <<>> \/ wire'[Len(wire')].half = 2
                      /\ err' => gone'
    BY DEF LockHeld
  <1>1. \A w \in Writer : pen'[w] = "half" <=> mu' = w
    BY DEF LockHeld
  <1>2. mu # None => want'[mu] = want[mu]
    BY DEF LockHeld, TypeOK
  <1> QED BY <1>1, <1>2 DEF LockHeld

LEMMA NoneAsked ==
  /\ NoOptions \in [stream : BOOLEAN, events : BOOLEAN, usage : BOOLEAN]
  /\ ~NoOptions.stream
  BY DEF NoOptions

LEMMA InitBase == Init => Base
  <1> SUFFICES ASSUME Init PROVE Base
    OBVIOUS
  <1>1. TypeOK
    <2>1. Frame(None) \in StreamFrame
      BY FrameTypes DEF FrameKind
    <2>2. want \in [Writer -> StreamFrame]
      BY <2>1 DEF Init
    <2>3. err \in BOOLEAN /\ gone \in BOOLEAN /\ stop \in BOOLEAN
      BY Zenon DEF Init
    <2>4. options \in [stream : BOOLEAN, events : BOOLEAN, usage : BOOLEAN]
      BY NoneAsked DEF Init
    <2> QED BY <2>2, <2>3, <2>4 DEF Init, TypeOK, Early, Control, Ending
  <1>2. Disciplined
    BY Writers DEF Init, Disciplined, Busy, Early, Control, RunPhase, Panicked, None
  <1>3. LockHeld
    BY StreamAssumption DEF Init, LockHeld, None
  <1> QED BY <1>1, <1>2, <1>3 DEF Base

LEMMA FrontBase ==
  ASSUME Base,
         \/ Boot \/ SessionRefused \/ SessionAcquired \/ PlainRun
         \/ \E request \in Requests : Arrive(request)
  PROVE  Base'
  <1> USE DEF Base
  <1>1. /\ at \in {"down", "listening", "decided", "plain"} /\ at \in Early
        /\ todo = <<>> /\ wire = <<>> /\ mu = None /\ ~err /\ ticker = "unborn"
        /\ outcome = None /\ options = NoOptions /\ \A w \in Writer : ~Busy(w)
        /\ ~options.stream /\ \A c \in Call : stage[c] = "idle"
    <2>1. at \in {"down", "listening", "decided", "plain"}
      BY DEF Boot, Arrive, SessionRefused, SessionAcquired, PlainRun
    <2> QED BY <2>1, NoneAsked DEF Disciplined, Early
  <1>2. CASE Boot
    <2>1. TypeOK'
      BY <1>2 DEF Boot, TypeOK, Early, writeVars, tickVars
    <2>2. Disciplined'
      BY <1>1, <1>2 DEF Boot, Disciplined, Early, Control, RunPhase, Busy, Ready, Panicked,
                        writeVars, tickVars, None
    <2>3. LockHeld'
      BY <1>2, LockKept DEF Boot, writeVars, Panicked
    <2> QED BY <2>1, <2>2, <2>3
  <1>3. ASSUME ReplyJSON, UNCHANGED options, outcome' \in {None, "answered", "failed", "panicked"}
        PROVE  Base'
    <2>1. TypeOK'
      <3>1. wire' \in Seq(Piece)
        BY <1>3, FrameTypes DEF ReplyJSON, Piece, FrameKind
      <3> QED BY <1>3, <3>1 DEF ReplyJSON, TypeOK, Control, tickVars, Ending
    <2>2. Disciplined'
      BY <1>1, <1>3, Writers DEF ReplyJSON, Disciplined, Early, Control, RunPhase, Busy, Ready,
                        Panicked, tickVars, None
    <2>3. wire' # <<>> /\ Len(wire') = 2 /\ wire'[2].half = 2
      BY <1>3 DEF ReplyJSON
    <2>4. LockHeld'
      BY <1>1, <1>3, <2>3, Writers DEF ReplyJSON, LockHeld, Busy
    <2> QED BY <2>1, <2>2, <2>4
  <1>4. ASSUME NEW request \in Requests, Arrive(request) PROVE Base'
    <2>1. CASE ReplyJSON /\ UNCHANGED <<front, options, outcome>>
      BY <1>1, <1>3, <2>1
    <2>2. CASE ~(ReplyJSON /\ UNCHANGED <<front, options, outcome>>)
      <3>1. /\ at' = "decided"
            /\ UNCHANGED <<options, turn, outcome, stage, todo, want, pen, mu, err, wire,
                           gone, stop, ticker, ticks>>
        BY <1>4, <2>2 DEF Arrive, writeVars, tickVars
      <3>2. TypeOK'
        BY <3>1 DEF TypeOK, Early
      <3>3. Disciplined'
        BY <1>1, <3>1 DEF Disciplined, Early, Control, RunPhase, Busy, Ready, Panicked, None
      <3>4. LockHeld'
        BY <3>1, LockKept DEF Panicked
      <3> QED BY <3>2, <3>3, <3>4
    <2> QED BY <2>1, <2>2
  <1>5. CASE SessionRefused
    BY <1>1, <1>3, <1>5 DEF SessionRefused
  <1>6. CASE SessionAcquired
    <2>1. /\ at' \in {"new", "plain"} /\ (at' = "plain" => options' = NoOptions)
          /\ at' = "new" => options' \in [stream : {TRUE}, events : BOOLEAN, usage : BOOLEAN]
          /\ UNCHANGED <<turn, outcome, stage, todo, want, pen, mu, err, wire, gone,
                         stop, ticker, ticks>>
      BY <1>6 DEF SessionAcquired, writeVars, tickVars
    <2>2. options' \in [stream : BOOLEAN, events : BOOLEAN, usage : BOOLEAN]
      <3>1. CASE options' = NoOptions
        BY <3>1, NoneAsked
      <3>2. CASE options' \in [stream : {TRUE}, events : BOOLEAN, usage : BOOLEAN]
        BY <3>2
      <3> QED BY <1>6, <3>1, <3>2 DEF SessionAcquired
    <2>3. TypeOK'
      BY <2>1, <2>2 DEF TypeOK, Early
    <2>4. at' = "new" => options'.stream
      BY <2>1
    <2>5. Disciplined'
      BY <1>1, <2>1, <2>4 DEF Disciplined, Early, Control, RunPhase, Busy, Ready, Panicked, None
    <2>6. LockHeld'
      BY <2>1, LockKept DEF Panicked
    <2> QED BY <2>3, <2>5, <2>6
  <1>7. CASE PlainRun
    <2>1. CASE ReplyJSON
      BY <1>1, <1>3, <1>7, <2>1 DEF PlainRun
    <2>2. CASE ~ReplyJSON
      <3>1. /\ at' = "returned" /\ outcome' = "failed"
            /\ UNCHANGED <<options, turn, stage, todo, want, pen, mu, err, wire, gone,
                           stop, ticker, ticks>>
        BY <1>7, <2>2 DEF PlainRun, writeVars, tickVars
      <3>2. TypeOK'
        BY <3>1 DEF TypeOK, Control, Ending
      <3>3. Disciplined'
        BY <1>1, <3>1, Writers DEF Disciplined, Early, Control, RunPhase, Busy, Ready,
                                   Panicked, None, Ending
      <3>4. LockHeld'
        BY <1>1, <3>1, LockKept DEF Panicked, None
      <3> QED BY <3>2, <3>3, <3>4
    <2> QED BY <2>1, <2>2
  <1> QED BY <1>2, <1>4, <1>5, <1>6, <1>7

\* What the handler announces, and how it closes the stream, are frames.
LEMMA EmitIs ==
  ASSUME TypeOK, NEW kind \in FrameKind, NEW k \in Nat, Emit(kind, k)
  PROVE  /\ todo' \in Seq(StreamFrame)
         /\ todo' = <<>> \/ (todo' = <<EventFrame(kind, k, None)>> /\ options.events)
         /\ options.events => todo' = <<EventFrame(kind, k, None)>>
  <1>1. EventFrame(kind, k, None) \in StreamFrame
    BY FrameTypes
  <1>2. <<EventFrame(kind, k, None)>> \in Seq(StreamFrame)
    BY <1>1
  <1> HIDE DEF EventFrame
  <1>3. CASE options.events
    BY <1>2, <1>3 DEF Emit
  <1>4. CASE ~options.events
    BY <1>4 DEF Emit
  <1> QED BY <1>3, <1>4

LEMMA ClosingIs ==
  ASSUME NEW n \in Nat
  PROVE  /\ Closing(n) \in Seq(StreamFrame)
         /\ outcome = "failed" /\ gone => Closing(n) = <<>>
         /\ outcome = "failed" /\ ~gone => Closing(n) = <<Frame("error"), Frame("done")>>
         /\ outcome # "failed" =>
              LET l == n + IF options.usage THEN 3 ELSE 2
              IN  /\ DOMAIN Closing(n) = 1..l
                  /\ \A i \in 1..n : Closing(n)[i] = Frame("content")
                  /\ Closing(n)[n + 1] = Frame("finish")
                  /\ options.usage => Closing(n)[n + 2] = Frame("usage")
                  /\ Closing(n)[l] = Frame("done")
  <1> DEFINE contents == [i \in 1..n |-> Frame("content")]
             usage == IF options.usage THEN <<Frame("usage")>> ELSE <<>>
  <1>1. /\ Frame("content") \in StreamFrame /\ Frame("finish") \in StreamFrame
        /\ Frame("usage") \in StreamFrame /\ Frame("done") \in StreamFrame
        /\ Frame("error") \in StreamFrame
    BY FrameTypes DEF FrameKind, ClosingKind
  <1> HIDE DEF Frame
  <1>2. contents \in Seq(StreamFrame) /\ Len(contents) = n
    BY <1>1
  <1>3. /\ usage \in Seq(StreamFrame) /\ Len(usage) = IF options.usage THEN 1 ELSE 0
        /\ options.usage => usage[1] = Frame("usage")
    BY <1>1
  <1>4. CASE outcome = "failed"
    BY <1>1, <1>4 DEF Closing
  <1>5. CASE outcome # "failed"
    <2>1. Closing(n) = contents \o <<Frame("finish")>> \o usage \o <<Frame("done")>>
      BY <1>5 DEF Closing
    <2> HIDE DEF contents, usage
    <2> DEFINE u == Len(usage)
               a == contents \o <<Frame("finish")>>
               b == a \o usage
    <2>2. u \in {0, 1} /\ (options.usage => u = 1) /\ (~options.usage => u = 0)
      BY <1>3
    <2>3. a \in Seq(StreamFrame) /\ Len(a) = n + 1 /\ a[n + 1] = Frame("finish")
          /\ \A i \in 1..n : a[i] = contents[i]
      BY <1>1, <1>2
    <2> HIDE DEF a
    <2>4. b \in Seq(StreamFrame) /\ Len(b) = n + 1 + u
          /\ (\A i \in 1..n + 1 : b[i] = a[i]) /\ (u = 1 => b[n + 2] = usage[1])
      <3>1. usage \in Seq(StreamFrame)
        BY <1>3
      <3>2. b \in Seq(StreamFrame) /\ Len(b) = Len(a) + u
        BY <2>3, <3>1
      <3>3. \A i \in 1..Len(a) : b[i] = a[i]
        BY <2>3, <3>1
      <3>4. \A i \in 1..u : b[Len(a) + i] = usage[i]
        BY <2>3, <3>1
      <3> HIDE DEF b, u
      <3> QED BY <2>2, <2>3, <3>2, <3>3, <3>4
    <2> HIDE DEF b, u
    <2>5. /\ b \o <<Frame("done")>> \in Seq(StreamFrame)
          /\ Len(b \o <<Frame("done")>>) = n + 2 + u
          /\ \A i \in 1..n + 1 + u : (b \o <<Frame("done")>>)[i] = b[i]
          /\ (b \o <<Frame("done")>>)[n + 2 + u] = Frame("done")
      BY <1>1, <2>2, <2>4
    <2>6. Closing(n) = b \o <<Frame("done")>>
      BY <2>1 DEF a, b
    <2>7. \A i \in 1..n : contents[i] = Frame("content")
      BY DEF contents
    <2>8. DOMAIN Closing(n) = 1..n + 2 + u
      BY <2>2, <2>5, <2>6
    <2>9. \A i \in 1..n : Closing(n)[i] = Frame("content")
      BY <2>2, <2>3, <2>4, <2>5, <2>6, <2>7
    <2>10. Closing(n)[n + 1] = Frame("finish")
      BY <2>2, <2>3, <2>4, <2>5, <2>6
    <2>11. options.usage => Closing(n)[n + 2] = Frame("usage")
      BY <1>3, <2>2, <2>4, <2>5, <2>6
    <2>12. CASE options.usage
      <3>1. u = 1
        BY <2>2, <2>12
      <3> QED BY <1>5, <2>5, <2>6, <2>8, <2>9, <2>10, <2>11, <2>12, <3>1
    <2>13. CASE ~options.usage
      <3>1. u = 0
        BY <2>2, <2>13
      <3> QED BY <1>5, <2>5, <2>6, <2>8, <2>9, <2>10, <2>11, <2>13, <3>1
    <2> QED BY <2>12, <2>13
  <1> QED BY <1>4, <1>5

LEMMA HandlerBase ==
  ASSUME Base, NEW calls \in SUBSET Call,
         \/ Open \/ StartKeepalive \/ BeginTurn \/ StopAtCeiling \/ Answer
         \/ UpstreamFails \/ EndTurn \/ AskForTools(calls) \/ CloseStop
         \/ KeepaliveStopped \/ Return
  PROVE  Base'
  <1> USE DEF Base
  <1>1. /\ UNCHANGED <<options, want, pen, mu, err, wire, gone, ticks>>
        /\ ticker' = IF at = "opened" THEN "on" ELSE ticker
    BY DEF Open, StartKeepalive, BeginTurn, StopAtCeiling, Answer, UpstreamFails, EndTurn,
           AskForTools, CloseStop, KeepaliveStopped, Return, Done, runVars, writeVars, tickVars
  <1>2. at \in Control \ {"plain", "returned"}
    BY DEF Open, StartKeepalive, BeginTurn, StopAtCeiling, Answer, UpstreamFails, EndTurn,
           AskForTools, CloseStop, KeepaliveStopped, Return, Control
  <1> DEFINE keeps == /\ turn' \in Nat /\ outcome' \in Ending \cup {None, "panicked"}
                      /\ stage' \in [Call -> {"idle", "ready", "running", "ending", "over"}]
                      /\ todo' \in Seq(StreamFrame) /\ stop' \in BOOLEAN
  <1>3. ASSUME keeps, at' \in Control PROVE TypeOK'
    <2>1. ticker' \in {"unborn", "on", "off"}
      BY <1>1 DEF TypeOK
    <2> QED BY <1>1, <1>3, <2>1 DEF TypeOK
  <1>4. ASSUME Panicked => Panicked' PROVE LockHeld'
    BY <1>1, <1>4, LockKept
  <1> USE Writers DEF Early, Control, RunPhase, Busy, Ready, Panicked, None, Ending
  <1>5. CASE Open
    <2>1. Frame("role") \in StreamFrame
      BY FrameTypes DEF FrameKind
    <2>2. keeps /\ at' \in Control
      BY <1>5, <2>1 DEF Open, TypeOK, runVars, tickVars
    <2>3. at' = "opened" /\ outcome' = outcome /\ ticker' = "unborn" /\ stage' = stage
      BY <1>1, <1>5 DEF Open, runVars, tickVars, Disciplined
    <2>4. options.stream
      BY <1>5 DEF Open, Disciplined
    <2>5. Disciplined'
      BY <1>1, <1>5, <2>3, <2>4 DEF Open, Disciplined
    <2> QED BY <1>3, <1>4, <2>2, <2>3, <2>5
  <1>6. CASE StartKeepalive \/ CloseStop \/ Return
    <2>1. keeps
      <3>1. stop' \in BOOLEAN
        BY <1>6, Zenon DEF StartKeepalive, CloseStop, Return, TypeOK, tickVars
      <3> QED BY <1>6, <3>1 DEF StartKeepalive, CloseStop, Return, TypeOK, runVars
    <2>2. /\ at' \in Control /\ UNCHANGED <<outcome, stage, todo>> /\ Ready
          /\ \/ at = "opened" /\ at' = "looping"
             \/ at = "ran" /\ at' = "stopping"
             \/ at \in {"closing", "recovering"} /\ at' = "returned"
      BY <1>6 DEF StartKeepalive, CloseStop, Return, runVars
    <2>3. options.stream
      BY <2>2 DEF Disciplined
    <2>4. Disciplined'
      BY <1>1, <2>2, <2>3 DEF Disciplined
    <2> QED BY <1>3, <1>4, <2>1, <2>2, <2>4
  <1>7. CASE BeginTurn \/ StopAtCeiling \/ Answer \/ UpstreamFails \/ KeepaliveStopped
    <2>1. keeps /\ at' \in Control /\ stage' = stage
      <3>1. stage' = stage /\ stop' \in BOOLEAN
        BY <1>7 DEF BeginTurn, StopAtCeiling, Answer, UpstreamFails, KeepaliveStopped, Done,
                    TypeOK, runVars, tickVars
      <3>2. CASE BeginTurn
        BY <3>1, <3>2, EmitIs DEF BeginTurn, TypeOK, FrameKind, EventKind
      <3>3. CASE StopAtCeiling \/ Answer
        BY <3>1, <3>3, EmitIs DEF StopAtCeiling, Answer, Done, TypeOK, FrameKind, EventKind
      <3>4. CASE UpstreamFails
        BY <3>1, <3>4 DEF UpstreamFails, TypeOK
      <3>5. CASE KeepaliveStopped
        <4>1. PICK n \in 0..MaxPieces : todo' = Closing(n)
          BY <3>5 DEF KeepaliveStopped
        <4>2. n \in Nat
          BY StreamAssumption
        <4> QED BY <3>1, <3>5, <4>1, <4>2, ClosingIs DEF KeepaliveStopped, TypeOK, runVars
      <3> QED BY <1>7, <3>2, <3>3, <3>4, <3>5
    <2>2. \/ /\ at = "looping" /\ at' = "asked" /\ outcome' = outcome
          \/ /\ at \in {"looping", "asked"} /\ at' = "ran"
             /\ outcome' \in Ending
          \/ /\ at = "stopping" /\ at' = "closing" /\ outcome' = outcome
             /\ ticker = "off"
      BY <1>7 DEF BeginTurn, StopAtCeiling, Answer, UpstreamFails, KeepaliveStopped, Done,
                  runVars
    <2>3. options.stream
      BY <2>2 DEF Disciplined
    <2>4. Disciplined'
      BY <1>1, <2>1, <2>2, <2>3 DEF Disciplined
    <2>5. ~Panicked
      BY <2>2 DEF Disciplined
    <2> QED BY <1>3, <1>4, <2>1, <2>4, <2>5
  <1>8. CASE EndTurn \/ AskForTools(calls)
    <2>1. keeps /\ at' \in Control /\ outcome' = outcome /\ todo' = todo
      BY <1>8 DEF EndTurn, AskForTools, TypeOK, tickVars
    <2>2. options.stream /\ outcome = None /\ todo = <<>> /\ ~Busy(Handler)
      BY <1>8 DEF EndTurn, AskForTools, Disciplined
    <2>3. /\ at \in {"tools", "asked"} /\ at' \in {"tools", "looping"}
          /\ at' = "looping" => \A c \in Call : stage'[c] = "idle"
          /\ \A c \in Call : ~Busy(c)
      BY <1>8 DEF EndTurn, AskForTools, Disciplined
    <2>4. Disciplined'
      BY <1>1, <2>1, <2>2, <2>3 DEF Disciplined
    <2> QED BY <1>3, <1>4, <2>1, <2>4
  <1> QED BY <1>5, <1>6, <1>7, <1>8

\* The next frame is the handler's to write.
LEMMA SendIs ==
  ASSUME Base, Send
  PROVE  /\ todo # <<>> /\ Head(todo) \in StreamFrame /\ todo' \in Seq(StreamFrame)
         /\ Write(Handler, Head(todo))
         /\ Head(todo) = todo[1]
         /\ Len(todo') = Len(todo) - 1 /\ Len(todo') \in Nat
         /\ \A k \in 1..Len(todo') : k + 1 \in DOMAIN todo /\ todo'[k] = todo[k + 1]
         /\ at \notin Early \cup {"looping", "tools", "stopping"}
         /\ at = "returned" => Panicked
         /\ UNCHANGED <<runVars, at, gone, tickVars>>
  <1>1. todo # <<>> /\ todo \in Seq(StreamFrame) /\ todo' = Tail(todo)
    BY DEF Send, Base, TypeOK
  <1>2. /\ Head(todo) \in StreamFrame /\ todo' \in Seq(StreamFrame) /\ Head(todo) = todo[1]
        /\ Len(todo') = Len(todo) - 1 /\ Len(todo') \in Nat
        /\ \A k \in 1..Len(todo') : k + 1 \in DOMAIN todo /\ todo'[k] = todo[k + 1]
    BY <1>1
  <1>3. at \notin Early \cup {"looping", "tools", "stopping"} /\ (at = "returned" => Panicked)
    BY <1>1 DEF Base, Disciplined, Ready
  <1> QED BY <1>1, <1>2, <1>3 DEF Send

LEMMA SendBase == ASSUME Base, Send PROVE Base'
  <1>1. Handler \in Writer
    BY Writers
  <1>2. /\ want' \in [Writer -> StreamFrame]
        /\ pen' \in [Writer -> {"idle", "waiting", "half"}]
        /\ ~Busy(Handler) /\ pen'[Handler] = "waiting"
        /\ \A v \in Writer \ {Handler} : pen'[v] = pen[v] /\ want'[v] = want[v]
        /\ UNCHANGED <<mu, err, wire, options, turn, outcome, stage, at, gone, stop, ticker,
                       ticks>>
    BY <1>1, SendIs, WriteIs DEF Base, runVars, tickVars
  <1>3. TypeOK'
    BY <1>2, SendIs DEF Base, TypeOK
  <1>4. Disciplined'
    BY <1>2, SendIs, Writers
       DEF Base, Disciplined, Early, Control, RunPhase, Busy, Ready, Panicked
  <1>5. LockHeld'
    BY <1>2, LockKept DEF Base, Busy, Panicked
  <1> QED BY <1>3, <1>4, <1>5 DEF Base

LEMMA PanicBase == ASSUME Base, Panic PROVE Base'
  <1>1. /\ at = "asked" /\ Ready /\ at' = "recovering" /\ outcome' = "panicked"
        /\ UNCHANGED <<options, turn, stage, todo, mu, err, gone, stop, ticker, ticks>>
        /\ options.stream
    BY DEF Panic, Base, Disciplined, Control, tickVars
  <1>2. Frame("plain") \in StreamFrame
    BY FrameTypes DEF FrameKind
  <1>3. want' \in [Writer -> StreamFrame] /\ pen' \in [Writer -> {"idle", "waiting", "half"}]
        /\ \A v \in Writer \ {Handler} : pen'[v] = pen[v]
    BY <1>2 DEF Panic, Base, TypeOK
  <1>4. wire' \in Seq(Piece)
    BY <1>2, Appended DEF Panic, Base, Piece
  <1>5. TypeOK'
    BY <1>1, <1>3, <1>4 DEF Base, TypeOK, Control
  <1>6. Disciplined'
    BY <1>1, <1>3, Writers
       DEF Base, Disciplined, Early, Control, RunPhase, Busy, Ready, Panicked, None, Ending
  <1>7. LockHeld'
    BY <1>1 DEF LockHeld, Panicked
  <1> QED BY <1>5, <1>6, <1>7 DEF Base

\* A writer ends: it has the lock no longer, and the wire is what it was or
\* longer by the second half.
LEMMA FinishIs ==
  ASSUME Base, NEW w \in Writer, Finish(w)
  PROVE  /\ pen[w] = "half" /\ pen' \in [Writer -> {"idle", "waiting", "half"}]
         /\ pen'[w] = "idle" /\ \A v \in Writer \ {w} : pen'[v] = pen[v]
         /\ mu' \in Writer \cup {None} /\ mu' # w /\ (mu # w => mu' = mu)
         /\ mu = w => mu' = None
         /\ UNCHANGED <<options, turn, outcome, stage, at, todo, want, gone, stop, ticker,
                        ticks>>
         /\ \/ /\ wire' = Append(wire, [frame |-> want[w], half |-> 2]) /\ err' = err
               /\ [frame |-> want[w], half |-> 2] \in Piece
            \/ gone /\ err' = TRUE /\ wire' = wire
  <1>1. /\ pen[w] = "half"
        /\ pen' = [pen EXCEPT ![w] = "idle"]
        /\ mu' = IF mu = w THEN None ELSE mu
        /\ UNCHANGED <<options, turn, outcome, stage, at, todo, want, gone, stop, ticker,
                       ticks>>
    BY DEF Finish, Unlock, Quiet, runVars, tickVars
  <1>2. [frame |-> want[w], half |-> 2] \in Piece
    BY DEF Base, TypeOK, Piece
  <1>3. /\ pen' \in [Writer -> {"idle", "waiting", "half"}] /\ pen'[w] = "idle"
        /\ \A v \in Writer \ {w} : pen'[v] = pen[v]
    BY <1>1 DEF Base, TypeOK
  <1>4. mu' \in Writer \cup {None} /\ mu' # w /\ (mu # w => mu' = mu) /\ (mu = w => mu' = None)
    BY <1>1, Writers DEF Base, TypeOK
  <1>5. \/ wire' = Append(wire, [frame |-> want[w], half |-> 2]) /\ err' = err
        \/ gone /\ err' = TRUE /\ wire' = wire
    BY DEF Finish
  <1> QED BY <1>1, <1>2, <1>3, <1>4, <1>5

\* A writer begins: it gives up after an error, or has the lock and the first
\* half written.
LEMMA BeginIs ==
  ASSUME Base, NEW w \in Writer, Begin(w)
  PROVE  /\ pen[w] = "waiting" /\ mu = None
         /\ pen' \in [Writer -> {"idle", "waiting", "half"}]
         /\ \A v \in Writer \ {w} : pen'[v] = pen[v]
         /\ UNCHANGED <<options, turn, outcome, stage, at, todo, want, err, gone, stop,
                        ticker, ticks>>
         /\ \/ err /\ pen'[w] = "idle" /\ mu' = mu /\ wire' = wire
            \/ /\ ~err /\ pen'[w] = "half" /\ mu' = w
               /\ wire' = Append(wire, [frame |-> want[w], half |-> 1])
               /\ [frame |-> want[w], half |-> 1] \in Piece
  <1>1. /\ pen[w] = "waiting" /\ mu = None /\ Enter(w)
        /\ UNCHANGED <<options, turn, outcome, stage, at, todo, want, err, gone, stop,
                       ticker, ticks>>
    BY DEF Begin, Quiet, runVars, tickVars
  <1>2. [frame |-> want[w], half |-> 1] \in Piece
    BY DEF Base, TypeOK, Piece
  <1>3. CASE err
    BY <1>1, <1>3 DEF Enter, Base, TypeOK
  <1>4. CASE ~err
    BY <1>1, <1>2, <1>4 DEF Enter, Base, TypeOK
  <1> QED BY <1>1, <1>3, <1>4

LEMMA WriterBase == ASSUME Base, NEW w \in Writer, WriteStep(w) PROVE Base'
  <1> USE DEF Base
  <1>1. ASSUME \A v \in Writer : Busy(v)' => Busy(v),
               UNCHANGED <<options, outcome, stage, at, todo, ticker>>,
               Busy(w)
        PROVE  Disciplined'
    <2>1. at \notin Early
      BY <1>1 DEF Disciplined
    <2> QED BY <1>1, <2>1, Writers
            DEF Disciplined, Early, Control, RunPhase, Busy, Ready, Panicked, TypeOK
  <1>2. CASE Begin(w)
    <2>1. Disciplined'
      BY <1>1, <1>2, BeginIs DEF Busy
    <2>2. CASE err
      <3>1. TypeOK'
        BY <1>2, <2>2, BeginIs DEF TypeOK
      <3>2. LockHeld'
        BY <1>2, <2>2, BeginIs DEF LockHeld, Panicked
      <3> QED BY <2>1, <3>1, <3>2
    <2>3. CASE ~err
      <3> DEFINE p == [frame |-> want[w], half |-> 1]
      <3>1. /\ p \in Piece /\ wire' = Append(wire, p) /\ pen'[w] = "half" /\ mu' = w
            /\ err' = err /\ want' = want /\ gone' = gone /\ outcome' = outcome
        BY <1>2, <2>3, BeginIs
      <3>2. wire' \in Seq(Piece) /\ wire' # <<>> /\ wire'[Len(wire')] = p
        BY <3>1, Appended
      <3>3. TypeOK'
        BY <1>2, <3>1, <3>2, BeginIs DEF TypeOK
      <3>4. ASSUME ~Panicked
            PROVE  /\ \A v \in Writer : pen'[v] = "half" <=> mu' = v
                   /\ mu' # None /\ wire'[Len(wire')] = [frame |-> want'[mu'], half |-> 1]
        <4>1. \A v \in Writer : pen[v] # "half"
          <5>1. mu = None
            BY <1>2, BeginIs
          <5>2. \A v \in Writer : pen[v] = "half" <=> mu = v
            BY <3>4 DEF LockHeld
          <5> QED BY <5>1, <5>2, Writers
        <4>2. \A v \in Writer \ {w} : pen'[v] = pen[v]
          BY <1>2, BeginIs
        <4>3. mu' # None
          BY <3>1, Writers
        <4> QED BY <3>1, <3>2, <4>1, <4>2, <4>3
      <3>5. LockHeld'
        BY <2>3, <3>1, <3>2, <3>4 DEF LockHeld, Panicked
      <3> QED BY <2>1, <3>3, <3>5
    <2> QED BY <2>2, <2>3
  <1>3. CASE Finish(w)
    <2>1. Disciplined'
      BY <1>1, <1>3, FinishIs DEF Busy
    <2>2. ASSUME ~Panicked
          PROVE  mu = w /\ mu' = None /\ ~err /\ \A v \in Writer : pen'[v] # "half"
      <3>1. mu = w /\ w # None /\ \A v \in Writer : pen[v] = "half" => v = w
        <4>1. pen[w] = "half"
          BY <1>3, FinishIs
        <4>2. \A v \in Writer : pen[v] = "half" <=> mu = v
          BY <2>2 DEF LockHeld
        <4> QED BY <4>1, <4>2, Writers
      <3>2. ~err
        BY <2>2, <3>1 DEF LockHeld
      <3> QED BY <1>3, <3>1, <3>2, FinishIs
    <2>3. None \notin Writer /\ outcome' = outcome /\ gone' = gone
      BY <1>3, FinishIs, Writers
    <2>4. CASE wire' = Append(wire, [frame |-> want[w], half |-> 2]) /\ err' = err
      <3> DEFINE p == [frame |-> want[w], half |-> 2]
      <3>1. wire' \in Seq(Piece) /\ wire' # <<>> /\ wire'[Len(wire')].half = 2
        BY <1>3, <2>4, FinishIs, Appended DEF Piece, TypeOK
      <3>2. TypeOK'
        BY <1>3, <2>4, <3>1, FinishIs DEF TypeOK
      <3>3. LockHeld'
        BY <2>2, <2>3, <2>4, <3>1 DEF LockHeld, Panicked
      <3> QED BY <2>1, <3>2, <3>3
    <2>5. CASE gone /\ err' = TRUE /\ wire' = wire
      <3>1. err' \in BOOLEAN
        BY <2>5, Zenon
      <3>2. TypeOK'
        BY <1>3, <2>5, <3>1, FinishIs DEF TypeOK
      <3>3. LockHeld'
        BY <2>2, <2>3, <2>5 DEF LockHeld, Panicked
      <3> QED BY <2>1, <3>2, <3>3
    <2> QED BY <1>3, <2>4, <2>5, FinishIs
  <1> QED BY <1>2, <1>3 DEF WriteStep

\* A call's progress, and what is written of it.
LEMMA ToolIs ==
  ASSUME Base, NEW c \in Call, ToolStep(c)
  PROVE  /\ at = "tools" /\ ~Busy(c)
         /\ UNCHANGED <<options, turn, outcome, at, todo, gone, stop, ticker, ticks, mu, err,
                        wire>>
         /\ stage' \in [Call -> {"idle", "ready", "running", "ending", "over"}]
         /\ \A d \in Call \ {c} : stage'[d] = stage[d]
         /\ \/ stage[c] = "ready" /\ stage'[c] \in {"running", "ending"}
            \/ stage[c] = "running" /\ stage'[c] = "ending"
            \/ stage[c] = "ending" /\ stage'[c] = "over"
         /\ want' \in [Writer -> StreamFrame]
         /\ pen' \in [Writer -> {"idle", "waiting", "half"}]
         /\ \A v \in Writer \ {c} : pen'[v] = pen[v] /\ want'[v] = want[v]
         /\ \/ /\ pen'[c] = "waiting" /\ stage'[c] # "over" /\ options.events
               /\ want'[c] = EventFrame(IF stage'[c] = "running" THEN "tool_start"
                                        ELSE "tool_end", turn, c)
            \/ /\ pen'[c] = "idle" /\ want'[c] = want[c]
               /\ stage'[c] = "ending" => ~options.events
  <1> USE DEF Base
  <1>1. c \in Writer /\ turn \in Nat
    BY Writers DEF TypeOK
  <1>2. PICK to \in {"running", "ending", "over"} :
          /\ stage' = [stage EXCEPT ![c] = to]
          /\ \/ stage[c] = "ready" /\ to \in {"running", "ending"}
             \/ stage[c] = "running" /\ to = "ending"
             \/ stage[c] = "ending" /\ to = "over"
          /\ \/ to = "running" /\ ToolEvent(c, "tool_start")
             \/ to = "ending" /\ ToolEvent(c, "tool_end")
             \/ to = "over" /\ pen[c] = "idle" /\ UNCHANGED writeVars
    BY DEF ToolStep, StartTool, DenyTool, EndTool, ToolReturns, Advance
  <1>3. /\ at = "tools"
        /\ UNCHANGED <<options, turn, outcome, at, todo, gone, stop, ticker, ticks>>
    BY DEF ToolStep, StartTool, DenyTool, EndTool, ToolReturns, Advance, tickVars
  <1>4. /\ stage' \in [Call -> {"idle", "ready", "running", "ending", "over"}]
        /\ stage'[c] = to /\ \A d \in Call \ {c} : stage'[d] = stage[d]
    BY <1>2 DEF TypeOK
  <1> DEFINE f == EventFrame(IF to = "running" THEN "tool_start" ELSE "tool_end", turn, c)
  <1>5. f \in StreamFrame
    BY <1>1, FrameTypes DEF FrameKind, EventKind
  <1> HIDE DEF f
  <1>6. CASE to # "over" /\ options.events /\ Write(c, f)
    <2>1. /\ want' \in [Writer -> StreamFrame]
          /\ pen' \in [Writer -> {"idle", "waiting", "half"}]
          /\ ~Busy(c) /\ pen'[c] = "waiting" /\ want'[c] = f
          /\ \A v \in Writer \ {c} : pen'[v] = pen[v] /\ want'[v] = want[v]
          /\ UNCHANGED <<mu, err, wire>>
      BY <1>1, <1>5, <1>6, WriteIs
    <2>2. want'[c] = EventFrame(IF stage'[c] = "running" THEN "tool_start" ELSE "tool_end",
                                turn, c)
      BY <1>4, <2>1 DEF f
    <2> QED BY <1>2, <1>3, <1>4, <1>6, <2>1, <2>2
  <1>7. CASE /\ pen[c] = "idle" /\ UNCHANGED writeVars
             /\ to = "ending" => ~options.events
    BY <1>2, <1>3, <1>4, <1>7 DEF TypeOK, Busy, writeVars
  <1>8. \/ to # "over" /\ options.events /\ Write(c, f)
        \/ /\ pen[c] = "idle" /\ UNCHANGED writeVars
           /\ to = "ending" => ~options.events
    BY <1>2 DEF ToolEvent, f
  <1> QED BY <1>6, <1>7, <1>8

LEMMA ToolBase == ASSUME Base, NEW c \in Call, ToolStep(c) PROVE Base'
  <1>1. TypeOK'
    BY ToolIs DEF Base, TypeOK
  <1>2. Disciplined'
    <2>1. \A d \in Call : Busy(d)' => stage'[d] \in {"running", "ending"}
      <3> SUFFICES ASSUME NEW d \in Call, Busy(d)' PROVE stage'[d] \in {"running", "ending"}
        OBVIOUS
      <3>1. CASE d = c
        BY <3>1, ToolIs DEF Busy
      <3>2. CASE d # c
        <4>1. pen'[d] = pen[d] /\ stage'[d] = stage[d]
          BY <3>2, ToolIs, Writers
        <4> QED BY <4>1 DEF Base, Disciplined, Busy
      <3> QED BY <3>1, <3>2
    <2> QED BY <2>1, ToolIs, Writers
            DEF Base, Disciplined, Early, Control, RunPhase, Busy, Ready, Panicked
  <1>3. LockHeld'
    BY ToolIs, LockKept DEF Base, Busy, Panicked
  <1> QED BY <1>1, <1>2, <1>3 DEF Base

\* The keepalive goroutine writes a comment or stops.
LEMMA TimerIs ==
  ASSUME Base, Tick \/ TickerStops
  PROVE  /\ ticker = "on" /\ ~Busy(Keepalive) /\ ticker' \in {"on", "off"} /\ ticks' \in Nat
         /\ UNCHANGED <<options, turn, outcome, stage, at, todo, gone, stop, mu, err, wire>>
         /\ want' \in [Writer -> StreamFrame]
         /\ pen' \in [Writer -> {"idle", "waiting", "half"}]
         /\ \A v \in Writer \ {Keepalive} : pen'[v] = pen[v] /\ want'[v] = want[v]
         /\ \/ /\ ticker' = "on" /\ pen'[Keepalive] = "waiting"
               /\ want'[Keepalive] = Frame("comment")
            \/ pen'[Keepalive] = "idle" /\ want' = want
  <1> USE DEF Base
  <1>1. Keepalive \in Writer /\ Frame("comment") \in StreamFrame
    BY Writers, FrameTypes DEF FrameKind
  <1>2. CASE Tick
    BY <1>1, <1>2, WriteIs DEF Tick, TypeOK, runVars
  <1>3. CASE TickerStops
    BY <1>1, <1>3 DEF TickerStops, TypeOK, runVars, writeVars, Busy
  <1> QED BY <1>2, <1>3

LEMMA TimerBase == ASSUME Base, Tick \/ TickerStops PROVE Base'
  <1>1. TypeOK'
    BY TimerIs DEF Base, TypeOK
  <1>2. Disciplined'
    BY TimerIs, Writers
       DEF Base, Disciplined, Early, Control, RunPhase, Busy, Ready, Panicked
  <1>3. LockHeld'
    BY TimerIs, LockKept DEF Base, Busy, Panicked
  <1> QED BY <1>1, <1>2, <1>3 DEF Base

\* The client leaves, or nothing happens at all.
LEMMA IdleBase == ASSUME Base, Leave \/ UNCHANGED vars PROVE Base'
  <1>1. /\ UNCHANGED <<options, at, turn, outcome, stage, todo, want, pen, mu, err, wire,
                       stop, ticker, ticks>>
        /\ gone => gone'
    BY DEF Leave, vars, runVars, writeVars, tickVars
  <1>2. gone' \in BOOLEAN
    BY Zenon DEF Leave, vars, Base, TypeOK
  <1>3. TypeOK'
    BY <1>1, <1>2 DEF Base, TypeOK
  <1>4. Disciplined'
    BY <1>1 DEF Base, Disciplined, Busy, Ready, Panicked
  <1>5. LockHeld'
    BY <1>1, LockKept DEF Base, Panicked
  <1> QED BY <1>3, <1>4, <1>5 DEF Base

LEMMA BaseStep == Base /\ [Next]_vars => Base'
  <1> SUFFICES ASSUME Base, [Next]_vars PROVE Base'
    OBVIOUS
  <1>1. CASE HandlerStep
    <2>1. CASE Turn
      <3>1. {} \in SUBSET Call
        OBVIOUS
      <3>2. CASE \E calls \in SUBSET Call : AskForTools(calls)
        BY <3>2, HandlerBase
      <3> QED BY <2>1, <3>1, <3>2, HandlerBase DEF Turn
    <2>2. CASE Open \/ StartKeepalive \/ CloseStop \/ KeepaliveStopped \/ Return
      <3>1. {} \in SUBSET Call
        OBVIOUS
      <3> QED BY <2>2, <3>1, HandlerBase
    <2>3. CASE Send
      BY <2>3, SendBase
    <2>4. CASE Panic
      BY <2>4, PanicBase
    <2>5. CASE SessionRefused \/ SessionAcquired \/ PlainRun
      BY <2>5, FrontBase
    <2> QED BY <1>1, <2>1, <2>2, <2>3, <2>4, <2>5 DEF HandlerStep
  <1>2. ASSUME NEW w \in Writer, WriteStep(w) PROVE Base'
    BY <1>2, WriterBase
  <1>3. ASSUME NEW c \in Call, ToolStep(c) PROVE Base'
    BY <1>3, ToolBase
  <1>4. CASE Boot \/ \E request \in Requests : Arrive(request)
    BY <1>4, FrontBase
  <1>5. CASE Tick \/ TickerStops
    BY <1>5, TimerBase
  <1>6. CASE Leave \/ UNCHANGED vars
    BY <1>6, IdleBase
  <1> QED BY <1>1, <1>2, <1>3, <1>4, <1>5, <1>6 DEF Next

THEOREM BaseInvariant == Spec => []Base
  BY InitBase, BaseStep, PTL DEF Spec
-----------------------------------------------------------------------------
(* After the handler has returned.                                         *)

\* Nothing is written to a response whose handler has returned, unless its run
\* panicked: the keepalive has been stopped and waited for, and no tool call is
\* left (stream.go, keepalive; chat.go, streamAgentRun).
THEOREM ReturnIsQuiet == Spec => QuietAfterReturn
  <1>1. ASSUME Base, Next, at = "returned", ~Panicked PROVE UNCHANGED <<pen, wire>>
    <2>1. \A w \in Writer : pen[w] = "idle"
      BY <1>1, Writers DEF Base, Disciplined, Ready, Busy, RunPhase
    <2>2. \A w \in Writer : ~WriteStep(w)
      BY <2>1 DEF WriteStep, Begin, Finish
    <2>3. ~Send
      BY <1>1, SendIs
    <2>4. ticker # "on"
      BY <1>1 DEF Base, Disciplined, RunPhase
    <2>5. ~(HandlerStep \/ Boot \/ \E request \in Requests : Arrive(request))
      BY <1>1, <2>3
         DEF HandlerStep, Boot, Arrive, SessionRefused, SessionAcquired, PlainRun, Open,
             StartKeepalive, Turn, BeginTurn, StopAtCeiling, Answer, UpstreamFails, EndTurn,
             AskForTools, CloseStop, KeepaliveStopped, Return, Panic
    <2>6. \A c \in Call : ~ToolStep(c)
      BY <1>1, ToolIs
    <2>7. ~Tick /\ ~TickerStops
      BY <2>4 DEF Tick, TickerStops
    <2>8. Leave
      BY <1>1, <2>2, <2>5, <2>6, <2>7 DEF Next
    <2> QED BY <2>8 DEF Leave, writeVars
  <1>2. Base /\ [Next]_vars => [at = "returned" /\ ~Panicked => UNCHANGED <<pen, wire>>]_vars
    BY <1>1
  <1> QED BY <1>2, BaseInvariant, PTL DEF Spec, QuietAfterReturn
-----------------------------------------------------------------------------
(* Before the run.                                                         *)

\* What the server knows of its configuration, and of a request that passed.
Fronted ==
  /\ at \in {"listening", "decided"} => Validate(front.config)
  /\ at = "decided" =>
       /\ Refusal(front.config, front.request) = "none"
       /\ front.binding = ResolveBinding(front.request)
       /\ front.model = ModelAsked(front.config, front.request)

\* Nothing else changes what the server knows before the run.
LEMMA FrontKept ==
  ASSUME [Next]_vars, ~Boot, ~\E request \in Requests : Arrive(request)
  PROVE  at' \notin {"listening", "decided"} \/ (at' = at /\ front' = front)
  <1>1. CASE HandlerStep
    BY <1>1 DEF HandlerStep, SessionRefused, SessionAcquired, PlainRun, ReplyJSON, Open,
         StartKeepalive, Turn, BeginTurn, StopAtCeiling, Answer, UpstreamFails, EndTurn,
         AskForTools, CloseStop, KeepaliveStopped, Return, Panic, Send, Done, runVars
  <1>2. ASSUME NEW w \in Writer, WriteStep(w) PROVE at' = at /\ front' = front
    BY <1>2 DEF WriteStep, Begin, Finish, Quiet, runVars
  <1>3. ASSUME NEW c \in Call, ToolStep(c) PROVE at' = at /\ front' = front
    BY <1>3 DEF ToolStep, StartTool, DenyTool, EndTool, ToolReturns, Advance
  <1>4. CASE Tick \/ TickerStops \/ Leave \/ UNCHANGED vars
    BY <1>4 DEF Tick, TickerStops, Leave, vars, runVars
  <1> QED BY <1>1, <1>2, <1>3, <1>4 DEF Next

LEMMA FrontStep == Fronted /\ [Next]_vars => Fronted'
  <1> SUFFICES ASSUME Fronted, [Next]_vars PROVE Fronted'
    OBVIOUS
  <1>1. CASE Boot
    <2> DEFINE config == Layered(front.layers)
    <2>1. CASE Readable(front.layers) /\ Validate(config)
      <3>1. at' = "listening" /\ front' = [config |-> config]
        BY <1>1, <2>1 DEF Boot
      <3> HIDE DEF config
      <3>2. front'.config = config
        BY <3>1
      <3> QED BY <2>1, <3>1, <3>2 DEF Fronted
    <2>2. CASE ~(Readable(front.layers) /\ Validate(config))
      BY <1>1, <2>2 DEF Boot, Fronted
    <2> QED BY <2>1, <2>2
  <1>2. ASSUME NEW request \in Requests, Arrive(request) PROVE Fronted'
    <2>1. CASE Refusal(front.config, request) = "none"
      <3>1. /\ at = "listening" /\ at' = "decided"
            /\ front' = [config |-> front.config, request |-> request,
                         binding |-> ResolveBinding(request),
                         model |-> ModelAsked(front.config, request)]
        BY <1>2, <2>1 DEF Arrive
      <3>2. /\ front'.config = front.config /\ front'.request = request
            /\ front'.binding = ResolveBinding(request)
            /\ front'.model = ModelAsked(front.config, request)
        BY <3>1
      <3>3. Validate(front.config)
        BY <3>1 DEF Fronted
      <3> QED BY <2>1, <3>1, <3>2, <3>3 DEF Fronted
    <2>2. CASE Refusal(front.config, request) # "none"
      BY <1>2, <2>2 DEF Arrive, ReplyJSON, Fronted
    <2> QED BY <2>1, <2>2
  <1>3. CASE ~Boot /\ ~\E request \in Requests : Arrive(request)
    <2>1. at' \notin {"listening", "decided"} \/ (at' = at /\ front' = front)
      BY <1>3, FrontKept
    <2> QED BY <2>1 DEF Fronted
  <1> QED BY <1>1, <1>2, <1>3

LEMMA FrontedAlways == Spec => []Fronted
  <1>1. Init => Fronted
    BY DEF Init, Fronted
  <1> QED BY <1>1, FrontStep, PTL DEF Spec

\* The request that has passed is one of those that arrive.
LEMMA RequestsAlways == Spec => [](at = "decided" => front.request \in Requests)
  <1> DEFINE I == at = "decided" => front.request \in Requests
  <1>1. Init => I
    BY DEF Init
  <1>2. I /\ [Next]_vars => I'
    <2> SUFFICES ASSUME I, [Next]_vars PROVE I'
      OBVIOUS
    <2>1. ASSUME NEW request \in Requests, Arrive(request) PROVE I'
      <3>1. CASE Refusal(front.config, request) = "none"
        <4>1. front' = [config |-> front.config, request |-> request,
                        binding |-> ResolveBinding(request),
                        model |-> ModelAsked(front.config, request)]
          BY <2>1, <3>1 DEF Arrive
        <4>2. front'.request = request
          BY <4>1
        <4> QED BY <4>2
      <3>2. CASE Refusal(front.config, request) # "none"
        BY <2>1, <3>2 DEF Arrive, ReplyJSON
      <3> QED BY <3>1, <3>2
    <2>2. CASE ~\E request \in Requests : Arrive(request)
      <3>1. CASE Boot
        BY <3>1 DEF Boot
      <3>2. CASE ~Boot
        <4>1. at' # "decided" \/ (at' = at /\ front' = front)
          BY <2>2, <3>2, FrontKept
        <4> QED BY <4>1
      <3> QED BY <3>1, <3>2
    <2> QED BY <2>1, <2>2
  <1> QED BY <1>1, <1>2, PTL DEF Spec

LEMMA MinOfPositions ==
  ASSUME NEW S \in SUBSET (1..5), S # {}
  PROVE  Min(S) \in S /\ \A y \in S : Min(S) <= y
  <1>1. \E x \in S : \A y \in S : x <= y
    <2>1. CASE 1 \in S
      BY <2>1
    <2>2. CASE 1 \notin S /\ 2 \in S
      <3>1. \A y \in S : 2 <= y
        BY <2>2
      <3> QED BY <2>2, <3>1
    <2>3. CASE 1 \notin S /\ 2 \notin S
      <3>1. \A y \in S : y >= 3
        BY <2>3
      <3>2. CASE 3 \in S
        BY <3>1, <3>2
      <3>3. CASE 3 \notin S /\ 4 \in S
        <4>1. \A y \in S : 4 <= y
          BY <3>1, <3>3
        <4> QED BY <3>3, <4>1
      <3>4. CASE 3 \notin S /\ 4 \notin S
        <4>1. \A y \in S : y = 5
          BY <3>1, <3>4
        <4>2. PICK x \in S : TRUE
          OBVIOUS
        <4> QED BY <4>1, <4>2
      <3> QED BY <3>2, <3>3, <3>4
    <2> QED BY <2>1, <2>2, <2>3
  <1> QED BY <1>1 DEF Min

\* What names the workspace, by channel.
LEMMA BindingIs ==
  ASSUME NEW q, NEW b, b = ResolveBinding(q)
  PROVE  \/ /\ q.headerSession # Blank
            /\ b = [session |-> q.headerSession, workspace |-> Blank]
         \/ /\ q.headerSession = Blank /\ q.headerWorkspace # Blank
            /\ b = [session |-> Blank, workspace |-> q.headerWorkspace]
         \/ /\ q.headerSession = Blank /\ q.headerWorkspace = Blank
            /\ q.bodySession # Blank
            /\ b = [session |-> q.bodySession, workspace |-> Blank]
         \/ /\ q.headerSession = Blank /\ q.headerWorkspace = Blank
            /\ q.bodySession = Blank /\ q.bodyWorkspace # Blank
            /\ b = [session |-> Blank, workspace |-> q.bodyWorkspace]
         \/ /\ q.headerSession = Blank /\ q.headerWorkspace = Blank
            /\ q.bodySession = Blank /\ q.bodyWorkspace = Blank
            /\ Suffixed(q.model)
            /\ b = [session |-> q.model.session, workspace |-> Blank]
         \/ /\ q.headerSession = Blank /\ q.headerWorkspace = Blank
            /\ q.bodySession = Blank /\ q.bodyWorkspace = Blank
            /\ ~Suffixed(q.model)
            /\ b = NoBinding
  <1> DEFINE bound == << [NoBinding EXCEPT !.session = q.headerSession],
                         [NoBinding EXCEPT !.workspace = q.headerWorkspace],
                         [NoBinding EXCEPT !.session = q.bodySession],
                         [NoBinding EXCEPT !.workspace = q.bodyWorkspace],
                         IF Suffixed(q.model)
                         THEN [NoBinding EXCEPT !.session = q.model.session]
                         ELSE NoBinding >>
             named == {i \in DOMAIN bound : bound[i] # NoBinding}
  <1>1. /\ DOMAIN bound = 1..5
        /\ bound[1] = [NoBinding EXCEPT !.session = q.headerSession]
        /\ bound[2] = [NoBinding EXCEPT !.workspace = q.headerWorkspace]
        /\ bound[3] = [NoBinding EXCEPT !.session = q.bodySession]
        /\ bound[4] = [NoBinding EXCEPT !.workspace = q.bodyWorkspace]
        /\ bound[5] = IF Suffixed(q.model)
                      THEN [NoBinding EXCEPT !.session = q.model.session]
                      ELSE NoBinding
    OBVIOUS
  <1>2. \A v : /\ [NoBinding EXCEPT !.session = v] = [session |-> v, workspace |-> Blank]
               /\ [NoBinding EXCEPT !.workspace = v] = [session |-> Blank, workspace |-> v]
               /\ [session |-> v, workspace |-> Blank] = NoBinding <=> v = Blank
               /\ [session |-> Blank, workspace |-> v] = NoBinding <=> v = Blank
    BY DEF NoBinding
  <1>3. b = IF named = {} THEN NoBinding ELSE bound[Min(named)]
    BY DEF ResolveBinding
  <1>4. Suffixed(q.model) => q.model.session # Blank
    BY DEF Suffixed
  <1> HIDE DEF bound
  <1>5. /\ 1 \in named <=> q.headerSession # Blank
        /\ 2 \in named <=> q.headerWorkspace # Blank
        /\ 3 \in named <=> q.bodySession # Blank
        /\ 4 \in named <=> q.bodyWorkspace # Blank
        /\ 5 \in named <=> Suffixed(q.model)
        /\ named \in SUBSET (1..5)
    BY <1>1, <1>2, <1>4
  <1> HIDE DEF named
  <1>6. CASE named = {}
    BY <1>3, <1>5, <1>6
  <1>7. CASE named # {}
    <2>1. Min(named) \in named /\ \A y \in named : Min(named) <= y
      BY <1>5, <1>7, MinOfPositions
    <2>2. PICK k \in 1..5 : k = Min(named)
      BY <1>5, <2>1
    <2>3. b = bound[k] /\ k \in named /\ \A y \in 1..5 : y < k => y \notin named
      BY <1>3, <1>5, <1>7, <2>1, <2>2
    <2>4. CASE k = 1
      BY <1>1, <1>2, <1>5, <2>3, <2>4
    <2>5. CASE k = 2
      BY <1>1, <1>2, <1>5, <2>3, <2>5
    <2>6. CASE k = 3
      BY <1>1, <1>2, <1>5, <2>3, <2>6
    <2>7. CASE k = 4
      BY <1>1, <1>2, <1>5, <2>3, <2>7
    <2>8. CASE k = 5
      BY <1>1, <1>2, <1>5, <2>3, <2>8
    <2> QED BY <2>2, <2>4, <2>5, <2>6, <2>7, <2>8
  <1> QED BY <1>6, <1>7

\* A request that is given a workspace over an address others can reach has
\* shown a token, and works in the workspace that the most specific channel
\* names (middleware.go, binding.go, config.go).
THEOREM Admission == Spec => []AdmittedAsAsked
  <1>1. Fronted => ExposedNeedsToken
    <2> SUFFICES ASSUME Fronted, at = "decided", ~IsLoopback(front.config.addr)
                 PROVE  /\ front.request.token \in front.config.tokens \ {Blank}
                        /\ front.config.allow
      BY DEF ExposedNeedsToken
    <2>1. front.config.tokens # {} /\ front.config.allow
      BY Zenon DEF Fronted, Validate
    <2>2. Authorized(front.config, front.request)
      BY DEF Fronted, Refusal
    <2> QED BY <2>1, <2>2 DEF Authorized
  <1>2. ASSUME Fronted, at = "decided" => front.request \in Requests PROVE BoundAsNamed
    <2> SUFFICES ASSUME at = "decided" PROVE BoundAsNamed
      BY DEF BoundAsNamed
    <2> DEFINE q == front.request
               b == front.binding
    <2>1. /\ Refusal(front.config, q) = "none" /\ b = ResolveBinding(q)
          /\ front.model = ModelAsked(front.config, q)
          /\ q.model \in [name : STRING, suffix : BOOLEAN, session : STRING]
      BY <1>2, StreamAssumption DEF Fronted
    <2>2. front.model.name # Blank \/ front.model.suffix
      BY <2>1 DEF Refusal
    <2>3. ASSUME Suffixed(q.model), q.headerSession = Blank, q.headerWorkspace = Blank,
                 q.bodySession = Blank, q.bodyWorkspace = Blank
          PROVE  ~front.model.suffix
      <3>1. front.model = [q.model EXCEPT !.suffix = FALSE]
        <4>1. ~\E v \in {q.headerSession, q.headerWorkspace, q.bodySession,
                          q.bodyWorkspace} : v # Blank
          BY <2>3
        <4>2. ModelAsked(front.config, q) = [q.model EXCEPT !.suffix = FALSE]
          BY <2>3, <4>1 DEF ModelAsked, Suffixed
        <4> QED BY <2>1, <4>2
      <3> QED BY <2>1, <3>1
    <2> HIDE DEF q, b
    <2>4. q.model.suffix \in BOOLEAN
      BY <2>1, Zenon
    <2>5. /\ q.headerSession # Blank => b.session = q.headerSession
          /\ q.headerSession = Blank /\ q.headerWorkspace # Blank =>
               b.session = Blank /\ b.workspace = q.headerWorkspace
          /\ b = NoBinding =>
               q.bodySession = Blank /\ q.bodyWorkspace = Blank /\ ~Suffixed(q.model)
      BY <2>1, BindingIs DEF NoBinding, Suffixed
    <2>6. ASSUME b.session \notin {Blank, q.headerSession, q.bodySession}
          PROVE  b.session = q.model.session /\ ~front.model.suffix
      <3>1. b # NoBinding
        BY <2>6 DEF NoBinding
      <3>2. /\ Suffixed(q.model) /\ b.session = q.model.session
            /\ q.headerSession = Blank /\ q.headerWorkspace = Blank
            /\ q.bodySession = Blank /\ q.bodyWorkspace = Blank
        BY <2>1, <2>6, <3>1, BindingIs
      <3> QED BY <2>3, <3>2
    <2> QED BY <2>2, <2>5, <2>6 DEF BoundAsNamed, q, b
  <1>3. /\ Fronted /\ (at = "decided" => front.request \in Requests) => AdmittedAsAsked
    BY <1>1, <1>2 DEF AdmittedAsAsked
  <1> QED BY <1>3, FrontedAlways, RequestsAlways, PTL
-----------------------------------------------------------------------------
(* The order of the frames.                                                *)

LEMMA Ranks ==
  /\ Rank("json") = 0 /\ Rank("role") = 0 /\ Rank("comment") = 1 /\ Rank("content") = 2
  /\ Rank("finish") = 3 /\ Rank("error") = 3 /\ Rank("usage") = 4 /\ Rank("done") = 5
  /\ \A kind \in EventKind : Rank(kind) = 1
  BY DEF Rank, EventKind

\* The first half of a frame completes nothing.
LEMMA HalfOne ==
  ASSUME TypeOK, NEW f \in StreamFrame, wire' = Append(wire, [frame |-> f, half |-> 1])
  PROVE  /\ Whole' = Whole /\ Whole \subseteq DOMAIN wire
         /\ Len(wire) \in Nat
         /\ DOMAIN wire = 1..Len(wire) /\ DOMAIN wire' = 1..Len(wire) + 1
         /\ wire'[Len(wire) + 1] = [frame |-> f, half |-> 1]
         /\ \A i \in DOMAIN wire : wire'[i] = wire[i]
  <1>1. [frame |-> f, half |-> 1] \in Piece
    BY DEF Piece
  <1>2. /\ Len(wire) \in Nat
        /\ DOMAIN wire = 1..Len(wire) /\ DOMAIN wire' = 1..Len(wire) + 1
        /\ wire'[Len(wire) + 1] = [frame |-> f, half |-> 1]
        /\ \A i \in DOMAIN wire : wire'[i] = wire[i]
    BY <1>1, Appended
  <1> QED BY <1>2 DEF Whole

\* The second half completes it.
LEMMA HalfTwo ==
  ASSUME TypeOK, NEW f \in StreamFrame, wire' = Append(wire, [frame |-> f, half |-> 2])
  PROVE  /\ Whole' = Whole \cup {Len(wire) + 1} /\ Whole \subseteq DOMAIN wire
         /\ Len(wire) \in Nat
         /\ DOMAIN wire = 1..Len(wire) /\ DOMAIN wire' = 1..Len(wire) + 1
         /\ wire'[Len(wire) + 1] = [frame |-> f, half |-> 2]
         /\ \A i \in DOMAIN wire : wire'[i] = wire[i]
  <1>1. [frame |-> f, half |-> 2] \in Piece
    BY DEF Piece
  <1>2. /\ Len(wire) \in Nat
        /\ DOMAIN wire = 1..Len(wire) /\ DOMAIN wire' = 1..Len(wire) + 1
        /\ wire'[Len(wire) + 1] = [frame |-> f, half |-> 2]
        /\ \A i \in DOMAIN wire : wire'[i] = wire[i]
    BY <1>1, Appended
  <1> QED BY <1>2 DEF Whole

\* Before the loop of turns and after it, only the handler writes.
LEMMA Alone ==
  ASSUME Base, ~Panicked, at \notin RunPhase, NEW w \in Writer, Busy(w)
  PROVE  w = Handler
  BY Writers DEF Base, Disciplined, RunPhase

\* A call or the keepalive takes a frame of progress.
LEMMA ProgressOrdered ==
  ASSUME Base, Ordered, NEW w \in Writer, w # Handler, at \in RunPhase \/ Panicked,
         UNCHANGED <<at, outcome, todo, wire>>,
         \A v \in Writer \ {w} : pen'[v] = pen[v] /\ want'[v] = want[v],
         \/ pen'[w] = "idle"
         \/ Rank(want'[w].kind) = 1
  PROVE  Ordered'
  <1> SUFFICES ASSUME ~Panicked PROVE Ordered'
    BY DEF Ordered, Panicked
  <1>1. Whole' = Whole /\ at \in RunPhase /\ Handler \in Writer
    BY Writers DEF Whole
  <1>2. Busy(Handler)' <=> Busy(Handler)
    BY <1>1 DEF Busy
  <1>3. \A v \in Writer : Busy(v)' =>
          \/ Busy(v) /\ want'[v] = want[v]
          \/ Rank(want'[v].kind) = 1
    BY DEF Busy
  <1>4. \A i \in Whole : Rank(wire[i].frame.kind) \in {0, 1}
    BY <1>1 DEF Ordered
  <1>5. \A v \in Writer : Busy(v)' =>
          /\ Ranked(want'[v])
          /\ \A i \in Whole : MayPrecede(wire[i].frame, want'[v])
          /\ Rank(want'[v].kind) = 1
    <2> SUFFICES ASSUME NEW v \in Writer, Busy(v)'
                 PROVE  /\ Ranked(want'[v])
                        /\ \A i \in Whole : MayPrecede(wire[i].frame, want'[v])
                        /\ Rank(want'[v].kind) = 1
      OBVIOUS
    <2>1. CASE Busy(v) /\ want'[v] = want[v]
      BY <1>1, <2>1 DEF Ordered
    <2>2. CASE Rank(want'[v].kind) = 1
      BY <1>4, <2>2 DEF Ranked, MayPrecede
    <2> QED BY <1>3, <2>1, <2>2
  <1> QED BY <1>1, <1>2, <1>5 DEF Ordered, Panicked

\* The handler takes the next frame.
LEMMA SendOrdered == ASSUME Base, Ordered, Send PROVE Ordered'
  <1> SUFFICES ASSUME ~Panicked PROVE Ordered'
    BY SendIs DEF Ordered, Panicked, runVars
  <1>1. /\ ~Busy(Handler) /\ Busy(Handler)' /\ want'[Handler] = todo[1]
        /\ \A v \in Writer \ {Handler} : pen'[v] = pen[v] /\ want'[v] = want[v]
        /\ UNCHANGED <<wire, at, outcome>>
    BY SendIs, WriteIs, Writers DEF Base, Busy, runVars
  <1>2. Len(todo) \in Nat /\ DOMAIN todo = 1..Len(todo) /\ 1 \in DOMAIN todo
    BY SendIs DEF Base, TypeOK
  <1>3. /\ DOMAIN todo' = 1..Len(todo) - 1
        /\ \A k \in DOMAIN todo' : k + 1 \in DOMAIN todo /\ todo'[k] = todo[k + 1]
    BY SendIs, <1>2
  <1>4. Whole' = Whole
    BY <1>1 DEF Whole
  <1>5. \A v \in Writer : Busy(v)' => v = Handler \/ (Busy(v) /\ want'[v] = want[v])
    BY <1>1 DEF Busy
  <1>6. \A v \in Writer : Busy(v)' =>
          /\ Ranked(want'[v])
          /\ \A i \in Whole : MayPrecede(wire[i].frame, want'[v])
          /\ at \in RunPhase => Rank(want'[v].kind) = 1
    BY <1>1, <1>2, <1>5 DEF Ordered
  <1>7. \A k \in DOMAIN todo' :
          /\ Ranked(todo'[k])
          /\ \A i \in Whole : MayPrecede(wire[i].frame, todo'[k])
          /\ MayPrecede(want'[Handler], todo'[k])
          /\ \A l \in DOMAIN todo' : k < l => MayPrecede(todo'[k], todo'[l])
          /\ at \in RunPhase => Rank(todo'[k].kind) = 1
    <2> SUFFICES ASSUME NEW k \in DOMAIN todo'
                 PROVE  /\ Ranked(todo'[k])
                        /\ \A i \in Whole : MayPrecede(wire[i].frame, todo'[k])
                        /\ MayPrecede(want'[Handler], todo'[k])
                        /\ \A l \in DOMAIN todo' : k < l => MayPrecede(todo'[k], todo'[l])
                        /\ at \in RunPhase => Rank(todo'[k].kind) = 1
      OBVIOUS
    <2>1. k \in Nat /\ 1 < k + 1 /\ k + 1 \in DOMAIN todo /\ todo'[k] = todo[k + 1]
      BY <1>2, <1>3
    <2>2. MayPrecede(todo[1], todo[k + 1])
      BY <1>2, <2>1 DEF Ordered
    <2>3. \A l \in DOMAIN todo' : k < l => MayPrecede(todo'[k], todo'[l])
      <3> SUFFICES ASSUME NEW l \in DOMAIN todo', k < l PROVE MayPrecede(todo'[k], todo'[l])
        OBVIOUS
      <3>1. l + 1 \in DOMAIN todo /\ todo'[l] = todo[l + 1] /\ k + 1 < l + 1
        BY <1>2, <1>3, <2>1
      <3> QED BY <2>1, <3>1 DEF Ordered
    <2> QED BY <1>1, <2>1, <2>2, <2>3 DEF Ordered
  <1> QED BY <1>1, <1>4, <1>6, <1>7 DEF Ordered, Panicked

\* A writer that begins starts a new frame after whole ones.
LEMMA BeginInOrder ==
  ASSUME Base, FramesInOrder, Ordered, NEW w \in Writer, Begin(w)
  PROVE  FramesInOrder' /\ Ordered'
  <1> SUFFICES ASSUME ~Panicked PROVE FramesInOrder' /\ Ordered'
    BY BeginIs DEF FramesInOrder, Ordered, Panicked
  <1>1. /\ pen[w] = "waiting" /\ mu = None
        /\ \A v \in Writer \ {w} : pen'[v] = pen[v]
        /\ UNCHANGED <<want, at, outcome, todo>>
        /\ Busy(w)
    BY BeginIs DEF Busy
  <1>2. /\ \A v \in Writer : Busy(v)' => Busy(v)
        /\ Busy(Handler)' => Busy(Handler)
    BY <1>1, Writers DEF Busy
  <1>3. CASE wire' = wire
    <2>1. Whole' = Whole
      BY <1>3 DEF Whole
    <2> QED BY <1>1, <1>2, <1>3, <2>1 DEF FramesInOrder, Ordered, Panicked
  <1>4. CASE ~err /\ wire' = Append(wire, [frame |-> want[w], half |-> 1])
    <2> DEFINE n == Len(wire)
    <2>1. want[w] \in StreamFrame
      BY DEF Base, TypeOK
    <2>2. /\ Whole' = Whole /\ Whole \subseteq DOMAIN wire /\ n \in Nat
          /\ DOMAIN wire = 1..n /\ DOMAIN wire' = 1..n + 1
          /\ wire'[n + 1] = [frame |-> want[w], half |-> 1]
          /\ \A i \in DOMAIN wire : wire'[i] = wire[i]
      BY <1>4, <2>1, HalfOne DEF Base
    <2>3. wire = <<>> \/ wire[n].half = 2
      BY <1>1, <1>4 DEF Base, LockHeld
    <2>4. n = 0 \/ wire[n].half = 2
      BY <2>2, <2>3
    <2> HIDE DEF n
    <2>5. /\ Ranked(want[w])
          /\ \A i \in Whole : MayPrecede(wire[i].frame, want[w])
          /\ at \in RunPhase => Rank(want[w].kind) = 1
      BY <1>1 DEF Ordered
    <2>6. ASSUME NEW i \in DOMAIN wire'
          PROVE  IF wire'[i].half = 1
                 THEN i = 1 \/ wire'[i - 1].half = 2
                 ELSE i > 1 /\ wire'[i - 1] = [frame |-> wire'[i].frame, half |-> 1]
      <3>1. CASE i = n + 1
        <4>1. n = 0 \/ (n \in DOMAIN wire /\ i - 1 = n)
          BY <2>2, <3>1
        <4> QED BY <2>2, <2>4, <3>1, <4>1
      <3>2. CASE i \in DOMAIN wire
        <4>1. i = 1 \/ (i > 1 /\ i - 1 \in DOMAIN wire)
          BY <2>2, <3>2
        <4>2. wire'[i] = wire[i] /\ (i > 1 => wire'[i - 1] = wire[i - 1])
          BY <2>2, <3>2, <4>1
        <4>3. IF wire[i].half = 1
              THEN i = 1 \/ wire[i - 1].half = 2
              ELSE i > 1 /\ wire[i - 1] = [frame |-> wire[i].frame, half |-> 1]
          BY <3>2 DEF FramesInOrder
        <4> QED BY <4>1, <4>2, <4>3
      <3> QED BY <2>2, <2>6, <3>1, <3>2
    <2>7. ASSUME NEW i \in Whole, NEW j \in DOMAIN wire', i < j
          PROVE  MayPrecede(wire'[i].frame, wire'[j].frame)
      <3>1. CASE j = n + 1
        BY <2>2, <2>5, <3>1
      <3>2. CASE j \in DOMAIN wire
        BY <2>2, <2>7, <3>2 DEF FramesInOrder
      <3> QED BY <2>2, <2>7, <3>1, <3>2
    <2>8. FramesInOrder'
      BY <2>2, <2>6, <2>7 DEF FramesInOrder
    <2>9. /\ \A i \in DOMAIN wire' : Ranked(wire'[i].frame)
          /\ \A i \in Whole : wire'[i].frame = wire[i].frame
      BY <2>2, <2>5 DEF Ordered
    <2> QED BY <1>1, <1>2, <2>2, <2>8, <2>9 DEF Ordered, Panicked
  <1> QED BY <1>3, <1>4, BeginIs

\* A writer that finishes ends the frame it began.
LEMMA FinishInOrder ==
  ASSUME Base, FramesInOrder, Ordered, ToldSoFar, NEW w \in Writer, Finish(w)
  PROVE  FramesInOrder' /\ Ordered'
  <1> SUFFICES ASSUME ~Panicked PROVE FramesInOrder' /\ Ordered'
    BY FinishIs DEF FramesInOrder, Ordered, Panicked
  <1>1. /\ pen[w] = "half" /\ Busy(w) /\ ~Busy(w)'
        /\ \A v \in Writer \ {w} : pen'[v] = pen[v]
        /\ UNCHANGED <<want, at, outcome, todo>>
    BY FinishIs DEF Busy
  <1>2. /\ \A v \in Writer : Busy(v)' => v # w /\ Busy(v)
        /\ Busy(Handler)' => w # Handler /\ Busy(Handler)
    BY <1>1, Writers DEF Busy
  <1>3. CASE wire' = wire
    <2>1. Whole' = Whole
      BY <1>3 DEF Whole
    <2> QED BY <1>1, <1>2, <1>3, <2>1 DEF FramesInOrder, Ordered, Panicked
  <1>4. CASE wire' = Append(wire, [frame |-> want[w], half |-> 2])
    <2> DEFINE n == Len(wire)
    <2>1. want[w] \in StreamFrame
      BY DEF Base, TypeOK
    <2>2. /\ Whole' = Whole \cup {n + 1} /\ Whole \subseteq DOMAIN wire /\ n \in Nat
          /\ DOMAIN wire = 1..n /\ DOMAIN wire' = 1..n + 1
          /\ wire'[n + 1] = [frame |-> want[w], half |-> 2]
          /\ \A i \in DOMAIN wire : wire'[i] = wire[i]
      BY <1>4, <2>1, HalfTwo DEF Base
    <2>3. n > 0 /\ wire[n] = [frame |-> want[w], half |-> 1]
      <3>1. \A v \in Writer : pen[v] = "half" <=> mu = v
        BY DEF Base, LockHeld
      <3>2. mu = w /\ mu # None
        BY <1>1, <3>1, Writers
      <3>3. wire # <<>> /\ wire[n] = [frame |-> want[w], half |-> 1]
        BY <3>2 DEF Base, LockHeld
      <3> QED BY <2>2, <3>3 DEF Base, TypeOK
    <2> HIDE DEF n
    <2>4. /\ Ranked(want[w])
          /\ \A i \in Whole : MayPrecede(wire[i].frame, want[w])
          /\ at \in RunPhase => Rank(want[w].kind) = 1
      BY <1>1 DEF Ordered
    <2>5. ASSUME NEW i \in DOMAIN wire'
          PROVE  IF wire'[i].half = 1
                 THEN i = 1 \/ wire'[i - 1].half = 2
                 ELSE i > 1 /\ wire'[i - 1] = [frame |-> wire'[i].frame, half |-> 1]
      <3>1. CASE i = n + 1
        <4>1. n \in DOMAIN wire /\ i - 1 = n /\ i > 1
          BY <2>2, <2>3, <3>1
        <4> QED BY <2>2, <2>3, <3>1, <4>1
      <3>2. CASE i \in DOMAIN wire
        <4>1. i = 1 \/ (i > 1 /\ i - 1 \in DOMAIN wire)
          BY <2>2, <3>2
        <4>2. wire'[i] = wire[i] /\ (i > 1 => wire'[i - 1] = wire[i - 1])
          BY <2>2, <3>2, <4>1
        <4>3. IF wire[i].half = 1
              THEN i = 1 \/ wire[i - 1].half = 2
              ELSE i > 1 /\ wire[i - 1] = [frame |-> wire[i].frame, half |-> 1]
          BY <3>2 DEF FramesInOrder
        <4> QED BY <4>1, <4>2, <4>3
      <3> QED BY <2>2, <2>5, <3>1, <3>2
    <2>6. ASSUME NEW i \in Whole', NEW j \in DOMAIN wire', i < j
          PROVE  MayPrecede(wire'[i].frame, wire'[j].frame)
      <3>1. i \in Whole
        BY <2>2, <2>6
      <3>2. CASE j = n + 1
        BY <2>2, <2>4, <3>1, <3>2
      <3>3. CASE j \in DOMAIN wire
        BY <2>2, <2>6, <3>1, <3>3 DEF FramesInOrder
      <3> QED BY <2>2, <2>6, <3>2, <3>3
    <2>7. FramesInOrder'
      BY <2>5, <2>6 DEF FramesInOrder
    <2>8. \A i \in Whole' : (i \in Whole /\ wire'[i].frame = wire[i].frame)
                            \/ wire'[i].frame = want[w]
      BY <2>2
    <2>9. \A i \in DOMAIN wire' : Ranked(wire'[i].frame)
      BY <2>2, <2>4 DEF Ordered
    <2>10. \A v \in Writer : Busy(v)' =>
             /\ Ranked(want[v])
             /\ \A i \in Whole' : MayPrecede(wire'[i].frame, want[v])
             /\ at \in RunPhase => Rank(want[v].kind) = 1
      <3> SUFFICES ASSUME NEW v \in Writer, Busy(v)'
                   PROVE  /\ Ranked(want[v])
                          /\ \A i \in Whole' : MayPrecede(wire'[i].frame, want[v])
                          /\ at \in RunPhase => Rank(want[v].kind) = 1
        OBVIOUS
      <3>1. v # w /\ Busy(v) /\ at \in RunPhase
        BY <1>1, <1>2, Alone
      <3>2. Rank(want[v].kind) = 1 /\ Rank(want[w].kind) = 1
        BY <1>1, <3>1 DEF Ordered
      <3>3. MayPrecede(want[w], want[v])
        BY <3>2 DEF MayPrecede
      <3> QED BY <2>8, <3>1, <3>2, <3>3 DEF Ordered
    <2>11. \A k \in DOMAIN todo :
             \A i \in Whole' : MayPrecede(wire'[i].frame, todo[k])
      <3> SUFFICES ASSUME NEW k \in DOMAIN todo PROVE MayPrecede(want[w], todo[k])
        BY <2>8 DEF Ordered
      <3>1. CASE w = Handler
        BY <1>1, <3>1 DEF Ordered
      <3>2. CASE w # Handler
        <4>1. at \in RunPhase
          BY <1>1, <3>2, Alone
        <4>2. Rank(want[w].kind) = 1 /\ Rank(todo[k].kind) = 1
          BY <1>1, <4>1 DEF Ordered
        <4> QED BY <4>2 DEF MayPrecede
      <3> QED BY <3>1, <3>2
    <2>12. at \in RunPhase \cup {"opened"} =>
             \A i \in Whole' : Rank(wire'[i].frame.kind) \in {0, 1}
      <3> SUFFICES ASSUME at \in RunPhase \cup {"opened"}
                   PROVE  Rank(want[w].kind) \in {0, 1}
        BY <2>8 DEF Ordered
      <3>1. want[w].kind \in Permitted
        BY <1>1 DEF ToldSoFar
      <3>2. ~Closed
        BY DEF Closed, RunPhase
      <3> QED BY <3>1, <3>2, Ranks DEF Permitted
    <2> QED BY <1>1, <1>2, <2>7, <2>9, <2>10, <2>11, <2>12 DEF Ordered, Panicked
  <1> QED BY <1>3, <1>4, FinishIs

\* What closes the stream is in order.
LEMMA ClosingOrdered ==
  ASSUME NEW n \in 0..MaxPieces, NEW frames, frames = Closing(n)
  PROVE  \A k \in DOMAIN frames :
           /\ Rank(frames[k].kind) \in 2..5
           /\ \A l \in DOMAIN frames : k < l => MayPrecede(frames[k], frames[l])
  <1>1. n \in Nat
    BY StreamAssumption
  <1>2. CASE outcome = "failed"
    <2>1. frames = <<>> \/ frames = <<Frame("error"), Frame("done")>>
      BY <1>1, <1>2, ClosingIs
    <2>2. Rank(Frame("error").kind) = 3 /\ Rank(Frame("done").kind) = 5
      BY Ranks DEF Frame, EventFrame
    <2> HIDE DEF Frame
    <2>3. \A k \in DOMAIN frames :
            \/ k = 1 /\ frames[k] = Frame("error")
            \/ k = 2 /\ frames[k] = Frame("done")
      BY <2>1
    <2> QED BY <2>2, <2>3 DEF MayPrecede
  <1>3. CASE outcome # "failed"
    <2> DEFINE l == n + IF options.usage THEN 3 ELSE 2
    <2>1. /\ DOMAIN frames = 1..l
          /\ \A i \in 1..n : frames[i] = Frame("content")
          /\ frames[n + 1] = Frame("finish")
          /\ options.usage => frames[n + 2] = Frame("usage")
          /\ frames[l] = Frame("done")
      BY <1>1, <1>3, ClosingIs
    <2>2. \/ l = n + 3 /\ options.usage
          \/ l = n + 2
      OBVIOUS
    <2>3. /\ Rank(Frame("content").kind) = 2 /\ Rank(Frame("finish").kind) = 3
          /\ Rank(Frame("usage").kind) = 4 /\ Rank(Frame("done").kind) = 5
      BY Ranks DEF Frame, EventFrame
    <2> HIDE DEF l, Frame
    <2>4. \A k \in DOMAIN frames :
            \/ k \in 1..n /\ Rank(frames[k].kind) = 2
            \/ k = n + 1 /\ Rank(frames[k].kind) = 3
            \/ k = n + 2 /\ k < l /\ Rank(frames[k].kind) = 4
            \/ k = l /\ k > n + 1 /\ Rank(frames[k].kind) = 5
      BY <1>1, <2>1, <2>2, <2>3
    <2>5. DOMAIN frames \subseteq Nat /\ l \in Nat
      BY <1>1, <2>1, <2>2
    <2> QED BY <1>1, <2>1, <2>2, <2>4, <2>5 DEF MayPrecede
  <1> QED BY <1>2, <1>3

\* Before a stream is opened there is no frame but the one object.
LEMMA FrontInOrder ==
  ASSUME Base, ReplyJSON \/ UNCHANGED <<want, pen, wire, todo>>,
         at \in Early, at' \in Early \cup {"returned"}
  PROVE  FramesInOrder' /\ Ordered'
  <1>1. todo = <<>> /\ wire = <<>> /\ \A w \in Writer : ~Busy(w)
    BY DEF Base, Disciplined
  <1>2. at' \notin RunPhase \cup {"opened"}
    BY DEF Early, RunPhase
  <1>3. CASE UNCHANGED <<want, pen, wire, todo>>
    <2>1. /\ DOMAIN wire' = {} /\ Whole' = {} /\ DOMAIN todo' = {}
          /\ \A w \in Writer : ~Busy(w)'
      BY <1>1, <1>3 DEF Whole, Busy
    <2> QED BY <1>2, <2>1 DEF FramesInOrder, Ordered
  <1>4. CASE ReplyJSON
    <2>1. /\ DOMAIN wire' = {1, 2} /\ DOMAIN todo' = {}
          /\ wire'[1] = [frame |-> Frame("json"), half |-> 1]
          /\ wire'[2] = [frame |-> Frame("json"), half |-> 2]
          /\ \A w \in Writer : ~Busy(w)'
      BY <1>1, <1>4 DEF ReplyJSON, Busy
    <2>2. Whole' = {2}
      BY <2>1 DEF Whole
    <2>3. Ranked(Frame("json"))
      BY Ranks DEF Ranked, Frame, EventFrame
    <2>4. FramesInOrder'
      BY <2>1, <2>2 DEF FramesInOrder
    <2>5. Ordered'
      BY <1>2, <2>1, <2>2, <2>3 DEF Ordered
    <2> QED BY <2>4, <2>5
  <1> QED BY <1>3, <1>4

\* The handler goes on with its run, with more to write or not.
LEMMA HandlerInOrder ==
  ASSUME Base, FramesInOrder, Ordered, NEW calls \in SUBSET Call,
         \/ Open \/ StartKeepalive \/ BeginTurn \/ StopAtCeiling \/ Answer
         \/ UpstreamFails \/ EndTurn \/ AskForTools(calls) \/ CloseStop
         \/ KeepaliveStopped \/ Return
  PROVE  FramesInOrder' /\ Ordered'
  <1>1. /\ UNCHANGED <<want, pen, wire, gone>>
        /\ outcome' = outcome \/ ~Panicked
    BY DEF Open, StartKeepalive, BeginTurn, StopAtCeiling, Answer, UpstreamFails, EndTurn,
           AskForTools, CloseStop, KeepaliveStopped, Return, Done, runVars, writeVars,
           Panicked, Base, Disciplined
  <1> SUFFICES ASSUME ~Panicked PROVE FramesInOrder' /\ Ordered'
    BY <1>1 DEF FramesInOrder, Ordered, Panicked
  <1>2. Whole' = Whole /\ \A w \in Writer : Busy(w)' <=> Busy(w)
    BY <1>1 DEF Whole, Busy
  <1>3. FramesInOrder'
    BY <1>1, <1>2 DEF FramesInOrder
  <1>4. CASE Open
    <2>1. /\ todo' = <<Frame("role")>> /\ at' = "opened" /\ DOMAIN wire = {} /\ Whole = {}
          /\ \A w \in Writer : ~Busy(w)
      BY <1>4 DEF Open, Base, Disciplined, Early, Whole
    <2>2. DOMAIN todo' = {1} /\ todo'[1] = Frame("role") /\ Ranked(Frame("role"))
      BY <2>1, Ranks DEF Ranked, Frame, EventFrame
    <2>3. at' \notin RunPhase /\ Handler \in Writer
      BY <2>1, Writers DEF RunPhase
    <2> QED BY <1>1, <1>2, <1>3, <2>1, <2>2, <2>3 DEF Ordered
  <1>5. CASE UNCHANGED todo /\ (at' \in RunPhase => at \in RunPhase \/ (at = "opened" /\ Ready))
                            /\ at' # "opened"
    <2>1. at' \in RunPhase /\ at \notin RunPhase =>
            at = "opened" /\ todo = <<>> /\ \A w \in Writer : ~Busy(w)
      BY <1>5, Alone, Writers DEF Ready, Busy
    <2>2. at' \in RunPhase =>
            /\ \A w \in Writer : Busy(w) => Rank(want[w].kind) = 1
            /\ \A k \in DOMAIN todo : Rank(todo[k].kind) = 1
            /\ \A i \in Whole : Rank(wire[i].frame.kind) \in {0, 1}
      BY <2>1 DEF Ordered
    <2>3. Busy(Handler)' <=> Busy(Handler)
      BY <1>2, Writers
    <2>4. /\ \A i \in DOMAIN wire : Ranked(wire[i].frame)
          /\ \A w \in Writer : Busy(w) =>
               /\ Ranked(want[w])
               /\ \A i \in Whole : MayPrecede(wire[i].frame, want[w])
          /\ \A k \in DOMAIN todo :
               /\ Ranked(todo[k])
               /\ \A i \in Whole : MayPrecede(wire[i].frame, todo[k])
               /\ Busy(Handler) => MayPrecede(want[Handler], todo[k])
               /\ \A l \in DOMAIN todo : k < l => MayPrecede(todo[k], todo[l])
      BY DEF Ordered
    <2> HIDE DEF Busy
    <2>5. at' \in RunPhase \cup {"opened"} => at' \in RunPhase
      BY <1>5
    <2> QED BY <1>1, <1>2, <1>3, <1>5, <2>2, <2>3, <2>4, <2>5 DEF Ordered
  <1>6. ASSUME NEW f, todo' = <<>> \/ todo' = <<f>>, Rank(f.kind) = 1,
               at \in RunPhase, at' \in RunPhase, Ready
        PROVE  FramesInOrder' /\ Ordered'
    <2>1. \A k \in DOMAIN todo' : k = 1 /\ todo'[k] = f
      BY <1>6
    <2>2. \A i \in Whole : MayPrecede(wire[i].frame, f)
      BY <1>6 DEF Ordered, MayPrecede
    <2>3. ~Busy(Handler) /\ Ranked(f)
      BY <1>6 DEF Ready, Busy, Ranked
    <2>4. Handler \in Writer
      BY Writers
    <2> HIDE DEF Busy
    <2> QED BY <1>1, <1>2, <1>3, <1>6, <2>1, <2>2, <2>3, <2>4 DEF Ordered
  <1>7. CASE BeginTurn
    <2> DEFINE f == EventFrame("turn_start", turn + 1, None)
    <2>1. todo' = <<>> \/ todo' = <<f>>
      BY <1>7 DEF BeginTurn, Emit
    <2>2. Rank(f.kind) = 1
      BY Ranks DEF EventFrame, EventKind
    <2> HIDE DEF f
    <2> QED BY <1>6, <1>7, <2>1, <2>2 DEF BeginTurn, RunPhase
  <1>8. CASE StopAtCeiling \/ Answer
    <2> DEFINE f == EventFrame("done_event", turn, None)
    <2>1. todo' = <<>> \/ todo' = <<f>>
      BY <1>8 DEF StopAtCeiling, Answer, Done, Emit
    <2>2. Rank(f.kind) = 1
      BY Ranks DEF EventFrame, EventKind
    <2> HIDE DEF f
    <2> QED BY <1>6, <1>8, <2>1, <2>2 DEF StopAtCeiling, Answer, Done, RunPhase
  <1>9. CASE KeepaliveStopped
    <2>1. PICK n \in 0..MaxPieces : todo' = Closing(n)
      BY <1>9 DEF KeepaliveStopped
    <2>2. at = "stopping" /\ at' = "closing" /\ \A w \in Writer : ~Busy(w)
      BY <1>9, Writers DEF KeepaliveStopped, Base, Disciplined, Ready, Busy
    <2>3. \A i \in Whole : Rank(wire[i].frame.kind) \in {0, 1}
      BY <2>2 DEF Ordered, RunPhase
    <2>4. \A k \in DOMAIN todo' :
            /\ Rank(todo'[k].kind) \in 2..5
            /\ \A l \in DOMAIN todo' : k < l => MayPrecede(todo'[k], todo'[l])
      BY <2>1, ClosingOrdered
    <2>5. \A k \in DOMAIN todo' :
            /\ Ranked(todo'[k])
            /\ \A i \in Whole : MayPrecede(wire[i].frame, todo'[k])
      BY <2>3, <2>4 DEF Ranked, MayPrecede
    <2>6. at' \notin RunPhase \cup {"opened"} /\ Handler \in Writer
      BY <2>2, Writers DEF RunPhase
    <2> QED BY <1>1, <1>2, <1>3, <2>2, <2>4, <2>5, <2>6 DEF Ordered
  <1>10. CASE StartKeepalive \/ UpstreamFails \/ EndTurn \/ AskForTools(calls) \/ CloseStop
              \/ Return
    BY <1>5, <1>10 DEF StartKeepalive, UpstreamFails, EndTurn, AskForTools, CloseStop, Return,
                       RunPhase
  <1> QED BY <1>4, <1>7, <1>8, <1>9, <1>10
-----------------------------------------------------------------------------
(* What the client has been told.                                          *)

LEMMA PermittedKept ==
  ASSUME options' = options, outcome' = outcome, Closed' <=> Closed
  PROVE  Permitted' = Permitted
  BY DEF Permitted

LEMMA ProgressTold ==
  ASSUME Base, ToldSoFar, NEW w \in Writer, w # Handler, at \in RunPhase \/ Panicked,
         UNCHANGED <<options, at, outcome, todo, wire, err, gone>>,
         \A v \in Writer \ {w} : pen'[v] = pen[v] /\ want'[v] = want[v],
         \/ pen'[w] = "idle"
         \/ want'[w].kind \in EventKind \cup {"comment"}
  PROVE  ToldSoFar'
  <1> SUFFICES ASSUME ~Panicked PROVE ToldSoFar'
    BY DEF ToldSoFar, Panicked
  <1>1. at \in RunPhase /\ ~Closed /\ ~Closed' /\ at # "returned"
    BY DEF Closed, RunPhase
  <1>2. Permitted' = Permitted /\ Whole' = Whole
    BY <1>1, PermittedKept DEF Whole
  <1>3. \A v \in Writer : Busy(v)' => want'[v].kind \in Permitted
    <2>1. EventKind \cup {"comment"} \subseteq Permitted
      BY DEF Permitted
    <2> QED BY <1>1, <2>1 DEF ToldSoFar, Busy
  <1>4. Owed("role") => Owed("role")'
    BY <1>2, Writers DEF Owed, Told, Busy
  <1> QED BY <1>1, <1>2, <1>3, <1>4 DEF ToldSoFar

LEMMA SendTold == ASSUME Base, ToldSoFar, Send PROVE ToldSoFar'
  <1>1. /\ UNCHANGED <<wire, at, options, outcome, gone, err>>
        /\ at = "returned" => Panicked
        /\ ~Busy(Handler) /\ Busy(Handler)' /\ want'[Handler] = todo[1]
        /\ \A v \in Writer \ {Handler} : pen'[v] = pen[v] /\ want'[v] = want[v]
    BY SendIs, WriteIs, Writers DEF Base, Busy, runVars
  <1> SUFFICES ASSUME ~Panicked PROVE ToldSoFar'
    BY <1>1 DEF ToldSoFar, Panicked
  <1>2. (Closed' <=> Closed) /\ Permitted' = Permitted /\ Whole' = Whole
    BY <1>1, PermittedKept DEF Closed, Whole
  <1>3. Len(todo) \in Nat /\ DOMAIN todo = 1..Len(todo) /\ 1 \in DOMAIN todo
    BY SendIs DEF Base, TypeOK
  <1>4. /\ DOMAIN todo' = 1..Len(todo) - 1
        /\ \A k \in DOMAIN todo' : k + 1 \in DOMAIN todo /\ todo'[k] = todo[k + 1]
    BY SendIs, <1>3
  <1>5. \A k \in DOMAIN todo : k = 1 \/ (k - 1 \in DOMAIN todo' /\ todo'[k - 1] = todo[k])
    BY <1>3, <1>4
  <1>6. \A kind : Owed(kind) => Owed(kind)'
    BY <1>1, <1>2, <1>5 DEF Owed, Told
  <1>7. \A v \in Writer : Busy(v)' => v = Handler \/ (Busy(v) /\ want'[v] = want[v])
    BY <1>1 DEF Busy
  <1> QED BY <1>1, <1>2, <1>3, <1>4, <1>6, <1>7 DEF ToldSoFar, Panicked

LEMMA WriterTold == ASSUME Base, ToldSoFar, NEW w \in Writer, WriteStep(w) PROVE ToldSoFar'
  <1>1. /\ Busy(w)
        /\ \A v \in Writer \ {w} : pen'[v] = pen[v]
        /\ UNCHANGED <<options, want, at, outcome, todo, gone>>
    BY BeginIs, FinishIs DEF WriteStep, Busy
  <1> SUFFICES ASSUME ~Panicked PROVE ToldSoFar'
    BY <1>1 DEF ToldSoFar, Panicked
  <1>2. (Closed' <=> Closed) /\ Permitted' = Permitted
    BY <1>1, PermittedKept DEF Closed
  <1>3. \A v \in Writer : Busy(v)' => Busy(v)
    BY <1>1 DEF Busy
  <1>4. at # "returned"
    <2>1. at = "returned" => Ready
      BY DEF Base, Disciplined
    <2> QED BY <1>1, <2>1, Alone DEF Ready, Busy, RunPhase
  <1>5. ~gone' => ~err /\ ~err'
    <2>1. err => gone
      BY DEF Base, LockHeld
    <2> QED BY <1>1, <2>1, BeginIs, FinishIs DEF WriteStep
  <1>6. want[w] \in StreamFrame
    BY DEF Base, TypeOK
  <1>7. /\ \A i \in Whole' :
             \/ i \in Whole /\ wire'[i].frame = wire[i].frame
             \/ wire'[i].frame = want[w]
        /\ \A i \in Whole : i \in Whole' /\ wire'[i].frame = wire[i].frame
    <2>1. CASE wire' = wire
      BY <2>1 DEF Whole
    <2>2. CASE wire' = Append(wire, [frame |-> want[w], half |-> 1])
      <3>1. /\ Whole' = Whole /\ Whole \subseteq DOMAIN wire
            /\ \A i \in DOMAIN wire : wire'[i] = wire[i]
        BY <1>6, <2>2, HalfOne DEF Base
      <3> QED BY <3>1
    <2>3. CASE wire' = Append(wire, [frame |-> want[w], half |-> 2])
      <3>1. /\ Whole' = Whole \cup {Len(wire) + 1} /\ Whole \subseteq DOMAIN wire
            /\ \A i \in DOMAIN wire : wire'[i] = wire[i]
            /\ wire'[Len(wire) + 1] = [frame |-> want[w], half |-> 2]
        BY <1>6, <2>3, HalfTwo DEF Base
      <3> QED BY <3>1
    <2> QED BY <2>1, <2>2, <2>3, BeginIs, FinishIs DEF WriteStep
  <1>8. ASSUME NEW kind, Owed(kind), ~err'
        PROVE  Owed(kind)'
    <2>1. CASE Told(kind)
      BY <1>7, <2>1 DEF Told, Owed
    <2>2. CASE \E k \in DOMAIN todo : todo[k] = Frame(kind)
      BY <1>1, <2>2 DEF Owed
    <2>3. CASE Busy(Handler) /\ want[Handler] = Frame(kind)
      <3>1. CASE Busy(Handler)'
        BY <1>1, <2>3, <3>1 DEF Owed
      <3>2. CASE ~Busy(Handler)'
        <4>1. w = Handler
          BY <1>1, <2>3, <3>2, Writers DEF Busy
        <4>2. Finish(w)
          <5>1. ~Begin(w)
            <6> SUFFICES ASSUME Begin(w) PROVE FALSE
              OBVIOUS
            <6>1. ~err /\ pen'[w] = "idle"
              BY <1>8, <3>2, <4>1, BeginIs DEF Busy
            <6> QED BY <6>1, BeginIs
          <5> QED BY <5>1 DEF WriteStep
        <4>3. wire' = Append(wire, [frame |-> want[w], half |-> 2])
          BY <1>8, <4>2, FinishIs
        <4>4. /\ Whole' = Whole \cup {Len(wire) + 1}
              /\ wire'[Len(wire) + 1] = [frame |-> want[w], half |-> 2]
          BY <1>6, <4>3, HalfTwo DEF Base
        <4> QED BY <2>3, <4>1, <4>4 DEF Owed, Told
      <3> QED BY <3>1, <3>2
    <2> QED BY <1>8, <2>1, <2>2, <2>3 DEF Owed
  <1>9. ~err' => ~err
    BY BeginIs, FinishIs, Zenon DEF WriteStep, Base, TypeOK
  <1>10. Closed \/ at \in RunPhase \cup {"opened"} =>
           /\ \A i \in Whole' : wire'[i].frame.kind \in Permitted
           /\ \A v \in Writer : Busy(v)' => want[v].kind \in Permitted
    BY <1>1, <1>3, <1>7 DEF ToldSoFar
  <1> QED BY <1>1, <1>2, <1>4, <1>5, <1>8, <1>9, <1>10 DEF ToldSoFar, Panicked

LEMMA FrontTold ==
  ASSUME Base, at \in Early \ {"new"}, at' \in Early \cup {"returned"},
         at' = "returned" => options' = options /\ (ReplyJSON \/ gone')
  PROVE  ToldSoFar'
  <1>1. CASE at' \in Early
    BY <1>1 DEF ToldSoFar, Closed, Early, RunPhase
  <1>2. CASE at' = "returned"
    <2>1. ~options'.stream
      <3>1. at # "new" => options = NoOptions
        BY DEF Base, Disciplined
      <3>2. at # "new"
        OBVIOUS
      <3> QED BY <1>2, <3>1, <3>2, NoneAsked
    <2>2. ReplyJSON => /\ Whole' = {2}
                       /\ wire'[2].frame = Frame("json")
      <3> SUFFICES ASSUME ReplyJSON PROVE Whole' = {2} /\ wire'[2].frame = Frame("json")
        OBVIOUS
      <3>1. /\ DOMAIN wire' = {1, 2}
            /\ wire'[1] = [frame |-> Frame("json"), half |-> 1]
            /\ wire'[2] = [frame |-> Frame("json"), half |-> 2]
        BY DEF ReplyJSON
      <3> QED BY <3>1 DEF Whole
    <2>3. ~Closed'
      BY <1>2, <2>1 DEF Closed
    <2> QED BY <1>2, <2>1, <2>2, <2>3 DEF ToldSoFar, Told, RunPhase
  <1> QED BY <1>1, <1>2

\* What closes the stream says how the run ended, and no more.
LEMMA ClosingTells ==
  ASSUME NEW n \in 0..MaxPieces, todo' = Closing(n), outcome \in Ending, Closed',
         UNCHANGED <<options, outcome, gone>>
  PROVE  /\ \A k \in DOMAIN todo' : todo'[k].kind \in Permitted'
         /\ ~gone => /\ Owed("done")'
                     /\ outcome = "failed" => Owed("error")'
                     /\ outcome = "answered" => Owed("finish")'
                     /\ outcome = "answered" /\ options.usage => Owed("usage")'
  <1>1. n \in Nat
    BY StreamAssumption
  <1>2. /\ Frame("error").kind = "error" /\ Frame("done").kind = "done"
        /\ Frame("content").kind = "content" /\ Frame("finish").kind = "finish"
        /\ Frame("usage").kind = "usage"
    BY DEF Frame, EventFrame
  <1>3. CASE outcome = "failed"
    <2>1. /\ gone => todo' = <<>>
          /\ ~gone => todo' = <<Frame("error"), Frame("done")>>
      BY <1>1, <1>3, ClosingIs
    <2> HIDE DEF Frame
    <2>2. /\ \A k \in DOMAIN todo' : todo'[k] = Frame("error") \/ todo'[k] = Frame("done")
          /\ ~gone => /\ 1 \in DOMAIN todo' /\ todo'[1] = Frame("error")
                      /\ 2 \in DOMAIN todo' /\ todo'[2] = Frame("done")
      BY <2>1
    <2>3. {"error", "done"} \subseteq Permitted'
      BY <1>3 DEF Permitted
    <2>4. \A k \in DOMAIN todo' : todo'[k].kind \in Permitted'
      BY <1>2, <2>2, <2>3
    <2>5. ~gone => Owed("done")' /\ Owed("error")'
      BY <2>2 DEF Owed
    <2> QED BY <1>3, <2>4, <2>5
  <1>4. CASE outcome = "answered"
    <2> DEFINE l == n + IF options.usage THEN 3 ELSE 2
    <2>1. /\ DOMAIN todo' = 1..l
          /\ \A i \in 1..n : todo'[i] = Frame("content")
          /\ todo'[n + 1] = Frame("finish")
          /\ options.usage => todo'[n + 2] = Frame("usage")
          /\ todo'[l] = Frame("done")
      BY <1>1, <1>4, ClosingIs
    <2>2. \/ l = n + 3 /\ options.usage
          \/ l = n + 2 /\ ~options.usage
      OBVIOUS
    <2> HIDE DEF l, Frame
    <2>3. \A k \in DOMAIN todo' :
            \/ todo'[k] \in {Frame("content"), Frame("finish"), Frame("done")}
            \/ options.usage /\ todo'[k] = Frame("usage")
      BY <1>1, <2>1, <2>2
    <2>4. /\ {"content", "finish", "done"} \subseteq Permitted'
          /\ options.usage => "usage" \in Permitted'
      BY <1>4 DEF Permitted
    <2>5. \A k \in DOMAIN todo' : todo'[k].kind \in Permitted'
      BY <1>2, <2>3, <2>4
    <2>6. n + 1 \in DOMAIN todo' /\ l \in DOMAIN todo' /\ (options.usage => n + 2 \in DOMAIN todo')
      BY <1>1, <2>1, <2>2
    <2>7. Owed("done")' /\ Owed("finish")' /\ (options.usage => Owed("usage")')
      BY <2>1, <2>6 DEF Owed
    <2> QED BY <1>4, <2>5, <2>7
  <1> QED BY <1>3, <1>4 DEF Ending

LEMMA HandlerTold ==
  ASSUME Base, ToldSoFar, NEW calls \in SUBSET Call,
         \/ Open \/ StartKeepalive \/ BeginTurn \/ StopAtCeiling \/ Answer
         \/ UpstreamFails \/ EndTurn \/ AskForTools(calls) \/ CloseStop
         \/ KeepaliveStopped \/ Return
  PROVE  ToldSoFar'
  <1>1. /\ UNCHANGED <<options, want, pen, wire, gone, err>>
        /\ outcome' = outcome \/ ~Panicked
        /\ options.stream
    <2>1. options.stream
      BY DEF Open, StartKeepalive, BeginTurn, StopAtCeiling, Answer, UpstreamFails, EndTurn,
             AskForTools, CloseStop, KeepaliveStopped, Return, Base, Disciplined, Control
    <2> QED BY <2>1
         DEF Open, StartKeepalive, BeginTurn, StopAtCeiling, Answer, UpstreamFails, EndTurn,
             AskForTools, CloseStop, KeepaliveStopped, Return, Done, runVars, writeVars,
             Panicked, Base, Disciplined
  <1> SUFFICES ASSUME ~Panicked PROVE ToldSoFar'
    BY <1>1 DEF ToldSoFar, Panicked
  <1>2. Whole' = Whole /\ \A w \in Writer : Busy(w)' <=> Busy(w)
    BY <1>1 DEF Whole, Busy
  <1>3. CASE Open
    <2>1. /\ todo' = <<Frame("role")>> /\ at' = "opened" /\ Whole = {}
          /\ \A w \in Writer : ~Busy(w)
      BY <1>3 DEF Open, Base, Disciplined, Early, Whole
    <2>2. DOMAIN todo' = {1} /\ todo'[1] = Frame("role") /\ Frame("role").kind = "role"
      BY <2>1 DEF Frame, EventFrame
    <2>3. Owed("role")'
      BY <2>2 DEF Owed
    <2>4. ~Closed' /\ "role" \in Permitted'
      BY <2>1 DEF Closed, Permitted
    <2> QED BY <1>1, <1>2, <2>1, <2>2, <2>3, <2>4 DEF ToldSoFar
  <1>4. ASSUME at \in RunPhase \cup {"opened"}, at' \in RunPhase \cup {"opened"},
               \A k \in DOMAIN todo' : todo'[k].kind \in EventKind, todo = <<>>
        PROVE  ToldSoFar'
    <2>1. ~Closed /\ ~Closed' /\ at' # "returned"
      BY <1>4 DEF Closed, RunPhase
    <2>2. /\ Permitted' = Permitted /\ EventKind \subseteq Permitted
      BY <2>1 DEF Permitted
    <2>3. Owed("role") => Owed("role")'
      <3>1. Owed("role") => Told("role") \/ (Busy(Handler) /\ want[Handler] = Frame("role"))
        BY <1>4 DEF Owed
      <3>2. Handler \in Writer
        BY Writers
      <3> QED BY <1>1, <1>2, <3>1, <3>2 DEF Owed, Told
    <2> HIDE DEF Busy
    <2> QED BY <1>1, <1>2, <1>4, <2>1, <2>2, <2>3 DEF ToldSoFar
  <1>5. CASE BeginTurn
    <2>1. \A k \in DOMAIN todo' : todo'[k].kind = "turn_start"
      BY <1>5 DEF BeginTurn, Emit, EventFrame
    <2> QED BY <1>4, <1>5, <2>1 DEF BeginTurn, RunPhase, EventKind, Ready
  <1>6. CASE StopAtCeiling \/ Answer
    <2>1. \A k \in DOMAIN todo' : todo'[k].kind = "done_event"
      BY <1>6 DEF StopAtCeiling, Answer, Done, Emit, EventFrame
    <2> QED BY <1>4, <1>6, <2>1 DEF StopAtCeiling, Answer, Done, RunPhase, EventKind, Ready
  <1>7. CASE StartKeepalive \/ UpstreamFails \/ EndTurn \/ AskForTools(calls) \/ CloseStop
    <2>1. todo = <<>> /\ todo' = todo
      BY <1>7 DEF StartKeepalive, UpstreamFails, EndTurn, AskForTools, CloseStop, Ready,
                  Base, Disciplined
    <2> QED BY <1>4, <1>7, <2>1 DEF StartKeepalive, UpstreamFails, EndTurn, AskForTools,
                                    CloseStop, RunPhase
  <1>8. CASE KeepaliveStopped
    <2>1. PICK n \in 0..MaxPieces : todo' = Closing(n)
      BY <1>8 DEF KeepaliveStopped
    <2>2. /\ at = "stopping" /\ at' = "closing" /\ \A w \in Writer : ~Busy(w)
          /\ todo = <<>> /\ outcome' = outcome /\ outcome \in Ending
      BY <1>8, Writers DEF KeepaliveStopped, Base, Disciplined, Ready, Busy, runVars
    <2>3. Closed' /\ ~Closed
      BY <2>2 DEF Closed
    <2>4. Permitted \subseteq Permitted'
      BY <2>3 DEF Permitted
    <2>5. ~err => Owed("role")'
      <3>1. ~err => Owed("role")
        BY <2>2 DEF ToldSoFar, RunPhase
      <3>2. Handler \in Writer
        BY Writers
      <3> QED BY <1>1, <1>2, <2>2, <3>1, <3>2 DEF Owed, Told
    <2>6. /\ \A k \in DOMAIN todo' : todo'[k].kind \in Permitted'
          /\ ~gone => /\ Owed("done")'
                      /\ outcome = "failed" => Owed("error")'
                      /\ outcome = "answered" => Owed("finish")'
                      /\ outcome = "answered" /\ options.usage => Owed("usage")'
      BY <1>1, <2>1, <2>2, <2>3, ClosingTells
    <2> HIDE DEF Busy
    <2> QED BY <1>1, <1>2, <2>2, <2>3, <2>4, <2>5, <2>6 DEF ToldSoFar, RunPhase
  <1>9. CASE Return
    <2>1. /\ at = "closing" /\ at' = "returned" /\ todo' = todo /\ outcome' = outcome
      BY <1>9 DEF Return, Base, Disciplined, runVars
    <2>2. Closed /\ Closed'
      BY <1>1, <2>1 DEF Closed
    <2>3. Permitted' = Permitted
      BY <1>1, <2>1, <2>2, PermittedKept
    <2>4. \A kind : Owed(kind) => Owed(kind)'
      <3>1. Handler \in Writer
        BY Writers
      <3> HIDE DEF Busy
      <3> QED BY <1>1, <1>2, <2>1, <3>1 DEF Owed, Told
    <2> HIDE DEF Busy
    <2> QED BY <1>1, <1>2, <2>1, <2>2, <2>3, <2>4 DEF ToldSoFar
  <1> QED BY <1>3, <1>5, <1>6, <1>7, <1>8, <1>9
-----------------------------------------------------------------------------
(* The events.                                                             *)

LEMMA EventFields ==
  \A kind, k, c :
    /\ EventFrame(kind, k, c).kind = kind /\ EventFrame(kind, k, c).turn = k
    /\ EventFrame(kind, k, c).call = c
    /\ \A other : [EventFrame(kind, k, c) EXCEPT !.kind = other] = EventFrame(other, k, c)
  BY DEF EventFrame

\* A step that sends no event whole.
SameEvents == Events' = Events /\ \A i \in Events : wire'[i].frame = wire[i].frame

LEMMA WireKept == ASSUME UNCHANGED wire PROVE SameEvents
  BY DEF SameEvents, Events, Whole

LEMMA EventTypes ==
  ASSUME TypeOK
  PROVE  \A i \in Events : i \in Nat /\ i \in Whole /\ wire[i].frame \in StreamFrame
                           /\ wire[i].frame.turn \in Nat
  <1>1. \A i \in Events : i \in DOMAIN wire /\ i \in Whole
    BY DEF Events, Whole
  <1>2. \A i \in DOMAIN wire : i \in Nat /\ wire[i] \in Piece
    BY DEF TypeOK
  <1>3. \A p \in Piece : p.frame \in StreamFrame
    BY DEF Piece
  <1>4. \A f \in StreamFrame : f.turn \in Nat
    BY DEF StreamFrame
  <1> QED BY <1>1, <1>2, <1>3, <1>4

LEMMA OnWireKept == ASSUME SameEvents PROVE \A f : OnWire(f)' <=> OnWire(f)
  BY DEF SameEvents, OnWire

LEMMA NestKept == ASSUME EventsNest, SameEvents PROVE EventsNest'
  BY DEF EventsNest, SameEvents

\* What has been reported stays so, while no call is forgotten.
LEMMA ReportedKept ==
  ASSUME TypeOK, Reported, SameEvents,
         turn' \in Nat, turn <= turn', outcome # None => outcome' # None,
         options' = options, err => err',
         \A c \in Call :
           Events # {} /\ Ongoing(c) => err' \/ (Ongoing(c)' /\ turn' = turn)
  PROVE  Reported'
  <1>1. Events' # {} => options'.events
    BY DEF Reported, SameEvents
  <1>2. ASSUME NEW i \in Events'
        PROVE  /\ wire'[i].frame.turn <= turn'
               /\ wire'[i].frame.kind = "done_event" => outcome' # None
               /\ wire'[i].frame.kind = "tool_start" =>
                    /\ Closes(i)'
                    /\ \E c \in Call :
                         wire'[i].frame = EventFrame("tool_start", wire'[i].frame.turn, c)
    <2>1. i \in Events /\ wire'[i].frame = wire[i].frame
      BY <1>2 DEF SameEvents
    <2>2. /\ wire[i].frame.turn <= turn
          /\ wire[i].frame.kind = "done_event" => outcome # None
          /\ wire[i].frame.kind = "tool_start" =>
               /\ Closes(i)
               /\ \E c \in Call :
                    wire[i].frame = EventFrame("tool_start", wire[i].frame.turn, c)
      BY <2>1 DEF Reported
    <2>3. wire[i].frame.turn \in Nat /\ turn \in Nat
      BY <2>1, EventTypes DEF TypeOK
    <2>4. Closes(i) => Closes(i)'
      <3>1. ASSUME NEW k \in Events, i < k,
                   wire[k].frame = [wire[i].frame EXCEPT !.kind = "tool_end"]
            PROVE  Closes(i)'
        BY <2>1, <3>1 DEF Closes, SameEvents
      <3>2. ASSUME NEW c \in Call, Ongoing(c), wire[i].frame = Start(c)
            PROVE  Closes(i)'
        <4>1. CASE err'
          BY <4>1 DEF Closes
        <4>2. CASE Ongoing(c)' /\ turn' = turn
          <5>1. wire'[i].frame = Start(c)'
            BY <2>1, <3>2, <4>2 DEF Start
          <5> QED BY <4>2, <5>1 DEF Closes
        <4> QED BY <2>1, <3>2, <4>1, <4>2
      <3>3. CASE err
        BY <3>3 DEF Closes
      <3> QED BY <3>1, <3>2, <3>3 DEF Closes
    <2> QED BY <2>1, <2>2, <2>3, <2>4
  <1> QED BY <1>1, <1>2 DEF Reported

LEMMA TimerNested == ASSUME Base, Nested, Tick \/ TickerStops PROVE Nested'
  <1>1. /\ UNCHANGED <<options, turn, outcome, stage, at, todo, gone, err, wire>>
        /\ \A v \in Writer \ {Keepalive} : pen'[v] = pen[v] /\ want'[v] = want[v]
        /\ pen'[Keepalive] = "idle" \/ want'[Keepalive] = Frame("comment")
    BY TimerIs
  <1>2. SameEvents /\ \A f : OnWire(f)' <=> OnWire(f)
    BY <1>1, WireKept, OnWireKept
  <1>3. /\ \A c \in Call : (Busy(c)' <=> Busy(c)) /\ want'[c] = want[c]
        /\ (Busy(Handler)' <=> Busy(Handler)) /\ want'[Handler] = want[Handler]
        /\ pen'[Handler] = pen[Handler]
    BY <1>1, Writers DEF Busy
  <1>4. Reported'
    BY <1>1, <1>2, <1>3, ReportedKept DEF Nested, Base, TypeOK, Ongoing
  <1>5. Calling'
    <2>1. Busy(Keepalive)' => want'[Keepalive].kind = "comment"
      BY <1>1 DEF Busy, Frame, EventFrame
    <2> HIDE DEF Busy
    <2> QED BY <1>1, <1>2, <1>3, <2>1 DEF Nested, Calling, Start, End
  <1>6. Announcing'
    <2>1. (Ready' <=> Ready) /\ Announced' = Announced /\ TurnStart' = TurnStart
      BY <1>1, <1>3 DEF Ready, Announced, TurnStart
    <2> HIDE DEF Busy
    <2> QED BY <1>1, <1>2, <1>3, <2>1 DEF Nested, Announcing
  <1> QED BY <1>2, <1>4, <1>5, <1>6, NestKept DEF Nested

LEMMA SendNested == ASSUME Base, Nested, Send PROVE Nested'
  <1>1. /\ UNCHANGED <<options, turn, outcome, stage, at, gone, err, wire>>
        /\ at \notin Early \cup {"looping", "tools", "stopping"}
        /\ ~Busy(Handler) /\ Busy(Handler)' /\ want'[Handler] = todo[1] /\ todo # <<>>
        /\ \A v \in Writer \ {Handler} : pen'[v] = pen[v] /\ want'[v] = want[v]
    BY SendIs, WriteIs, Writers DEF Base, Busy, runVars
  <1>2. SameEvents /\ \A f : OnWire(f)' <=> OnWire(f)
    BY <1>1, WireKept, OnWireKept
  <1>3. /\ \A c \in Call : (Busy(c)' <=> Busy(c)) /\ want'[c] = want[c]
        /\ (Busy(Keepalive)' <=> Busy(Keepalive)) /\ want'[Keepalive] = want[Keepalive]
    BY <1>1, Writers DEF Busy
  <1>4. Reported'
    BY <1>1, <1>2, <1>3, ReportedKept DEF Nested, Base, TypeOK, Ongoing
  <1>5. Calling'
    <2> HIDE DEF Busy
    <2> QED BY <1>1, <1>2, <1>3 DEF Nested, Calling, Start, End
  <1>6. Announcing'
    <2>1. ~Ready /\ ~Ready' /\ Announced' = Announced
      BY <1>1 DEF Ready, Announced, TurnStart, Busy
    <2>2. Len(todo) \in Nat /\ DOMAIN todo = 1..Len(todo) /\ 1 \in DOMAIN todo
      BY SendIs DEF Base, TypeOK
    <2>3. /\ DOMAIN todo' = 1..Len(todo) - 1 /\ todo' \in Seq(StreamFrame)
          /\ \A k \in DOMAIN todo' : k + 1 \in DOMAIN todo /\ todo'[k] = todo[k + 1]
      BY SendIs, <2>2
    <2>4. at \in {"asked", "ran"} =>
            /\ todo' = <<>> /\ want'[Handler] = Announced
            /\ options.events /\ ~OnWire(Announced)
      <3> SUFFICES ASSUME at \in {"asked", "ran"}
                   PROVE  /\ todo' = <<>> /\ want'[Handler] = Announced
                          /\ options.events /\ ~OnWire(Announced)
        OBVIOUS
      <3>1. todo = <<Announced>> /\ options.events /\ ~OnWire(Announced)
        BY <1>1, <2>1 DEF Nested, Announcing
      <3> HIDE DEF Announced
      <3>2. Len(todo) = 1 /\ todo[1] = Announced
        BY <3>1
      <3> QED BY <1>1, <2>3, <3>1, <3>2
    <2>5. at \notin {"asked", "ran"} =>
            /\ want'[Handler].kind \notin EventKind
            /\ \A k \in DOMAIN todo' : todo'[k].kind \notin EventKind
      BY <1>1, <2>2, <2>3 DEF Nested, Announcing
    <2> HIDE DEF Busy
    <2> QED BY <1>1, <1>2, <2>1, <2>4, <2>5 DEF Announcing
  <1> QED BY <1>2, <1>4, <1>5, <1>6, NestKept DEF Nested

LEMMA ToolNested == ASSUME Base, Nested, NEW c \in Call, ToolStep(c) PROVE Nested'
  <1>1. /\ at = "tools" /\ ~Busy(c)
        /\ UNCHANGED <<options, turn, outcome, at, todo, err, wire>>
        /\ \A d \in Call \ {c} : stage'[d] = stage[d]
        /\ \A v \in Writer \ {c} : pen'[v] = pen[v] /\ want'[v] = want[v]
    BY ToolIs
  <1>2. /\ \/ stage[c] = "ready" /\ stage'[c] = "running"
           \/ stage[c] \in {"ready", "running"} /\ stage'[c] = "ending"
           \/ stage[c] = "ending" /\ stage'[c] = "over"
        /\ \/ /\ Busy(c)' /\ stage'[c] # "over" /\ options.events
              /\ want'[c] = IF stage'[c] = "running" THEN Start(c) ELSE End(c)
           \/ ~Busy(c)' /\ (stage'[c] = "ending" => ~options.events)
    BY ToolIs DEF Busy, Start, End
  <1>3. SameEvents /\ \A f : OnWire(f)' <=> OnWire(f)
    BY <1>1, WireKept, OnWireKept
  <1>4. /\ \A d \in Call \ {c} :
             (Busy(d)' <=> Busy(d)) /\ want'[d] = want[d] /\ stage'[d] = stage[d]
        /\ (Busy(Handler)' <=> Busy(Handler)) /\ want'[Handler] = want[Handler]
        /\ (Busy(Keepalive)' <=> Busy(Keepalive)) /\ want'[Keepalive] = want[Keepalive]
        /\ pen'[Handler] = pen[Handler]
    BY <1>1, Writers DEF Busy
  <1>5. \A d \in Call : Events # {} /\ Ongoing(d) => Ongoing(d)' /\ turn' = turn
    <2> SUFFICES ASSUME NEW d \in Call, Events # {}, Ongoing(d) PROVE Ongoing(d)'
      BY <1>1
    <2>1. options.events
      BY DEF Nested, Reported
    <2>2. CASE d = c
      <3>1. stage[c] = "running" /\ stage'[c] = "ending" /\ Busy(c)'
        BY <1>1, <1>2, <2>1, <2>2 DEF Ongoing
      <3> QED BY <1>1, <2>2, <3>1 DEF Ongoing
    <2>3. CASE d # c
      BY <1>1, <1>4, <2>3 DEF Ongoing
    <2> QED BY <2>2, <2>3
  <1>6. Reported'
    BY <1>1, <1>3, <1>5, ReportedKept DEF Nested, Base, TypeOK
  <1>7. Calling'
    <2>1. ASSUME NEW d \in Call
          PROVE  /\ Busy(d)' =>
                      /\ options.events /\ ~OnWire(want'[d])
                      /\ want'[d] = IF stage'[d] = "running" THEN Start(d) ELSE End(d)
                 /\ stage'[d] = "ready" => ~OnWire(Start(d))
                 /\ stage'[d] \in {"ready", "running"} => ~OnWire(End(d))
      <3>1. CASE d = c
        <4>1. /\ stage[c] = "ready" => ~OnWire(Start(c))
              /\ stage[c] \in {"ready", "running"} => ~OnWire(End(c))
          BY DEF Nested, Calling
        <4>2. CASE Busy(c)'
          <5>1. CASE stage'[c] = "running"
            BY <1>2, <3>1, <4>1, <4>2, <5>1
          <5>2. CASE stage'[c] # "running"
            BY <1>2, <3>1, <4>1, <4>2, <5>2
          <5> QED BY <5>1, <5>2
        <4>3. CASE ~Busy(c)'
          BY <1>2, <3>1, <4>1, <4>3
        <4> QED BY <4>2, <4>3
      <3>2. CASE d # c
        <4>1. /\ Busy(d) =>
                   /\ options.events /\ ~OnWire(want[d])
                   /\ want[d] = IF stage[d] = "running" THEN Start(d) ELSE End(d)
              /\ stage[d] = "ready" => ~OnWire(Start(d))
              /\ stage[d] \in {"ready", "running"} => ~OnWire(End(d))
          BY DEF Nested, Calling
        <4> HIDE DEF Busy
        <4> QED BY <1>4, <3>2, <4>1
      <3> QED BY <3>1, <3>2
    <2>2. at' # "asked" /\ (Busy(Keepalive)' => want'[Keepalive].kind = "comment")
      BY <1>1, <1>4 DEF Nested, Calling
    <2>3. \A d \in Call : Start(d)' = Start(d) /\ End(d)' = End(d)
      BY <1>1 DEF Start, End
    <2>4. \A f : OnWire(f)' <=> OnWire(f)
      BY <1>3
    <2> HIDE DEF Busy
    <2> QED BY <1>1, <2>1, <2>2, <2>3, <2>4 DEF Calling
  <1>8. Announcing'
    <2>1. (Ready' <=> Ready) /\ Announced' = Announced /\ TurnStart' = TurnStart
      BY <1>1, <1>4 DEF Ready, Announced, TurnStart
    <2> HIDE DEF Busy
    <2> QED BY <1>1, <1>3, <1>4, <2>1 DEF Nested, Announcing
  <1> QED BY <1>3, <1>6, <1>7, <1>8, NestKept DEF Nested

\* Steps of the front, and of one who does not write.
LEMMA FrontNested ==
  ASSUME Base, Base', ReplyJSON \/ UNCHANGED <<want, pen, wire, todo, err, stage>>,
         at \in Early \ {"new"}, at' \in Early \cup {"returned"}
  PROVE  Nested'
  <1>1. /\ todo = <<>> /\ wire = <<>> /\ \A w \in Writer : ~Busy(w)
        /\ \A c \in Call : stage[c] = "idle"
    BY DEF Base, Disciplined, Early
  <1>2. /\ todo' = <<>> /\ \A w \in Writer : ~Busy(w)'
        /\ \A c \in Call : stage'[c] = "idle"
    BY <1>1 DEF ReplyJSON, Busy
  <1>3. Events' = {}
    <2>1. \A i \in DOMAIN wire' : wire'[i].frame.kind = "json"
      <3>1. CASE ReplyJSON
        BY <3>1 DEF ReplyJSON, Frame, EventFrame
      <3>2. CASE wire' = wire
        BY <1>1, <3>2
      <3> QED BY <3>1, <3>2
    <2> QED BY <2>1 DEF Events, Whole, EventKind
  <1>4. at' \notin {"asked", "ran", "tools"} /\ Handler \in Writer /\ Keepalive \in Writer
        /\ Call \subseteq Writer
    BY Writers DEF Early
  <1>5. EventsNest'
    BY <1>3 DEF EventsNest
  <1>6. Reported'
    BY <1>3 DEF Reported
  <1>7. Calling'
    BY <1>2, <1>4 DEF Calling
  <1>8. Announcing'
    <2> HIDE DEF Busy
    <2> QED BY <1>2, <1>4 DEF Announcing
  <1> QED BY <1>5, <1>6, <1>7, <1>8 DEF Nested

LEMMA PanicNested == ASSUME Base, Nested, Panic PROVE Nested'
  <1>1. /\ at = "asked" /\ Ready /\ at' = "recovering" /\ outcome' = "panicked"
        /\ UNCHANGED <<options, turn, stage, todo, err>>
        /\ \A v \in Writer \ {Handler} : pen'[v] = pen[v] /\ want'[v] = want[v]
        /\ want'[Handler] = Frame("plain")
    BY Writers DEF Panic, Base, TypeOK
  <1>2. SameEvents
    <2>1. wire' = Append(wire, [frame |-> Frame("plain"), half |-> 1])
      BY DEF Panic
    <2>2. Frame("plain") \in StreamFrame
      BY FrameTypes DEF FrameKind
    <2>3. Whole' = Whole /\ \A i \in Whole : wire'[i] = wire[i]
      BY <2>1, <2>2, HalfOne DEF Base
    <2> QED BY <2>3 DEF SameEvents, Events
  <1>3. \A c \in Call : ~Busy(c) /\ ~Busy(c)' /\ stage[c] = "idle" /\ stage'[c] = "idle"
    BY <1>1, Writers DEF Base, Disciplined, Busy
  <1>4. Reported'
    <2>1. \A c \in Call : ~Ongoing(c)
      BY <1>1 DEF Ongoing
    <2>2. outcome' # None
      BY <1>1 DEF None
    <2> QED BY <1>1, <1>2, <2>1, <2>2, ReportedKept DEF Nested, Base, TypeOK
  <1>5. Calling'
    <2>1. (Busy(Keepalive)' <=> Busy(Keepalive)) /\ want'[Keepalive] = want[Keepalive]
      BY <1>1, Writers DEF Busy
    <2> HIDE DEF Busy
    <2> QED BY <1>1, <1>3, <2>1 DEF Nested, Calling
  <1>6. Announcing'
    <2>1. todo' = <<>> /\ want'[Handler].kind \notin EventKind
      BY <1>1 DEF Ready, Frame, EventFrame, EventKind
    <2> QED BY <1>1, <2>1 DEF Announcing
  <1> QED BY <1>2, <1>4, <1>5, <1>6, NestKept DEF Nested

LEMMA IdleNested == ASSUME Base, Nested, Leave \/ UNCHANGED vars PROVE Nested'
  <1>1. UNCHANGED <<options, at, turn, outcome, stage, todo, want, pen, err, wire>>
    BY DEF Leave, vars, runVars, writeVars
  <1>2. SameEvents /\ \A f : OnWire(f)' <=> OnWire(f)
    BY <1>1, WireKept, OnWireKept
  <1>3. Reported'
    BY <1>1, <1>2, ReportedKept DEF Nested, Base, TypeOK, Ongoing, Busy
  <1>4. Calling'
    BY <1>1, <1>2 DEF Nested, Calling, Start, End, Busy
  <1>5. Announcing'
    <2>1. (Ready' <=> Ready) /\ Announced' = Announced /\ TurnStart' = TurnStart
      BY <1>1 DEF Ready, Announced, TurnStart
    <2> QED BY <1>1, <1>2, <2>1 DEF Nested, Announcing, Busy
  <1> QED BY <1>2, <1>3, <1>4, <1>5, NestKept DEF Nested

\* An event that is sent whole.
LEMMA EventSent ==
  ASSUME TypeOK, NEW f \in StreamFrame, f.kind \in EventKind,
         wire' = Append(wire, [frame |-> f, half |-> 2])
  PROVE  LET n == Len(wire) + 1
         IN  /\ n \in Nat /\ Events' = Events \cup {n} /\ wire'[n].frame = f
             /\ \A i \in Events : i \in Nat /\ i < n /\ wire'[i].frame = wire[i].frame
             /\ \A g : OnWire(g)' <=> OnWire(g) \/ g = f
  <1> DEFINE n == Len(wire) + 1
  <1>1. /\ Whole' = Whole \cup {n} /\ Whole \subseteq DOMAIN wire
        /\ Len(wire) \in Nat /\ DOMAIN wire = 1..Len(wire)
        /\ wire'[n] = [frame |-> f, half |-> 2]
        /\ \A i \in DOMAIN wire : wire'[i] = wire[i]
    BY HalfTwo
  <1>2. n \in Nat /\ \A i \in DOMAIN wire : i \in Nat /\ i < n
    BY <1>1
  <1> HIDE DEF n
  <1>3. wire'[n].frame = f /\ \A i \in Whole : wire'[i] = wire[i] /\ i \in Nat /\ i < n
    <2>1. \A i \in Whole : i \in DOMAIN wire
      BY <1>1
    <2>2. wire'[n].frame = f
      <3>1. \A p : p = [frame |-> f, half |-> 2] => p.frame = f
        OBVIOUS
      <3> QED BY <1>1, <3>1, Zenon
    <2> QED BY <1>1, <1>2, <2>1, <2>2
  <1>4. Events' = Events \cup {n}
    BY <1>1, <1>3 DEF Events
  <1>5. \A i \in Events : i \in Nat /\ i < n /\ wire'[i].frame = wire[i].frame
    BY <1>3 DEF Events
  <1>6. \A g : OnWire(g)' <=> OnWire(g) \/ g = f
    BY <1>3, <1>4, <1>5 DEF OnWire
  <1> QED BY <1>2, <1>3, <1>4, <1>5, <1>6 DEF n

\* The events nest when a new one has its turn's start before it and, if it ends
\* or begins a turn, leaves no call unreported.
LEMMA NestGrows ==
  ASSUME TypeOK, EventsNest, Reported,
         NEW f \in StreamFrame, f.kind \in EventKind, f.turn = turn, ~OnWire(f),
         NEW n \in Nat, Events' = Events \cup {n}, wire'[n].frame = f,
         \A i \in Events : i \in Nat /\ i < n /\ wire'[i].frame = wire[i].frame,
         f.kind \in {"tool_start", "tool_end"} => OnWire(TurnStart),
         f.kind \in {"turn_start", "done_event"} => ~err /\ \A c \in Call : ~Ongoing(c)
  PROVE  EventsNest'
  <1>1. /\ n \in Nat /\ Events' = Events \cup {n} /\ wire'[n].frame = f
        /\ \A i \in Events : i \in Nat /\ i < n /\ wire'[i].frame = wire[i].frame
    OBVIOUS
  <1>2. ASSUME NEW i \in Events', NEW j \in Events', i < j
        PROVE  /\ wire'[i].frame.turn <= wire'[j].frame.turn
               /\ wire'[i].frame # wire'[j].frame
    <2>1. i \in Events
      BY <1>1, <1>2
    <2>2. CASE j = n
      <3>1. wire[i].frame # f
        BY <2>1 DEF OnWire
      <3> QED BY <1>1, <2>1, <2>2, <3>1 DEF Reported
    <2>3. CASE j \in Events
      BY <1>1, <1>2, <2>1, <2>3 DEF EventsNest
    <2> QED BY <1>1, <2>2, <2>3
  <1>3. ASSUME NEW j \in Events', wire'[j].frame.kind \in {"tool_start", "tool_end"}
        PROVE  \E i \in Events' :
                 i < j /\ wire'[i].frame = EventFrame("turn_start", wire'[j].frame.turn, None)
    <2>1. CASE j = n
      <3>1. PICK i \in Events : wire[i].frame = TurnStart
        BY <1>1, <1>3, <2>1 DEF OnWire
      <3>2. TurnStart = EventFrame("turn_start", wire'[j].frame.turn, None)
        BY <1>1, <2>1 DEF TurnStart
      <3> QED BY <1>1, <2>1, <3>1, <3>2
    <2>2. CASE j \in Events
      <3>1. PICK i \in Events :
              i < j /\ wire[i].frame = EventFrame("turn_start", wire[j].frame.turn, None)
        BY <1>1, <1>3, <2>2 DEF EventsNest
      <3> QED BY <1>1, <2>2, <3>1
    <2> QED BY <1>1, <2>1, <2>2
  <1>4. ASSUME NEW i \in Events', NEW j \in Events', wire'[i].frame.kind = "tool_start",
               wire'[j].frame.kind \in {"turn_start", "done_event"}, i < j
        PROVE  \E k \in Events' :
                 /\ i < k /\ k < j
                 /\ wire'[k].frame = [wire'[i].frame EXCEPT !.kind = "tool_end"]
    <2>1. i \in Events
      BY <1>1, <1>4
    <2>2. CASE j = n
      <3>1. Closes(i)
        BY <1>1, <1>4, <2>1 DEF Reported
      <3>2. ~err /\ \A c \in Call : ~Ongoing(c)
        BY <1>1, <1>4, <2>2
      <3>3. PICK k \in Events :
              i < k /\ wire[k].frame = [wire[i].frame EXCEPT !.kind = "tool_end"]
        BY <3>1, <3>2 DEF Closes
      <3> QED BY <1>1, <2>1, <2>2, <3>3
    <2>3. CASE j \in Events
      <3>1. PICK k \in Events :
              /\ i < k /\ k < j
              /\ wire[k].frame = [wire[i].frame EXCEPT !.kind = "tool_end"]
        BY <1>1, <1>4, <2>1, <2>3 DEF EventsNest
      <3> QED BY <1>1, <2>1, <3>1
    <2> QED BY <1>1, <2>2, <2>3
  <1> QED BY <1>2, <1>3, <1>4 DEF EventsNest

\* A half that completes no event, or a failure.
LEMMA QuietWriteNested ==
  ASSUME Base, Nested, NEW w \in Writer, Busy(w), SameEvents,
         \A v \in Writer \ {w} : pen'[v] = pen[v],
         UNCHANGED <<options, turn, outcome, stage, at, todo, want>>,
         err => err',
         err' \/ Busy(w)' \/ want[w].kind \notin EventKind
  PROVE  Nested'
  <1>1. \A f : OnWire(f)' <=> OnWire(f)
    BY OnWireKept
  <1>2. /\ \A v \in Writer : Busy(v)' => Busy(v)
        /\ \A v \in Writer \ {w} : Busy(v)' <=> Busy(v)
        /\ Handler \in Writer /\ Keepalive \in Writer /\ Call \subseteq Writer
    BY Writers DEF Busy
  <1>3. \A c \in Call : Busy(c) => want[c].kind \in EventKind
    BY EventFields DEF Nested, Calling, Start, End, EventKind
  <1>4. Reported'
    <2>1. ASSUME NEW c \in Call, Ongoing(c) PROVE err' \/ Ongoing(c)'
      <3>1. CASE c = w
        BY <1>3, <2>1, <3>1 DEF Ongoing
      <3>2. CASE c # w
        BY <1>2, <2>1, <3>2 DEF Ongoing
      <3> QED BY <3>1, <3>2
    <2> QED BY <2>1, ReportedKept DEF Nested, Base, TypeOK
  <1>5. Calling'
    <2> HIDE DEF Busy
    <2> QED BY <1>1, <1>2 DEF Nested, Calling, Start, End
  <1>6. Announcing'
    <2>1. Announced' = Announced /\ TurnStart' = TurnStart
      BY DEF Announced, TurnStart
    <2>2. CASE w # Handler
      <3>1. (Ready' <=> Ready) /\ (Busy(Handler)' <=> Busy(Handler))
        BY <1>2, <2>2 DEF Ready, Busy
      <3> HIDE DEF Busy
      <3> QED BY <1>1, <2>1, <3>1 DEF Nested, Announcing
    <2>3. CASE w = Handler
      <3>1. at \in {"asked", "ran"} => todo = <<>> /\ want[Handler] = Announced
        BY <2>3 DEF Nested, Announcing
      <3>2. at = "asked" => Announced.kind \in EventKind
        BY EventFields DEF Announced, TurnStart, EventKind
      <3>3. at = "asked" /\ ~err' => ~Ready'
        BY <2>3, <3>1, <3>2 DEF Ready, Busy
      <3>4. ~Ready
        BY <2>3 DEF Ready, Busy
      <3>5. at \in {"asked", "ran"} => options.events /\ ~OnWire(Announced)
        BY <3>4 DEF Nested, Announcing
      <3>6. at = "tools" => ~Busy(Handler)
        BY DEF Base, Disciplined, Ready, Busy
      <3> HIDE DEF Busy
      <3> QED BY <1>1, <1>2, <2>1, <2>3, <3>1, <3>3, <3>5, <3>6 DEF Nested, Announcing
    <2> QED BY <2>2, <2>3
  <1> QED BY <1>4, <1>5, <1>6, NestKept DEF Nested

\* Whose event it is, and what it says.
LEMMA EventWriter ==
  ASSUME Base, Nested, NEW w \in Writer, Busy(w), want[w].kind \in EventKind
  PROVE  /\ options.events /\ ~OnWire(want[w]) /\ want[w].turn = turn
         /\ \/ /\ w \in Call /\ at = "tools" /\ want[w].kind \in {"tool_start", "tool_end"}
               /\ \/ stage[w] = "running" /\ want[w] = Start(w)
                  \/ stage[w] = "ending" /\ want[w] = End(w)
            \/ /\ w = Handler /\ at \in {"asked", "ran"} /\ want[w] = Announced /\ todo = <<>>
               /\ want[w].kind = IF at = "asked" THEN "turn_start" ELSE "done_event"
  <1>1. CASE w \in Call
    <2>1. stage[w] \in {"running", "ending"} /\ at = "tools"
      BY <1>1 DEF Base, Disciplined
    <2>2. /\ options.events /\ ~OnWire(want[w])
          /\ want[w] = IF stage[w] = "running" THEN Start(w) ELSE End(w)
      BY <1>1 DEF Nested, Calling
    <2>3. /\ Start(w).turn = turn /\ End(w).turn = turn
          /\ Start(w).kind = "tool_start" /\ End(w).kind = "tool_end"
      BY EventFields DEF Start, End
    <2> QED BY <1>1, <2>1, <2>2, <2>3
  <1>2. CASE w = Handler
    <2>1. at \in {"asked", "ran"}
      BY <1>2 DEF Nested, Announcing
    <2>2. ~Ready
      BY <1>2 DEF Ready, Busy
    <2>3. want[w] = Announced /\ options.events /\ ~OnWire(Announced) /\ todo = <<>>
      BY <1>2, <2>1, <2>2 DEF Nested, Announcing
    <2>4. /\ Announced.turn = turn
          /\ Announced.kind = IF at = "asked" THEN "turn_start" ELSE "done_event"
      BY EventFields DEF Announced, TurnStart
    <2> QED BY <1>2, <2>1, <2>3, <2>4
  <1>3. CASE w = Keepalive
    BY <1>3 DEF Nested, Calling, EventKind
  <1> QED BY <1>1, <1>2, <1>3, Writers

LEMMA EventNested ==
  ASSUME Base, Nested, NEW w \in Writer, Busy(w), ~Busy(w)', want[w].kind \in EventKind,
         \A v \in Writer \ {w} : pen'[v] = pen[v],
         UNCHANGED <<options, turn, outcome, stage, at, todo, want, err>>, ~err,
         NEW n \in Nat, Events' = Events \cup {n}, wire'[n].frame = want[w],
         \A i \in Events : i \in Nat /\ i < n /\ wire'[i].frame = wire[i].frame,
         \A g : OnWire(g)' <=> OnWire(g) \/ g = want[w]
  PROVE  Nested'
  <1> DEFINE f == want[w]
  <1>1. /\ options.events /\ ~OnWire(f) /\ f.turn = turn /\ f \in StreamFrame
        /\ \/ /\ w \in Call /\ at = "tools" /\ f.kind \in {"tool_start", "tool_end"}
              /\ \/ stage[w] = "running" /\ f = Start(w)
                 \/ stage[w] = "ending" /\ f = End(w)
           \/ /\ w = Handler /\ at \in {"asked", "ran"} /\ f = Announced /\ todo = <<>>
              /\ f.kind = IF at = "asked" THEN "turn_start" ELSE "done_event"
    BY EventWriter DEF Base, TypeOK
  <1>2. /\ \A v \in Writer : Busy(v)' => v # w /\ Busy(v)
        /\ \A v \in Writer \ {w} : Busy(v)' <=> Busy(v)
        /\ Handler \in Writer /\ Keepalive \in Writer /\ Handler # Keepalive
        /\ \A c \in Call : c \in Writer /\ c # Handler /\ c # Keepalive /\ c # None
    BY Writers DEF Busy
  <1>3. at = "tools" => OnWire(TurnStart)
    BY <1>1 DEF Nested, Announcing
  <1>4. at # "tools" => \A c \in Call : ~Ongoing(c)
    BY DEF Ongoing
  <1>5. \A c, d \in Call : /\ Start(c).call = c /\ End(c).call = c
                           /\ Start(c).kind = "tool_start" /\ End(c).kind = "tool_end"
                           /\ [Start(c) EXCEPT !.kind = "tool_end"] = End(c)
    BY EventFields DEF Start, End
  <1>6. \A c \in Call : Start(c)' = Start(c) /\ End(c)' = End(c)
    BY DEF Start, End
  <1>7. Announced' = Announced /\ TurnStart' = TurnStart
    BY DEF Announced, TurnStart
  <1>8. f.kind \in EventKind
    OBVIOUS
  <1> HIDE DEF f
  <1>9. wire'[n].frame = f /\ \A g : OnWire(g)' <=> OnWire(g) \/ g = f
    BY DEF f
  <1>10. EventsNest'
    BY <1>1, <1>3, <1>4, <1>8, <1>9, NestGrows DEF Nested, Base
  <1>11. Reported'
    <2>1. ASSUME NEW i \in Events, Closes(i) PROVE Closes(i)'
      <3>1. ASSUME NEW k \in Events, i < k,
                   wire[k].frame = [wire[i].frame EXCEPT !.kind = "tool_end"]
            PROVE  Closes(i)'
        BY <2>1, <3>1 DEF Closes
      <3>2. ASSUME NEW c \in Call, Ongoing(c), wire[i].frame = Start(c)
            PROVE  Closes(i)'
        <4>1. CASE c = w /\ stage[c] = "ending"
          <5>1. f = End(w)
            BY <1>1, <1>2, <3>2, <4>1
          <5>2. wire'[n].frame = [wire'[i].frame EXCEPT !.kind = "tool_end"]
            BY <1>5, <1>9, <2>1, <3>2, <4>1, <5>1
          <5>3. n \in Events' /\ i < n
            BY <2>1
          <5> QED BY <5>2, <5>3 DEF Closes
        <4>2. CASE c # w \/ stage[c] = "running"
          <5>1. Ongoing(c)'
            BY <1>2, <3>2, <4>2 DEF Ongoing
          <5>2. wire'[i].frame = Start(c)'
            BY <1>6, <2>1, <3>2
          <5> QED BY <5>1, <5>2 DEF Closes
        <4> QED BY <3>2, <4>1, <4>2 DEF Ongoing
      <3> QED BY <2>1, <3>1, <3>2 DEF Closes
    <2>2. f.kind = "tool_start" =>
            /\ Closes(n)'
            /\ \E c \in Call : f = EventFrame("tool_start", f.turn, c)
      <3> SUFFICES ASSUME f.kind = "tool_start"
                   PROVE  Closes(n)' /\ \E c \in Call : f = EventFrame("tool_start", f.turn, c)
        OBVIOUS
      <3>1. w \in Call /\ at = "tools" /\ stage[w] = "running" /\ f = Start(w)
        BY <1>1, <1>5
      <3>2. Ongoing(w)'
        BY <3>1 DEF Ongoing
      <3>3. Closes(n)'
        BY <1>6, <1>9, <3>1, <3>2 DEF Closes
      <3> QED BY <1>1, <3>1, <3>3 DEF Start
    <2>3. f.kind = "done_event" => outcome # None
      <3>1. at = "ran" => outcome \in Ending
        BY DEF Base, Disciplined
      <3> QED BY <1>1, <3>1 DEF Ending, None
    <2>4. ASSUME NEW i \in Events'
          PROVE  /\ wire'[i].frame.turn <= turn
                 /\ wire'[i].frame.kind = "done_event" => outcome # None
                 /\ wire'[i].frame.kind = "tool_start" =>
                      /\ Closes(i)'
                      /\ \E c \in Call :
                           wire'[i].frame = EventFrame("tool_start", wire'[i].frame.turn, c)
      <3>1. CASE i = n
        <4>1. f.turn <= turn
          BY <1>1 DEF Base, TypeOK
        <4> QED BY <1>9, <2>2, <2>3, <3>1, <4>1
      <3>2. CASE i \in Events
        <4>1. wire'[i].frame = wire[i].frame
          BY <3>2
        <4>2. /\ wire[i].frame.turn <= turn
              /\ wire[i].frame.kind = "done_event" => outcome # None
              /\ wire[i].frame.kind = "tool_start" =>
                   /\ Closes(i)
                   /\ \E c \in Call :
                        wire[i].frame = EventFrame("tool_start", wire[i].frame.turn, c)
          BY <3>2 DEF Nested, Reported
        <4> QED BY <2>1, <3>2, <4>1, <4>2
      <3> QED BY <2>4, <3>1, <3>2
    <2> QED BY <1>1, <2>4 DEF Reported
  <1>12. Calling'
    <2>1. ASSUME NEW c \in Call
          PROVE  /\ Busy(c)' =>
                      /\ options.events /\ ~OnWire(want[c])'
                      /\ want[c] = IF stage[c] = "running" THEN Start(c) ELSE End(c)
                 /\ at = "asked" \/ stage[c] = "ready" => ~OnWire(Start(c))'
                 /\ at = "asked" \/ stage[c] \in {"ready", "running"} => ~OnWire(End(c))'
      <3>1. /\ Busy(c) =>
                 /\ options.events /\ ~OnWire(want[c])
                 /\ want[c] = IF stage[c] = "running" THEN Start(c) ELSE End(c)
            /\ at = "asked" \/ stage[c] = "ready" => ~OnWire(Start(c))
            /\ at = "asked" \/ stage[c] \in {"ready", "running"} => ~OnWire(End(c))
        BY DEF Nested, Calling
      <3>2. Busy(c)' => want[c] # f
        <4> SUFFICES ASSUME Busy(c)' PROVE want[c] # f
          OBVIOUS
        <4>1. c # w /\ Busy(c) /\ want[c].call = c
          BY <1>2, <1>5, <3>1
        <4>2. f.call # c
          <5>1. CASE w \in Call
            BY <1>1, <1>2, <1>5, <4>1, <5>1
          <5>2. CASE w \notin Call
            BY <1>1, <1>2, <5>2, EventFields DEF Announced, TurnStart
          <5> QED BY <5>1, <5>2
        <4> QED BY <4>1, <4>2
      <3>3. (at = "asked" \/ stage[c] = "ready") /\ ~OnWire(Start(c)) => Start(c) # f
        <4>1. CASE at = "asked"
          BY <1>1, <1>5, <4>1
        <4>2. CASE at # "asked" /\ stage[c] = "ready"
          <5>1. at = "tools"
            BY <4>2 DEF Base, Disciplined
          <5> QED BY <1>1, <1>5, <4>2, <5>1
        <4> QED BY <4>1, <4>2
      <3>4. at = "asked" \/ stage[c] \in {"ready", "running"} => End(c) # f
        <4>1. CASE at = "asked"
          BY <1>1, <1>5, <4>1
        <4>2. CASE at # "asked" /\ stage[c] \in {"ready", "running"}
          <5>1. at = "tools"
            BY <4>2 DEF Base, Disciplined
          <5> QED BY <1>1, <1>5, <4>2, <5>1
        <4> QED BY <4>1, <4>2
      <3>5. Busy(c)' => Busy(c)
        BY <1>2
      <3>6. /\ OnWire(want[c])' => OnWire(want[c]) \/ want[c] = f
            /\ OnWire(Start(c))' => OnWire(Start(c)) \/ Start(c) = f
            /\ OnWire(End(c))' => OnWire(End(c)) \/ End(c) = f
        <4>1. /\ OnWire(want[c])' <=> \E i \in Events' : wire'[i].frame = want[c]
              /\ OnWire(Start(c))' <=> \E i \in Events' : wire'[i].frame = Start(c)
              /\ OnWire(End(c))' <=> \E i \in Events' : wire'[i].frame = End(c)
          BY <1>6 DEF OnWire
        <4>2. \A i \in Events' : wire'[i].frame = f \/ (i \in Events /\ wire'[i].frame = wire[i].frame)
          BY <1>9
        <4> QED BY <4>1, <4>2 DEF OnWire
      <3> QED BY <3>1, <3>2, <3>3, <3>4, <3>5, <3>6
    <2>2. Busy(Keepalive)' => want[Keepalive].kind = "comment"
      BY <1>2 DEF Nested, Calling
    <2> HIDE DEF Busy
    <2>3. \A c \in Call : (want[c])' = want[c] /\ (stage[c])' = stage[c]
      OBVIOUS
    <2> QED BY <1>6, <2>1, <2>2, <2>3 DEF Calling
  <1>13. Announcing'
    <2>1. OnWire(TurnStart)' <=> OnWire(TurnStart) \/ TurnStart = f
      <3>1. OnWire(TurnStart)' <=> \E i \in Events' : wire'[i].frame = TurnStart
        BY <1>7 DEF OnWire
      <3>2. n \in Events' /\ \A i \in Events' : i = n \/ (i \in Events /\ wire'[i].frame = wire[i].frame)
        OBVIOUS
      <3>3. \A i \in Events : i \in Events' /\ wire'[i].frame = wire[i].frame
        OBVIOUS
      <3> QED BY <1>9, <3>1, <3>2, <3>3 DEF OnWire
    <2>2. CASE w = Handler
      <3>1. /\ at \in {"asked", "ran"} /\ todo' = <<>> /\ ~Busy(Handler)' /\ Ready'
            /\ at = "asked" => f = TurnStart
        BY <1>1, <1>2, <2>2 DEF Ready, Busy, Announced
      <3> HIDE DEF Busy
      <3> QED BY <2>1, <3>1 DEF Announcing
    <2>3. CASE w # Handler
      <3>1. at = "tools" /\ (Busy(Handler)' <=> Busy(Handler))
        BY <1>1, <1>2, <2>3
      <3> HIDE DEF Busy
      <3> QED BY <1>3, <2>1, <3>1 DEF Nested, Announcing
    <2> QED BY <2>2, <2>3
  <1> QED BY <1>10, <1>11, <1>12, <1>13 DEF Nested

LEMMA WriterNested == ASSUME Base, Nested, NEW w \in Writer, WriteStep(w) PROVE Nested'
  <1>1. /\ Busy(w)
        /\ \A v \in Writer \ {w} : pen'[v] = pen[v]
        /\ UNCHANGED <<options, turn, outcome, stage, at, todo, want>>
    BY BeginIs, FinishIs DEF WriteStep, Busy
  <1>2. want[w] \in StreamFrame
    BY DEF Base, TypeOK
  <1>3. CASE wire' = wire
    <2>1. (err => err') /\ (err' \/ Busy(w)')
      <3>1. CASE Begin(w)
        <4>1. err' = err /\ (err \/ pen'[w] = "half")
          BY <3>1, BeginIs
        <4>2. err \/ Busy(w)'
          BY <4>1 DEF Busy
        <4> QED BY <4>1, <4>2, Zenon
      <3>2. CASE Finish(w)
        <4> DEFINE p == [frame |-> want[w], half |-> 2]
        <4>1. p \in Piece
          BY <1>2 DEF Piece
        <4>2. wire' # Append(wire, p)
          <5> SUFFICES ASSUME wire' = Append(wire, p) PROVE FALSE
            OBVIOUS
          <5>1. Len(wire) \in Nat /\ Len(wire') = Len(wire) + 1
            BY <4>1, Appended DEF Base
          <5> QED BY <1>3, <5>1
        <4>3. err' = TRUE
          BY <3>2, <4>2, FinishIs
        <4> QED BY <4>3
      <3> QED BY <3>1, <3>2 DEF WriteStep
    <2>2. SameEvents
      BY <1>3, WireKept
    <2> QED BY <1>1, <2>1, <2>2, QuietWriteNested
  <1>4. CASE Begin(w) /\ wire' # wire
    <2>1. Busy(w)' /\ err' = err /\ wire' = Append(wire, [frame |-> want[w], half |-> 1])
      BY <1>4, BeginIs DEF Busy
    <2>2. Whole' = Whole /\ \A i \in Whole : wire'[i] = wire[i]
      BY <1>2, <2>1, HalfOne DEF Base
    <2>3. SameEvents
      BY <2>2 DEF SameEvents, Events
    <2> QED BY <1>1, <2>1, <2>3, QuietWriteNested
  <1>5. CASE Finish(w) /\ wire' # wire
    <2>1. /\ ~Busy(w)' /\ err' = err
          /\ wire' = Append(wire, [frame |-> want[w], half |-> 2])
      BY <1>5, FinishIs DEF Busy
    <2>2. CASE want[w].kind \notin EventKind
      <3>1. /\ Whole' = Whole \cup {Len(wire) + 1} /\ Whole \subseteq DOMAIN wire
            /\ \A i \in DOMAIN wire : wire'[i] = wire[i]
            /\ wire'[Len(wire) + 1] = [frame |-> want[w], half |-> 2]
        BY <1>2, <2>1, HalfTwo DEF Base
      <3>2. SameEvents
        BY <2>2, <3>1 DEF SameEvents, Events
      <3> QED BY <1>1, <2>1, <2>2, <3>2, QuietWriteNested
    <2>3. CASE want[w].kind \in EventKind
      <3>1. at \in {"tools", "asked", "ran"}
        BY <1>1, <2>3, EventWriter
      <3>2. ~Panicked
        BY <3>1 DEF Base, Disciplined
      <3>3. mu = w /\ mu # None
        <4>1. \A v \in Writer : pen[v] = "half" <=> mu = v
          BY <3>2 DEF Base, LockHeld
        <4>2. pen[w] = "half"
          BY <1>5, FinishIs
        <4> QED BY <4>1, <4>2, Writers
      <3>4. ~err
        BY <3>2, <3>3 DEF Base, LockHeld
      <3> DEFINE n == Len(wire) + 1
      <3>5. /\ n \in Nat /\ Events' = Events \cup {n} /\ wire'[n].frame = want[w]
            /\ \A i \in Events : i \in Nat /\ i < n /\ wire'[i].frame = wire[i].frame
            /\ \A g : OnWire(g)' <=> OnWire(g) \/ g = want[w]
        BY <1>2, <2>1, <2>3, EventSent DEF Base
      <3> HIDE DEF n
      <3> QED BY <1>1, <2>1, <2>3, <3>4, <3>5, EventNested
    <2> QED BY <2>2, <2>3
  <1> QED BY <1>3, <1>4, <1>5 DEF WriteStep

\* The handler opens the stream.
LEMMA OpenNested == ASSUME Base, Base', Open PROVE Nested'
  <1>1. /\ wire' = <<>> /\ todo' = <<Frame("role")>> /\ at' = "opened"
        /\ \A w \in Writer : ~Busy(w)'
        /\ \A c \in Call : stage'[c] = "idle"
    BY DEF Open, Base, Disciplined, Early, writeVars, runVars, Busy
  <1>2. Events' = {} /\ DOMAIN todo' = {1} /\ todo'[1].kind = "role"
    BY <1>1 DEF Events, Whole, Frame, EventFrame
  <1>3. Handler \in Writer /\ Keepalive \in Writer /\ Call \subseteq Writer
    BY Writers
  <1>4. EventsNest' /\ Reported'
    BY <1>2 DEF EventsNest, Reported
  <1>5. Calling'
    BY <1>1, <1>3 DEF Calling
  <1>6. Announcing'
    <2> HIDE DEF Busy
    <2> QED BY <1>1, <1>2, <1>3 DEF Announcing, EventKind
  <1> QED BY <1>4, <1>5, <1>6 DEF Nested

\* What all steps of the handler keep that write nothing.
LEMMA HandlerReports ==
  ASSUME Base, Nested, UNCHANGED <<options, want, pen, wire, err>>,
         turn' \in {turn, turn + 1}, outcome # None => outcome' # None,
         \A c \in Call : ~Ongoing(c)
  PROVE  /\ EventsNest' /\ Reported' /\ \A f : OnWire(f)' <=> OnWire(f)
         /\ \A w \in Writer : Busy(w)' <=> Busy(w)
         /\ \A i \in Events : wire[i].frame.turn \in Nat /\ wire[i].frame.turn <= turn
  <1>1. SameEvents /\ \A f : OnWire(f)' <=> OnWire(f)
    BY WireKept, OnWireKept
  <1>2. turn \in Nat /\ turn' \in Nat /\ turn <= turn'
    BY DEF Base, TypeOK
  <1>3. Reported'
    BY <1>1, <1>2, ReportedKept DEF Nested, Base
  <1>4. \A w \in Writer : Busy(w)' <=> Busy(w)
    BY DEF Busy
  <1>5. \A i \in Events : wire[i].frame.turn \in Nat /\ wire[i].frame.turn <= turn
    BY EventTypes DEF Nested, Reported, Base
  <1> QED BY <1>1, <1>3, <1>4, <1>5, NestKept DEF Nested

\* The handler starts or ends a turn, which it may have to announce.
LEMMA TurnNested ==
  ASSUME Base, Nested, BeginTurn \/ StopAtCeiling \/ Answer
  PROVE  Nested'
  <1>1. /\ UNCHANGED <<options, want, pen, wire, err, stage>>
        /\ at \in {"looping", "asked"} /\ Ready
        /\ at' \in {"asked", "ran"}
    BY DEF BeginTurn, StopAtCeiling, Answer, Done, writeVars
  <1>2. /\ outcome = None /\ ~Busy(Handler) /\ todo = <<>>
        /\ \A c \in Call : ~Ongoing(c) /\ ~Busy(c) /\ stage[c] = "idle"
    BY <1>1, Writers DEF Base, Disciplined, Ready, Busy, Ongoing
  <1>3. turn \in Nat
    BY DEF Base, TypeOK
  <1>4. turn' \in {turn, turn + 1}
    BY DEF BeginTurn, StopAtCeiling, Answer, Done
  <1>5. /\ EventsNest' /\ Reported' /\ \A f : OnWire(f)' <=> OnWire(f)
        /\ \A w \in Writer : Busy(w)' <=> Busy(w)
        /\ \A i \in Events : wire[i].frame.turn \in Nat /\ wire[i].frame.turn <= turn
    BY <1>1, <1>2, <1>4, HandlerReports
  <1>6. \/ /\ at' = "asked" /\ turn' = turn + 1
           /\ Announced' = EventFrame("turn_start", turn + 1, None)
        \/ /\ at' = "ran" /\ turn' = turn
           /\ Announced' = EventFrame("done_event", turn, None)
    BY DEF BeginTurn, StopAtCeiling, Answer, Done, Announced, TurnStart
  <1>7. \/ todo' = <<>> /\ ~options.events
        \/ todo' = <<Announced'>> /\ options.events
    <2>1. CASE BeginTurn
      <3>1. Announced' = EventFrame("turn_start", turn + 1, None)
        BY <2>1 DEF BeginTurn, Announced, TurnStart
      <3> QED BY <2>1, <3>1 DEF BeginTurn, Emit
    <2>2. CASE StopAtCeiling \/ Answer
      <3>1. Announced' = EventFrame("done_event", turn, None)
        BY <2>2 DEF StopAtCeiling, Answer, Done, Announced
      <3> QED BY <2>2, <3>1 DEF StopAtCeiling, Answer, Done, Emit
    <2> QED BY <2>1, <2>2
  <1>8. \A f : f.turn = turn + 1 => ~OnWire(f)
    BY <1>3, <1>5 DEF OnWire
  <1>9. ~OnWire(Announced')
    <2>1. CASE at' = "asked"
      BY <1>6, <1>8, <2>1, EventFields
    <2>2. CASE at' = "ran"
      <3>1. Announced'.kind = "done_event"
        BY <1>6, <2>2, EventFields
      <3> QED BY <1>2, <3>1 DEF OnWire, Nested, Reported
    <2> QED BY <1>1, <2>1, <2>2
  <1>10. Calling'
    <2>1. \A c \in Call : ~Busy(c)' /\ stage'[c] = "idle"
      BY <1>1, <1>2, <1>5, Writers
    <2>2. at' = "asked" => \A c \in Call : ~OnWire(Start(c)') /\ ~OnWire(End(c)')
      BY <1>6, <1>8, EventFields DEF Start, End
    <2>3. Busy(Keepalive)' => want'[Keepalive].kind = "comment"
      BY <1>1, <1>5, Writers DEF Nested, Calling
    <2>4. \A c \in Call : at' = "asked" => ~OnWire(Start(c))' /\ ~OnWire(End(c))'
      BY <1>1, <2>2 DEF OnWire, Events, Whole
    <2> HIDE DEF Busy
    <2> QED BY <2>1, <2>3, <2>4 DEF Calling
  <1>11. Announcing'
    <2>1. ~Busy(Handler)'
      BY <1>2, <1>5, Writers
    <2>2. ~OnWire(Announced)'
      BY <1>1, <1>9 DEF OnWire, Events, Whole
    <2>3. Ready' /\ at' = "asked" => ~options.events
      <3> HIDE DEF Announced
      <3> QED BY <1>7 DEF Ready
    <2>4. todo' = <<>> \/ (todo' = <<Announced'>> /\ options.events)
      BY <1>7
    <2>5. ~Ready' => options.events
      BY <2>1, <2>4 DEF Ready, Busy
    <2> HIDE DEF Busy, Announced
    <2> QED BY <1>1, <2>1, <2>2, <2>3, <2>4, <2>5 DEF Announcing
  <1> QED BY <1>5, <1>10, <1>11 DEF Nested

\* The handler's other steps.
LEMMA ControlNested ==
  ASSUME Base, Nested, NEW calls \in SUBSET Call,
         \/ StartKeepalive \/ UpstreamFails \/ EndTurn \/ AskForTools(calls)
         \/ CloseStop \/ KeepaliveStopped \/ Return
  PROVE  Nested'
  <1>1. /\ UNCHANGED <<options, want, pen, wire, err, turn>>
        /\ at' # "asked"
        /\ at \notin {"asked", "ran"} \/ Ready
        /\ outcome # None => outcome' # None
        /\ at' = "tools" => at = "asked" /\ Ready
        /\ at' = "ran" => at = "asked" /\ Ready
        /\ \/ todo' = todo
           \/ at \notin {"asked", "ran"} /\ at' = "closing" /\ \E n \in 0..MaxPieces : todo' = Closing(n)
    BY DEF StartKeepalive, UpstreamFails, EndTurn, AskForTools, CloseStop, KeepaliveStopped,
           Return, Done, writeVars, runVars, None
  <1>2. /\ \A c \in Call : ~Ongoing(c) /\ ~Busy(c)
        /\ \A c \in Call : stage'[c] = "idle" \/ (stage'[c] = "ready" /\ at = "asked")
    <2>1. CASE at = "tools"
      <3>1. EndTurn
        BY <2>1 DEF StartKeepalive, UpstreamFails, AskForTools, CloseStop, KeepaliveStopped,
                    Return
      <3> QED BY <2>1, <3>1 DEF EndTurn, Base, Disciplined, Ongoing
    <2>2. CASE at # "tools"
      <3>1. \A c \in Call : stage[c] = "idle" /\ ~Busy(c)
        BY <2>2 DEF Base, Disciplined
      <3>2. ~EndTurn
        BY <2>2 DEF EndTurn
      <3>3. \A c \in Call : stage'[c] = "idle" \/ (stage'[c] = "ready" /\ at = "asked")
        BY <3>1, <3>2 DEF StartKeepalive, UpstreamFails, AskForTools, CloseStop,
                          KeepaliveStopped, Return, runVars
      <3> QED BY <2>2, <3>1, <3>3 DEF Ongoing
    <2> QED BY <2>1, <2>2
  <1>3. /\ EventsNest' /\ Reported' /\ \A f : OnWire(f)' <=> OnWire(f)
        /\ \A w \in Writer : Busy(w)' <=> Busy(w)
    BY <1>1, <1>2, HandlerReports
  <1>4. Calling'
    <2>1. \A c \in Call : ~Busy(c)'
      BY <1>2, <1>3, Writers
    <2>2. Busy(Keepalive)' => want'[Keepalive].kind = "comment"
      BY <1>1, <1>3, Writers DEF Nested, Calling
    <2>3. \A c \in Call : at = "asked" => ~OnWire(Start(c))' /\ ~OnWire(End(c))'
      BY <1>1 DEF Nested, Calling, OnWire, Events, Whole, Start, End
    <2> HIDE DEF Busy
    <2> QED BY <1>1, <1>2, <2>1, <2>2, <2>3 DEF Calling
  <1>5. Announcing'
    <2>1. (Busy(Handler)' <=> Busy(Handler)) /\ want'[Handler] = want[Handler]
      BY <1>1, <1>3, Writers
    <2>2. at' = "tools" /\ options.events /\ ~err => OnWire(TurnStart)'
      <3>1. at' = "tools" /\ options.events /\ ~err => OnWire(TurnStart)
        BY <1>1 DEF Nested, Announcing
      <3> QED BY <1>1, <3>1 DEF TurnStart, OnWire, Events, Whole
    <2>3. \A k \in DOMAIN todo' : at' # "ran" => todo'[k].kind \notin EventKind
      <3>1. CASE todo' = todo
        <4>1. at \in {"asked", "ran"} => todo = <<>>
          BY <1>1 DEF Ready
        <4> QED BY <3>1, <4>1 DEF Nested, Announcing
      <3>2. ASSUME NEW n \in 0..MaxPieces, todo' = Closing(n)
            PROVE  \A k \in DOMAIN todo' : todo'[k].kind \notin EventKind
        <4>1. \A k \in DOMAIN todo' : Rank(todo'[k].kind) \in 2..5
          BY <3>2, ClosingOrdered
        <4>2. \A kind \in EventKind : Rank(kind) \notin 2..5
          BY Ranks
        <4> QED BY <4>1, <4>2
      <3> QED BY <1>1, <3>1, <3>2
    <2>4. Busy(Handler) => want[Handler].kind \notin EventKind
      <3>1. at \in {"asked", "ran"} => ~Busy(Handler)
        BY <1>1 DEF Ready, Busy
      <3> HIDE DEF Busy
      <3> QED BY <3>1 DEF Nested, Announcing
    <2>5. at' = "ran" => todo' = <<>> /\ ~Busy(Handler)' /\ Ready'
      BY <1>1, <2>1 DEF Ready, Busy
    <2> HIDE DEF Busy
    <2> QED BY <1>1, <2>1, <2>2, <2>3, <2>4, <2>5 DEF Announcing
  <1> QED BY <1>3, <1>4, <1>5 DEF Nested
-----------------------------------------------------------------------------
(* The invariant.                                                          *)

LEMMA InitStream == Init => StreamInv
  <1> SUFFICES ASSUME Init PROVE StreamInv
    OBVIOUS
  <1>1. Base /\ at = "down" /\ wire = <<>> /\ todo = <<>>
    BY InitBase DEF Init
  <1>2. /\ \A w \in Writer : ~Busy(w)
        /\ \A c \in Call : stage[c] = "idle"
        /\ Whole = {} /\ Events = {} /\ DOMAIN wire = {} /\ DOMAIN todo = {}
    BY DEF Init, Busy, Whole, Events
  <1>3. Handler \in Writer /\ Keepalive \in Writer /\ Call \subseteq Writer
    BY Writers
  <1>4. FramesInOrder
    BY <1>2 DEF FramesInOrder
  <1> HIDE DEF Busy
  <1>5. Ordered
    BY <1>1, <1>2 DEF Ordered, RunPhase
  <1>6. ToldSoFar
    BY <1>1 DEF ToldSoFar, Closed, RunPhase
  <1>7. Nested
    BY <1>1, <1>2, <1>3 DEF Nested, EventsNest, Reported, Calling, Announcing
  <1> QED BY <1>1, <1>4, <1>5, <1>6, <1>7 DEF StreamInv

\* Steps before the run: what they have in common.
LEMMA FrontIs ==
  ASSUME \/ Boot \/ SessionRefused \/ SessionAcquired \/ PlainRun
         \/ \E request \in Requests : Arrive(request)
  PROVE  /\ at \in Early \ {"new"} /\ at' \in Early \cup {"returned"}
         /\ ReplyJSON \/ UNCHANGED <<want, pen, wire, todo, err, stage>>
         /\ at' = "returned" => options' = options /\ (ReplyJSON \/ gone')
  <1>1. CASE Boot \/ SessionAcquired
    BY <1>1 DEF Boot, SessionAcquired, Early, writeVars
  <1>2. CASE SessionRefused
    BY <1>2 DEF SessionRefused, ReplyJSON, Early
  <1>3. CASE PlainRun
    <2>1. /\ at = "plain" /\ at' = "returned" /\ options' = options
          /\ ReplyJSON \/ (UNCHANGED <<want, pen, wire, todo, err, stage>> /\ gone /\ gone' = gone)
      BY <1>3 DEF PlainRun, ReplyJSON, writeVars
    <2>2. ReplyJSON \/ gone'
      <3>1. ReplyJSON \/ (gone /\ gone' = gone)
        BY <2>1
      <3>2. gone /\ gone' = gone => gone'
        OBVIOUS
      <3> QED BY <3>1, <3>2
    <2> QED BY <2>1, <2>2 DEF Early
  <1>4. ASSUME NEW request \in Requests, Arrive(request)
        PROVE  /\ at = "listening" /\ at' \in {"decided", "returned"}
               /\ ReplyJSON \/ (at' = "decided" /\ UNCHANGED <<want, pen, wire, todo, err, stage>>)
               /\ options' = options
    BY <1>4 DEF Arrive, ReplyJSON, writeVars
  <1>5. CASE \E request \in Requests : Arrive(request)
    BY <1>4, <1>5 DEF Early
  <1> QED BY <1>1, <1>2, <1>3, <1>5

LEMMA StreamStep == StreamInv /\ [Next]_vars => StreamInv'
  <1> SUFFICES ASSUME StreamInv, [Next]_vars PROVE StreamInv'
    OBVIOUS
  <1> USE DEF StreamInv
  <1>0. Base'
    BY BaseStep
  <1>1. CASE \/ Boot \/ SessionRefused \/ SessionAcquired \/ PlainRun
             \/ \E request \in Requests : Arrive(request)
    <2>1. /\ at \in Early \ {"new"} /\ at' \in Early \cup {"returned"}
          /\ ReplyJSON \/ UNCHANGED <<want, pen, wire, todo, err, stage>>
          /\ at' = "returned" => options' = options /\ (ReplyJSON \/ gone')
      BY <1>1, FrontIs
    <2>2. ReplyJSON \/ UNCHANGED <<want, pen, wire, todo>>
      BY <2>1
    <2> QED BY <1>0, <2>1, <2>2, FrontInOrder, FrontTold, FrontNested
  <1>2. CASE Send
    <2>1. FramesInOrder'
      <3>1. UNCHANGED <<wire, outcome>>
        BY <1>2 DEF Send, Write, runVars
      <3> QED BY <3>1 DEF FramesInOrder, Whole, Panicked
    <2> QED BY <1>0, <1>2, <2>1, SendOrdered, SendTold, SendNested
  <1>3. CASE Panic
    <2>1. Panicked'
      BY <1>3 DEF Panic, Panicked
    <2>2. FramesInOrder' /\ Ordered' /\ ToldSoFar'
      BY <2>1 DEF FramesInOrder, Ordered, ToldSoFar
    <2> QED BY <1>0, <1>3, <2>2, PanicNested
  <1>4. ASSUME NEW calls \in SUBSET Call,
               \/ StartKeepalive \/ UpstreamFails \/ EndTurn \/ AskForTools(calls)
               \/ CloseStop \/ KeepaliveStopped \/ Return
        PROVE  StreamInv'
    BY <1>0, <1>4, HandlerInOrder, HandlerTold, ControlNested
  <1>5. CASE Open \/ BeginTurn \/ StopAtCeiling \/ Answer
    <2>1. {} \in SUBSET Call
      OBVIOUS
    <2>2. FramesInOrder' /\ Ordered' /\ ToldSoFar'
      BY <1>5, <2>1, HandlerInOrder, HandlerTold
    <2> QED BY <1>0, <1>5, <2>2, OpenNested, TurnNested
  <1>6. ASSUME NEW w \in Writer, WriteStep(w) PROVE StreamInv'
    <2>1. FramesInOrder' /\ Ordered'
      BY <1>6, BeginInOrder, FinishInOrder DEF WriteStep
    <2> QED BY <1>0, <1>6, <2>1, WriterTold, WriterNested
  <1>7. ASSUME NEW w \in Writer, w # Handler, at \in RunPhase \/ Panicked,
               UNCHANGED <<options, at, outcome, todo, wire, err, gone>>,
               \A v \in Writer \ {w} : pen'[v] = pen[v] /\ want'[v] = want[v],
               \/ pen'[w] = "idle"
               \/ want'[w].kind \in EventKind \cup {"comment"}
        PROVE  FramesInOrder' /\ Ordered' /\ ToldSoFar'
    <2>1. FramesInOrder'
      BY <1>7 DEF FramesInOrder, Whole, Panicked
    <2>2. pen'[w] = "idle" \/ Rank(want'[w].kind) = 1
      BY <1>7, Ranks
    <2> QED BY <1>7, <2>1, <2>2, ProgressOrdered, ProgressTold
  <1>8. ASSUME NEW c \in Call, ToolStep(c) PROVE StreamInv'
    <2>1. /\ c \in Writer /\ c # Handler /\ at \in RunPhase
          /\ UNCHANGED <<options, at, outcome, todo, wire, err, gone>>
          /\ \A v \in Writer \ {c} : pen'[v] = pen[v] /\ want'[v] = want[v]
          /\ pen'[c] = "idle" \/ want'[c].kind \in EventKind
      BY <1>8, ToolIs, Writers, EventFields DEF RunPhase, EventKind
    <2>2. FramesInOrder' /\ Ordered' /\ ToldSoFar'
      BY <1>7, <2>1
    <2> QED BY <1>0, <1>8, <2>2, ToolNested
  <1>9. CASE Tick \/ TickerStops
    <2>1. /\ Keepalive \in Writer /\ Keepalive # Handler
          /\ at \in RunPhase \/ Panicked
          /\ UNCHANGED <<options, at, outcome, todo, wire, err, gone>>
          /\ \A v \in Writer \ {Keepalive} : pen'[v] = pen[v] /\ want'[v] = want[v]
          /\ pen'[Keepalive] = "idle" \/ want'[Keepalive].kind = "comment"
      <3>1. ticker = "on" => at \in RunPhase \/ Panicked
        BY DEF Base, Disciplined
      <3>2. Frame("comment").kind = "comment"
        BY DEF Frame, EventFrame
      <3> QED BY <1>9, <3>1, <3>2, TimerIs, Writers
    <2>2. FramesInOrder' /\ Ordered' /\ ToldSoFar'
      BY <1>7, <2>1
    <2> QED BY <1>0, <1>9, <2>2, TimerNested
  <1>10. CASE Leave \/ UNCHANGED vars
    <2>1. /\ UNCHANGED <<options, at, outcome, todo, want, pen, wire, err>>
          /\ gone => gone'
      BY <1>10 DEF Leave, vars, runVars, writeVars
    <2>2. /\ Whole' = Whole /\ (Closed' <=> Closed) /\ (Panicked' <=> Panicked)
          /\ \A w \in Writer : Busy(w)' <=> Busy(w)
          /\ \A kind : Owed(kind)' <=> Owed(kind)
      BY <2>1 DEF Whole, Closed, Panicked, Busy, Owed, Told
    <2>3. Permitted' = Permitted
      BY <2>1, <2>2, PermittedKept
    <2>4. FramesInOrder'
      BY <2>1, <2>2 DEF FramesInOrder
    <2>5. Ordered'
      <3>1. Busy(Handler)' <=> Busy(Handler)
        BY <2>2, Writers
      <3> HIDE DEF Busy
      <3> QED BY <2>1, <2>2, <3>1 DEF Ordered
    <2>6. ToldSoFar'
      <3> HIDE DEF Busy
      <3> QED BY <2>1, <2>2, <2>3 DEF ToldSoFar, Told
    <2> QED BY <1>0, <1>10, <2>4, <2>5, <2>6, IdleNested
  <1>11. CASE HandlerStep
    <2>1. {} \in SUBSET Call
      OBVIOUS
    <2>2. CASE \E calls \in SUBSET Call : AskForTools(calls)
      BY <1>4, <2>2
    <2> QED BY <1>1, <1>2, <1>3, <1>4, <1>5, <1>11, <2>1, <2>2 DEF HandlerStep, Turn
  <1> QED BY <1>1, <1>6, <1>8, <1>9, <1>10, <1>11 DEF Next

\* The invariant of the stream: who may write and who has the lock; what is
\* written follows what has been, and what has to be told is on its way; the
\* events nest.
THEOREM StreamInvariant == Spec => []StreamInv
  BY InitStream, StreamStep, PTL DEF Spec

\* Frames arrive whole and in order, and events can be followed, whichever of
\* the writers gets the lock when, and whenever a write fails (stream.go, raw).
THEOREM StreamIsWellFormed == Spec => []StreamWellFormed
  <1>1. StreamInv => StreamWellFormed
    BY DEF StreamInv, Nested, StreamWellFormed
  <1> QED BY <1>1, StreamInvariant, PTL

\* A client that stays is told how its run ended, and only that (chat.go,
\* streamAgentRun).
THEOREM ClientIsAlwaysTold == Spec => []ClientIsTold
  <1>1. StreamInv => ClientIsTold
    <2> SUFFICES ASSUME StreamInv, at = "returned", ~gone, ~Panicked
                 PROVE  IF options.stream
                        THEN /\ Told("role") /\ Told("done") /\ ~Told("json")
                             /\ Told("error") <=> outcome = "failed"
                             /\ Told("finish") <=> outcome = "answered"
                             /\ Told("content") => outcome = "answered"
                             /\ Told("usage") <=> outcome = "answered" /\ options.usage
                        ELSE /\ Told("json")
                             /\ \A i \in Whole : wire[i].frame = Frame("json")
      BY DEF ClientIsTold
    <2> USE DEF StreamInv
    <2>1. CASE ~options.stream
      BY <2>1 DEF ToldSoFar
    <2>2. CASE options.stream
      <3>1. Closed /\ ~err /\ outcome \in Ending /\ Ready
        BY <2>2 DEF Closed, Base, LockHeld, Disciplined
      <3>2. \A kind : Owed(kind) => Told(kind)
        BY <3>1 DEF Owed, Ready, Busy
      <3>3. \A kind : Told(kind) => kind \in Permitted
        BY <3>1 DEF ToldSoFar, Told, Frame, EventFrame
      <3>4. /\ Told("role") /\ Told("done")
            /\ outcome = "failed" => Told("error")
            /\ outcome = "answered" => Told("finish")
            /\ outcome = "answered" /\ options.usage => Told("usage")
        BY <3>1, <3>2 DEF ToldSoFar
      <3>5. /\ "json" \notin Permitted
            /\ "error" \in Permitted => outcome = "failed"
            /\ "finish" \in Permitted => outcome # "failed"
            /\ "content" \in Permitted => outcome # "failed"
            /\ "usage" \in Permitted => outcome # "failed" /\ options.usage
        BY DEF Permitted, EventKind
      <3>6. outcome \in {"answered", "failed"}
        BY <3>1 DEF Ending
      <3> HIDE DEF StreamInv
      <3> QED BY <2>2, <3>3, <3>4, <3>5, <3>6
    <2> QED BY <2>1, <2>2
  <1> QED BY <1>1, StreamInvariant, PTL
=============================================================================
