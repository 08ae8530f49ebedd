--------------------------- MODULE ReadBeforeEdit ---------------------------
(***************************************************************************)
(* The read-before-edit rule as the agent loop, the file tools, context    *)
(* compaction and the ledger enforce it together.                          *)
(*                                                                         *)
(* A session serves one request at a time (its lock is held for the whole  *)
(* run, internal/server/chat.go).  A request is a series of turns          *)
(* (internal/agent/loop.go): the conversation is compacted if it is too    *)
(* long, the model is called, and the tool calls it asks for are run.      *)
(* Consecutive reads overlap; write, edit and bash run alone.  Files live  *)
(* in the session's directory, where bash, programs that bash left in the  *)
(* background, an editor, and other sessions bound to the same directory   *)
(* change them too.                                                        *)
(*                                                                         *)
(* Left out: what the model is told, the line and page views of a file,    *)
(* directories, binary and irregular files (they only return an error      *)
(* before any state changes), and the token arithmetic that decides when   *)
(* to compact: compaction may happen at any turn, with any cut.  Of the    *)
(* conversation only its tool calls and results are kept.                  *)
(***************************************************************************)
EXTENDS Ledger, FiniteSets

CONSTANTS
  Session,
  Dir,
  DirOf,        \* [Session -> Dir]: the directory a session is bound to
  Spelling,     \* the arguments with a path that the model may send
  Rel,          \* [Spelling -> Path]: Jail.Rel, the cleaned relative path
  Untidy,       \* those with something behind the JSON object
  Id,           \* the ids of tool calls, which the provider makes up
  NoName,       \* stands for "names no file"
  MaxParallel,  \* agent.max_parallel_tools
  MaxRequests,  \* bound: requests per session
  MaxTurns,     \* agent.max_iterations
  MaxCalls,     \* bound: tool call groups per turn
  MaxOutside,   \* bound: changes made from outside the tools
  MaxSent,      \* bound: tool calls, and results, among the client's messages
  OutsideAnytime \* whether such a change may fall between check and write

ASSUME WorkspaceAssumption ==
  /\ DirOf \in [Session -> Dir]
  /\ Path \subseteq Spelling
  /\ Rel \in [Spelling -> Path]
  /\ \A p \in Path : Rel[p] = p
  /\ Untidy \subseteq Spelling \ Path
  /\ NoName \notin Spelling
  /\ MaxParallel \in Nat \ {0}
  /\ MaxRequests \in Nat /\ MaxTurns \in Nat /\ MaxCalls \in Nat
  /\ MaxOutside \in Nat /\ MaxSent \in Nat /\ OutsideAnytime \in BOOLEAN

VARIABLES
  disk,      \* disk[d][p]: the state of file p of directory d
  ledger,    \* ledger[s]: the session's observations
  phase,     \* phase[s]: where the request is; "idle" when the lock is free
  turn,      \* turn[s]: the request's turn counter, also Session.turn
  context,   \* context[s]: the results in the conversation
  batch,     \* batch[s]: the results of the turn being run
  readPaths, \* readPaths[s][id]: what the last call with that id named
  calls,     \* calls[s]: the tool calls in flight
  started,   \* started[s]: call groups started this turn
  method,    \* method[s]: how the conversation was last compacted this turn
  requests,  \* requests[s]: requests served so far
  outside,   \* changes made from outside so far
  asked,     \* asked[s]: the calls of this request (history)
  reads      \* reads[s]: those that read a file and observed it (history)

vars == <<disk, ledger, phase, turn, context, batch, readPaths, calls, started,
          method, requests, outside, asked, reads>>

\* The loop's own state, which a step of a tool leaves alone.
loopVars == <<phase, turn, context, readPaths, started, method, requests,
              outside, asked>>
-----------------------------------------------------------------------------
Slot == 1..MaxParallel

Turn == 0..MaxTurns

\* A result in the conversation: the call it answers, the file it shows, and
\* whether it is long enough to be pruned.  A short result that shows no file is
\* of no account and is left out.
Evidence == [id : Id, turn : Turn, shows : Path \cup {NoName}, big : BOOLEAN]

\* What a call named, and when.
Naming == [path : Spelling \cup {NoName}, turn : Turn]

Ask == [id : Id, raw : Spelling]

Call == [slot : Slot,
         tool : {"read", "write", "edit"},
         id   : Id,
         raw  : Spelling,
         step : {"stat", "absent", "load", "observe", "check", "store"},
         cur  : FileState]

Phase == {"idle", "ready", "sent", "resent", "tools"}

Method == {"none", "prune", "summarize"}

TypeOK ==
  /\ disk \in [Dir -> [Path -> FileState]]
  /\ DOMAIN ledger = Session
  /\ \A s \in Session : IsLedger(ledger[s])
  /\ phase \in [Session -> Phase]
  /\ turn \in [Session -> Turn]
  /\ context \in [Session -> SUBSET Evidence]
  /\ batch \in [Session -> SUBSET Evidence]
  /\ readPaths \in [Session -> [Id -> Naming]]
  /\ calls \in [Session -> SUBSET Call]
  /\ started \in [Session -> 0..MaxCalls]
  /\ method \in [Session -> Method]
  /\ requests \in [Session -> 0..MaxRequests]
  /\ outside \in 0..MaxOutside
  /\ asked \in [Session -> SUBSET Ask]
  /\ reads \in [Session -> SUBSET Ask]

NoPaths == [id \in Id |-> [path |-> NoName, turn |-> 0]]

Init ==
  /\ disk \in [Dir -> [Path -> FileState]]
  /\ ledger = [s \in Session |-> NewLedger]
  /\ phase = [s \in Session |-> "idle"]
  /\ turn = [s \in Session |-> 0]
  /\ context = [s \in Session |-> {}]
  /\ batch = [s \in Session |-> {}]
  /\ readPaths = [s \in Session |-> NoPaths]
  /\ calls = [s \in Session |-> {}]
  /\ started = [s \in Session |-> 0]
  /\ method = [s \in Session |-> "none"]
  /\ requests = [s \in Session |-> 0]
  /\ outside = 0
  /\ asked = [s \in Session |-> {}]
  /\ reads = [s \in Session |-> {}]
-----------------------------------------------------------------------------
(* The agent loop.                                                         *)

\* A request locks the session.  Its conversation comes from the client, whose
\* tool calls and results may be anything: they show no file the ledger has seen
\* them show.
StartRequest(s) ==
  /\ phase[s] = "idle"
  /\ requests[s] < MaxRequests
  /\ phase' = [phase EXCEPT ![s] = "ready"]
  /\ requests' = [requests EXCEPT ![s] = @ + 1]
  /\ \E made, answered \in {ids \in SUBSET Id : Cardinality(ids) <= MaxSent} :
     \E name \in [made -> Spelling] :
       /\ readPaths' = [readPaths EXCEPT ![s] =
             [id \in Id |-> [path |-> IF id \in made THEN name[id] ELSE NoName,
                            turn |-> 0]]]
       /\ context' = [context EXCEPT ![s] =
             {[id |-> id, turn |-> 0, shows |-> NoName, big |-> TRUE] :
                id \in answered}]
  /\ UNCHANGED <<disk, ledger, turn, batch, calls, started, method, outside,
                 asked, reads>>

\* The request's own state goes with it when it ends: the history and the turn
\* counter.  The ledger stays with the session.
EndRequest(s) ==
  /\ phase' = [phase EXCEPT ![s] = "idle"]
  /\ turn' = [turn EXCEPT ![s] = 0]
  /\ context' = [context EXCEPT ![s] = {}]
  /\ readPaths' = [readPaths EXCEPT ![s] = NoPaths]
  /\ asked' = [asked EXCEPT ![s] = {}]
  /\ reads' = [reads EXCEPT ![s] = {}]
  /\ method' = [method EXCEPT ![s] = "none"]

\* What a compaction with method m drops of the results before turn `cut`.
\* pruneToolResults replaces the big bodies by stubs; summarize replaces every
\* message.  safeCut never separates the results of one turn, so a cut falls
\* between turns; the client's messages, of turn 0, are taken as one.
Dropped(s, cut, m) ==
  {e \in context[s] : e.turn < cut /\ (m = "prune" => e.big)}

PrunedPathsMissesLast(s, cut) ==  \* deliberately wrong
  {readPaths[s][e.id].path :
     e \in {e \in Dropped(s, cut, "prune") : e.turn + 1 < cut}} \ {NoName}

\* A pruned result is named by its id, through the last call in the whole
\* conversation that has this id and a path: not always the call it answers.
PrunedPaths(s, cut) ==
  {readPaths[s][e.id].path : e \in Dropped(s, cut, "prune")} \ {NoName}

\* Pruning keeps the calls, a summary takes those before the cut with it.
Forgotten(paths, cut, m) ==
  [id \in Id |-> IF m = "summarize" /\ paths[id].turn < cut
                THEN NoPaths[id] ELSE paths[id]]

\* The ledger after the compaction made in turn t.  A prune marks the paths it
\* named, which the ledger knows only by their cleaned form; a summary marks
\* everything observed before this turn.
Invalidate(s, t, cut, m) ==
  ledger' = [ledger EXCEPT ![s] =
    IF m = "summarize"
    THEN MarkStaleBefore(@, t)
    ELSE MarkStale(@, PrunedPaths(s, cut))]

Compact(s, t) ==
  \E cut \in 0..t, m \in {"prune", "summarize"} :
    /\ Invalidate(s, t, cut, m)
    /\ method' = [method EXCEPT ![s] = m]
    /\ context' = [context EXCEPT ![s] = @ \ Dropped(s, cut, m)]
    /\ readPaths' = [readPaths EXCEPT ![s] = Forgotten(@, cut, m)]

NoCompaction(s) ==
  /\ method' = [method EXCEPT ![s] = "none"]
  /\ UNCHANGED <<context, readPaths, ledger>>

\* One more model call: count the turn, compact if the conversation is near
\* the window, send.
BeginTurn(s) ==
  /\ phase[s] = "ready"
  /\ turn[s] < MaxTurns
  /\ turn' = [turn EXCEPT ![s] = @ + 1]
  /\ Compact(s, turn[s] + 1) \/ NoCompaction(s)
  /\ phase' = [phase EXCEPT ![s] = "sent"]
  /\ UNCHANGED <<disk, batch, calls, started, requests, outside, asked, reads>>

\* The provider says the conversation was too long: compact whatever the
\* estimate says, and send the turn once more if that shortened the list of
\* messages.  Only a summary can.
Overflow(s) ==
  /\ phase[s] = "sent"
  /\ Compact(s, turn[s])
  /\ method'[s] = "summarize"
  /\ phase' = [phase EXCEPT ![s] = "resent"]
  /\ UNCHANGED <<disk, turn, batch, calls, started, requests, outside, asked,
                 reads>>

\* It did not: the request fails, but what the compaction did to the ledger
\* stays done.
OverflowFatal(s) ==
  /\ phase[s] = "sent"
  /\ \E cut \in 0..turn[s], m \in {"prune", "summarize"} :
       Invalidate(s, turn[s], cut, m)
  /\ EndRequest(s)
  /\ UNCHANGED <<disk, batch, calls, started, requests, outside>>

\* The model asks for tools.
RequestTools(s) ==
  /\ phase[s] \in {"sent", "resent"}
  /\ phase' = [phase EXCEPT ![s] = "tools"]
  /\ method' = [method EXCEPT ![s] = "none"]
  /\ UNCHANGED <<disk, ledger, turn, context, batch, readPaths, calls, started,
                 requests, outside, asked, reads>>

\* A final answer, an upstream failure, a ceiling or a cancelled request:
\* the lock is released, and nothing is undone.
Finish(s) ==
  /\ phase[s] \in {"ready", "sent", "resent"}
  /\ EndRequest(s)
  /\ UNCHANGED <<disk, ledger, batch, calls, started, requests, outside>>

\* Every call of the turn has returned: append the results.
EndTurn(s) ==
  /\ phase[s] = "tools"
  /\ calls[s] = {}
  /\ context' = [context EXCEPT ![s] = @ \cup batch[s]]
  /\ batch' = [batch EXCEPT ![s] = {}]
  /\ started' = [started EXCEPT ![s] = 0]
  /\ phase' = [phase EXCEPT ![s] = "ready"]
  /\ UNCHANGED <<disk, ledger, turn, readPaths, calls, method, requests, outside,
                 asked, reads>>
-----------------------------------------------------------------------------
(* The tools.                                                              *)

File(s, c) == disk[DirOf[s]][Rel[c.raw]]

Put(s, c, state) ==
  disk' = [disk EXCEPT ![DirOf[s]] = [@ EXCEPT ![Rel[c.raw]] = state]]

Advance(s, c, step, cur) ==
  calls' = [calls EXCEPT ![s] =
              (@ \ {c}) \cup {[c EXCEPT !.step = step, !.cur = cur]}]

Message(s, id, shows, big) ==
  [id |-> id, turn |-> turn[s], shows |-> shows, big |-> big]

Return(s, c, results) ==
  /\ calls' = [calls EXCEPT ![s] = @ \ {c}]
  /\ batch' = [batch EXCEPT ![s] = @ \cup results]

\* A result that shows no file, such as an error.
Unseen(s, id) == {{}, {Message(s, id, NoName, TRUE)}}

Tell(s, c) == \E results \in Unseen(s, c.id) : Return(s, c, results)

\* Room for one more group of calls: the previous group has returned.
MayStart(s) ==
  /\ phase[s] = "tools"
  /\ calls[s] = {}
  /\ started[s] < MaxCalls
  /\ started' = [started EXCEPT ![s] = @ + 1]

\* argPath takes nothing from arguments that the tools' decoder reads only the
\* first part of.
Name(raw) == IF raw \in Untidy THEN NoName ELSE raw

\* The last of the calls 1..n that has this id and names a path, if any.
LastNamed(asks, n, id) ==
  LET own == {i \in 1..n : asks[i].id = id /\ Name(asks[i].raw) # NoName}
  IN  {i \in own : \A j \in own : j <= i}

\* The assistant message that asks for the calls 1..n is in the conversation.
Record(s, n, asks) ==
  /\ readPaths' = [readPaths EXCEPT ![s] =
       [id \in Id |->
          LET last == LastNamed(asks, n, id)
          IN  IF last = {} THEN @[id]
              ELSE [path |-> Name(asks[CHOOSE i \in last : TRUE].raw),
                    turn |-> turn[s]]]]
  /\ asked' = [asked EXCEPT ![s] = @ \cup {asks[i] : i \in 1..n}]

NewCall(i, tool, ask, step) ==
  [slot |-> i, tool |-> tool, id |-> ask.id, raw |-> ask.raw, step |-> step,
   cur |-> Absent]

\* Consecutive reads overlap, up to the limit.
StartReads(s) ==
  /\ MayStart(s)
  /\ \E n \in Slot : \E asks \in [1..n -> Ask] :
       /\ calls' = [calls EXCEPT ![s] =
                      {NewCall(i, "read", asks[i], "stat") : i \in 1..n}]
       /\ Record(s, n, asks)
  /\ UNCHANGED <<disk, ledger, phase, turn, context, batch, method, requests,
                 outside, reads>>

\* A call that writes runs alone.
StartModify(s) ==
  /\ MayStart(s)
  /\ \E tool \in {"write", "edit"}, ask \in Ask :
       /\ calls' = [calls EXCEPT ![s] = {NewCall(1, tool, ask, "check")}]
       /\ Record(s, 1, [i \in 1..1 |-> ask])
  /\ UNCHANGED <<disk, ledger, phase, turn, context, batch, method, requests,
                 outside, reads>>

\* A call with a path that neither changes a file nor tells the ledger: grep,
\* glob, and every call that a guard or a tool refuses at once.
OtherCall(s) ==
  /\ MayStart(s)
  /\ \E ask \in Ask : \E results \in Unseen(s, ask.id) :
       /\ batch' = [batch EXCEPT ![s] = @ \cup results]
       /\ Record(s, 1, [i \in 1..1 |-> ask])
  /\ UNCHANGED <<disk, ledger, phase, turn, context, calls, method, requests,
                 outside, reads>>

ReadStat(s, c) ==
  /\ c.step = "stat"
  /\ Advance(s, c, IF File(s, c) = Absent THEN "absent" ELSE "load", Absent)
  /\ UNCHANGED <<disk, ledger, batch, reads, loopVars>>

ReadAbsent(s, c) ==
  /\ c.step = "absent"
  /\ ledger' = [ledger EXCEPT ![s] = ObserveAbsent(@, Rel[c.raw], turn[s])]
  /\ Tell(s, c)
  /\ UNCHANGED <<disk, reads, loopVars>>

\* The file may be gone since the stat: an I/O error, and no observation.
ReadLoad(s, c) ==
  /\ c.step = "load"
  /\ IF File(s, c) = Absent
     THEN Tell(s, c)
     ELSE Advance(s, c, "observe", File(s, c)) /\ UNCHANGED batch
  /\ UNCHANGED <<disk, ledger, reads, loopVars>>

\* The whole content is recorded under the cleaned path; the result shows a
\* page of it, short or long.
ReadObserve(s, c) ==
  /\ c.tool = "read" /\ c.step = "observe"
  /\ ledger' = [ledger EXCEPT ![s] = Observe(@, Rel[c.raw], c.cur, turn[s])]
  /\ \E big \in BOOLEAN :
       Return(s, c, {Message(s, c.id, Rel[c.raw], big)})
  /\ reads' = [reads EXCEPT ![s] = @ \cup {[id |-> c.id, raw |-> c.raw]}]
  /\ UNCHANGED <<disk, loopVars>>

\* edit finds no file: a confirmed absence.
EditMissing(s, c) ==
  /\ c.tool = "edit" /\ c.step = "check"
  /\ File(s, c) = Absent
  /\ ledger' = [ledger EXCEPT ![s] = ObserveAbsent(@, Rel[c.raw], turn[s])]
  /\ Tell(s, c)
  /\ UNCHANGED <<disk, reads, loopVars>>

\* The ledger does not vouch for the bytes just read, or, for an edit, the
\* text to replace is missing or ambiguous.
ModifyRefused(s, c) ==
  /\ c.step = "check"
  /\ c.tool = "edit" => File(s, c) # Absent
  /\ c.tool = "write" => ~Authorize(ledger[s], Rel[c.raw], File(s, c))
  /\ Tell(s, c)
  /\ UNCHANGED <<disk, ledger, reads, loopVars>>

\* The file is read and the ledger asked.  No other call of the session runs,
\* so its ledger is the same at both moments.
ModifyCheck(s, c) ==
  /\ c.step = "check"
  /\ c.tool = "edit" => File(s, c) # Absent
  /\ Authorize(ledger[s], Rel[c.raw], File(s, c))
  /\ Advance(s, c, "store", File(s, c))
  /\ UNCHANGED <<disk, ledger, batch, reads, loopVars>>

ModifyStore(s, c) ==
  /\ c.step = "store"
  /\ \E new \in Content : Put(s, c, new) /\ Advance(s, c, "observe", new)
  /\ UNCHANGED <<ledger, batch, reads, loopVars>>

\* The write fails, before or after truncating the file, with or without some
\* of the new bytes.
StoreFails(s, c) ==
  /\ c.step = "store"
  /\ \E left \in Content \cup {File(s, c)} : Put(s, c, left)
  /\ Tell(s, c)
  /\ UNCHANGED <<ledger, reads, loopVars>>

\* The new content becomes the observed one.  What write wrote is in the
\* conversation, in the arguments of the call, which no prune drops; of an
\* edited file the conversation holds what it held before.
ModifyObserve(s, c) ==
  /\ c.tool # "read" /\ c.step = "observe"
  /\ ledger' = [ledger EXCEPT ![s] = Observe(@, Rel[c.raw], c.cur, turn[s])]
  /\ IF c.tool = "write"
     THEN Return(s, c, {Message(s, c.id, Rel[c.raw], FALSE)})
     ELSE Tell(s, c)
  /\ UNCHANGED <<disk, reads, loopVars>>

\* A shell command: alone, and free to do anything to the files.  The ledger
\* is deliberately left alone.
Bash(s) ==
  /\ MayStart(s)
  /\ \E files \in [Path -> FileState] :
       disk' = [disk EXCEPT ![DirOf[s]] = files]
  /\ \E id \in Id : \E results \in Unseen(s, id) :
       batch' = [batch EXCEPT ![s] = @ \cup results]
  /\ UNCHANGED <<ledger, phase, turn, context, readPaths, calls, method,
                 requests, outside, asked, reads>>

ToolStep(s, c) ==
  \/ ReadStat(s, c) \/ ReadAbsent(s, c) \/ ReadLoad(s, c) \/ ReadObserve(s, c)
  \/ EditMissing(s, c) \/ ModifyRefused(s, c) \/ ModifyCheck(s, c)
  \/ ModifyStore(s, c) \/ StoreFails(s, c) \/ ModifyObserve(s, c)

\* Some call is between the check of p and the write of p.
InWindow(d, p) ==
  \E s \in Session : \E c \in calls[s] :
    DirOf[s] = d /\ Rel[c.raw] = p /\ c.step = "store"

\* An editor, or a process a shell command left behind.
Outside(d, p) ==
  /\ outside < MaxOutside
  /\ InWindow(d, p) => OutsideAnytime
  /\ \E state \in FileState :
       disk' = [disk EXCEPT ![d] = [@ EXCEPT ![p] = state]]
  /\ outside' = outside + 1
  /\ UNCHANGED <<ledger, phase, turn, context, batch, readPaths, calls, started,
                 method, requests, asked, reads>>

SessionStep(s) ==
  \/ StartRequest(s) \/ BeginTurn(s) \/ Overflow(s) \/ OverflowFatal(s)
  \/ RequestTools(s) \/ Finish(s) \/ EndTurn(s)
  \/ StartReads(s) \/ StartModify(s) \/ OtherCall(s) \/ Bash(s)
  \/ \E c \in calls[s] : ToolStep(s, c)

Next ==
  \/ \E s \in Session : SessionStep(s)
  \/ \E d \in Dir, p \in Path : Outside(d, p)

Spec == Init /\ [][Next]_vars
-----------------------------------------------------------------------------
(* Properties.                                                             *)

\* Call c of session s writes its file in this step.
Stores(s, c) == c.step = "store" /\ c \notin calls'[s]

\* Whatever bytes a write or an edit replaces are the bytes the session last
\* observed of that file, and a file it creates over nothing was nothing: no
\* change made by a shell command, an editor or an earlier call is discarded
\* unseen (ledger.go: "any change from any source invalidates the observation
\* and forces a re-read").
NoBlindOverwrite ==
  [][\A s \in Session : \A c \in calls[s] :
       Stores(s, c) => File(s, c) = Vouched(ledger[s], Rel[c.raw])]_vars

\* Once compaction has made an observation stale, only looking at the file
\* again makes the ledger trust it again: a read that finds it or finds it
\* gone, or an edit that finds it gone.  No write gets there on its own.
OnlyALookRestoresTrust ==
  [][\A s \in Session, p \in Path :
       IsStale(ledger[s], p) /\ ~IsStale(ledger'[s], p) =>
         \E c \in calls[s] :
           /\ Rel[c.raw] = p
           /\ c \notin calls'[s]
           /\ \/ c.tool = "read" /\ c.step \in {"observe", "absent"}
              \/ c.step = "check" /\ File(s, c) = Absent]_vars

\* The conversation of the running request, or the turn being run, holds a
\* result that showed p.
InContext(s, p) == \E e \in context[s] \cup batch[s] : e.shows = p

\* The ledger would authorise a modification of what p held.
Trusted(s, p) ==
  /\ p \in DOMAIN ledger[s]
  /\ ~ledger[s][p].stale
  /\ ledger[s][p].seen # Absent

ReadNow(s, p) == \E x \in reads[s] : Rel[x.raw] = p

\* Whenever the request read p, it gave the cleaned path, and no other call of
\* the request with the same id names another file.
PlainlyNamed(s, p) ==
  \A x \in reads[s] : Rel[x.raw] = p =>
    /\ x.raw = p
    /\ \A y \in asked[s] : y.id = x.id => Name(y.raw) \in {p, NoName}

\* A file the request has read is trusted only while what it read is still in
\* the conversation: compaction never drops the contents and leaves the ledger
\* vouching for them (compact.go: "the read-before-edit check would otherwise be
\* vouching for contents nobody can see"), whatever ids the client's messages
\* and the other calls have.  It is said of files that were named plainly: what
\* was read by another spelling, with a reused id, or by arguments with text
\* behind them is pruned under another name or none, and stays trusted.
PlainlyVouchedIsVisible ==
  \A s \in Session, p \in Path :
    ReadNow(s, p) /\ PlainlyNamed(s, p) /\ Trusted(s, p) => InContext(s, p)
=============================================================================
