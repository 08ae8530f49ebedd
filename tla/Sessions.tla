------------------------------ MODULE Sessions ------------------------------
(***************************************************************************)
(* The life of workspace sessions: the registry (internal/workspace/       *)
(* manager.go), the handlers that create, use and delete sessions          *)
(* (internal/server/chat.go, sessions.go), the sweeper that evicts idle    *)
(* ones, and the process that starts and stops all of it                   *)
(* (cmd/harness-api/main.go).                                              *)
(*                                                                         *)
(* Handlers, the sweeper and the shutdown path are separate goroutines.    *)
(* Each action is one critical section of the manager's mutex m.mu or of a *)
(* session's lock, or one system call on a directory, so everything the    *)
(* locks do not exclude is interleaved.  m.mu is held over several actions *)
(* only by the sweeper.                                                    *)
(*                                                                         *)
(* A workspace the server created is the directory root/id; it is named    *)
(* here by the id.  Left out: what a run does to the files, the HTTP       *)
(* answers, lookups of unknown ids (no state changes), and the clock,      *)
(* which only decides when a session has been unused for the idle TTL.     *)
(***************************************************************************)
EXTENDS Naturals, FiniteSets

CONSTANTS
  Client,       \* HTTP requests that may be in progress at once
  Id,           \* session ids; none is ever handed out twice
  CallerDir,    \* existing directories callers may bind a session to
  Sweeper,      \* the goroutine of Manager.Run
  Main,         \* the goroutine of main
  Nobody,       \* holder of a free lock
  Owned,        \* bound to root/id, made by the server
  Unused,       \* an id not handed out yet
  Drains,       \* whether Close waits for requests to finish, as main does
  MaxRestarts   \* bound: restarts of the process

Actor == Client \cup {Sweeper, Main}

Directory == Id \cup CallerDir

ASSUME SessionsAssumption ==
  /\ Sweeper \notin Client /\ Main \notin Client /\ Sweeper # Main
  /\ Nobody \notin Actor
  /\ Id \cap CallerDir = {}
  /\ Nobody \notin Id
  /\ Owned \notin Directory /\ Unused \notin Directory /\ Owned # Unused
  /\ Drains \in BOOLEAN /\ MaxRestarts \in Nat

VARIABLES
  proc,        \* the process: serving, draining, closing or exited
  closed,      \* Manager.closed
  registered,  \* keys of Manager.sessions
  bound,       \* bound[i]: the directory of session i
  onDisk,      \* directories that exist
  open,        \* sessions whose jail is open
  idle,        \* sessions last used at least the idle TTL ago
  holder,      \* holder[i]: who holds the session's lock
  req,         \* req[c]: the request being handled
  sweep,       \* the sweep in progress
  doomed,      \* doomed[a]: sessions a took out of the registry to destroy
  removing,    \* removing[a]: the one whose directory a is about to remove
  lost,        \* server-made directories nothing will ever remove
  restarts

vars == <<proc, closed, registered, bound, onDisk, open, idle, holder, req,
          sweep, doomed, removing, lost, restarts>>

procVars == <<proc, closed, restarts>>
-----------------------------------------------------------------------------
Step == {"found", "touched", "claimed", "released", "removing",
         "made", "opened", "adopted", "running"}

Request == [op : {"chat", "create", "get", "delete"}, id : Id, at : Step]

NoRequest == [op |-> "none"]

Busy(c) == req[c] # NoRequest

At(c, step) == Busy(c) /\ req[c].at = step

SweepState == {"asleep", "scan", "probe", "probed", "stopped"}

TypeOK ==
  /\ proc \in {"serving", "draining", "closing", "exited"}
  /\ closed \in BOOLEAN
  /\ registered \subseteq Id
  /\ bound \in [Id -> Directory \cup {Owned, Unused}]
  /\ onDisk \subseteq Directory
  /\ open \subseteq Id /\ idle \subseteq Id /\ lost \subseteq Id
  /\ holder \in [Id -> Actor \cup {Nobody}]
  /\ req \in [Client -> Request \cup {NoRequest}]
  /\ sweep \in [at : SweepState, todo : SUBSET Id, id : Id \cup {Nobody}]
  /\ sweep.at \in {"probe", "probed"} => sweep.id \in Id
  /\ doomed \in [Actor -> SUBSET Id]
  /\ removing \in [Actor -> SUBSET Id]
  /\ restarts \in 0..MaxRestarts

\* A sweep at step `at`: the sessions not looked at yet, and the one looked at.
Sweep(at, todo, i) == [at |-> at, todo |-> todo, id |-> i]

Asleep == Sweep("asleep", {}, Nobody)

Nothing == [a \in Actor |-> {}]

\* NewManager, in a process that has just started.
Init ==
  /\ proc = "serving" /\ closed = FALSE
  /\ registered = {} /\ open = {} /\ idle = {}
  /\ holder = [i \in Id |-> Nobody]
  /\ req = [c \in Client |-> NoRequest]
  /\ sweep = Asleep
  /\ doomed = Nothing /\ removing = Nothing
  /\ bound = [i \in Id |-> Unused]
  /\ onDisk = CallerDir
  /\ lost = {}
  /\ restarts = 0
-----------------------------------------------------------------------------
(* Requests.                                                               *)

\* The sweeper holds m.mu from the start to the end of its scan.
MuFree == sweep.at \in {"asleep", "stopped"}

Reach(c, step) == req' = [req EXCEPT ![c].at = step]

Answer(c) == req' = [req EXCEPT ![c] = NoRequest]

\* Removing a tree that was made for session i succeeds or leaves it behind.
RemoveTree(i) ==
  \/ onDisk' = onDisk \ {i} /\ UNCHANGED lost
  \/ lost' = lost \cup {i} /\ UNCHANGED onDisk

\* Manager.Get up to the release of m.mu.
Lookup(c, i, op) ==
  /\ proc = "serving" /\ ~Busy(c) /\ MuFree
  /\ i \in registered
  /\ req' = [req EXCEPT ![c] = [op |-> op, id |-> i, at |-> "found"]]
  /\ UNCHANGED <<procVars, registered, bound, onDisk, open, idle, holder,
                 sweep, doomed, removing, lost>>

\* The rest of Manager.Get.
Touch(c) ==
  /\ At(c, "found")
  /\ idle' = idle \ {req[c].id}
  /\ IF req[c].op = "get" THEN Answer(c) ELSE Reach(c, "touched")
  /\ UNCHANGED <<procVars, registered, bound, onDisk, open, holder, sweep,
                 doomed, removing, lost>>

\* Deliberately wrong: the lock is taken whoever holds it.
ClaimBlindly(c) ==
  /\ At(c, "touched")
  /\ holder' = [holder EXCEPT ![req[c].id] = c]
  /\ Reach(c, "claimed")
  /\ UNCHANGED <<procVars, registered, bound, onDisk, open, idle, sweep,
                 doomed, removing, lost>>

Claim(c) ==
  /\ At(c, "touched")
  /\ holder[req[c].id] = Nobody
  /\ holder' = [holder EXCEPT ![req[c].id] = c]
  /\ Reach(c, "claimed")
  /\ UNCHANGED <<procVars, registered, bound, onDisk, open, idle, sweep,
                 doomed, removing, lost>>

\* 409: the session is handling another request.
Conflict(c) ==
  /\ At(c, "touched")
  /\ holder[req[c].id] # Nobody
  /\ Answer(c)
  /\ UNCHANGED <<procVars, registered, bound, onDisk, open, idle, holder,
                 sweep, doomed, removing, lost>>

BeginRun(c) ==
  /\ At(c, "claimed") /\ req[c].op = "chat"
  /\ idle' = idle \ {req[c].id}
  /\ Reach(c, "running")
  /\ UNCHANGED <<procVars, registered, bound, onDisk, open, holder, sweep,
                 doomed, removing, lost>>

\* Deliberately wrong: the lock is not released.
EndRunLocked(c) ==
  /\ At(c, "running")
  /\ Answer(c)
  /\ UNCHANGED <<procVars, registered, bound, onDisk, open, idle, holder,
                 sweep, doomed, removing, lost>>

\* An answer, an error, a panic or a disconnected caller: the deferred release.
EndRun(c) ==
  /\ At(c, "running")
  /\ holder' = [holder EXCEPT ![req[c].id] = Nobody]
  /\ Answer(c)
  /\ UNCHANGED <<procVars, registered, bound, onDisk, open, idle, sweep,
                 doomed, removing, lost>>

Begin(c, i, op) ==
  /\ proc = "serving" /\ ~Busy(c)
  /\ bound[i] = Unused
  /\ req' = [req EXCEPT ![c] = [op |-> op, id |-> i, at |-> "made"]]

\* CreateEphemeral: a fresh id and its directory.
Make(c, i, op) ==
  /\ Begin(c, i, op)
  /\ bound' = [bound EXCEPT ![i] = Owned]
  /\ onDisk' = onDisk \cup {i}
  /\ UNCHANGED <<procVars, registered, open, idle, holder, sweep, doomed,
                 removing, lost>>

\* CreateAt: a directory the caller nominated, which exists.  It may be one this
\* server made.
Nominate(c, i, op, d) ==
  /\ Begin(c, i, op)
  /\ d \in onDisk
  /\ bound' = [bound EXCEPT ![i] = d]
  /\ UNCHANGED <<procVars, registered, onDisk, open, idle, holder, sweep,
                 doomed, removing, lost>>

OpenJail(c) ==
  /\ At(c, "made")
  /\ open' = open \cup {req[c].id}
  /\ Reach(c, "opened")
  /\ UNCHANGED <<procVars, registered, bound, onDisk, idle, holder, sweep,
                 doomed, removing, lost>>

\* The directory made for a session that could not be created is removed; its
\* failure to go is ignored.
Discard(i) ==
  IF bound[i] = Owned THEN RemoveTree(i) ELSE UNCHANGED <<onDisk, lost>>

OpenFails(c) ==
  /\ At(c, "made")
  /\ Discard(req[c].id)
  /\ Answer(c)
  /\ UNCHANGED <<procVars, registered, bound, open, idle, holder, sweep,
                 doomed, removing>>

\* The session is published before a request that created it has its lock.
Adopt(c) ==
  /\ At(c, "opened") /\ MuFree /\ ~closed
  /\ registered' = registered \cup {req[c].id}
  /\ IF req[c].op = "create" THEN Answer(c) ELSE Reach(c, "adopted")
  /\ UNCHANGED <<procVars, bound, onDisk, open, idle, holder, sweep, doomed,
                 removing, lost>>

\* Deliberately wrong: the directory made for the session stays.
RejectKeepsDir(c) ==
  /\ At(c, "opened") /\ MuFree /\ closed
  /\ open' = open \ {req[c].id}
  /\ Answer(c)
  /\ UNCHANGED <<procVars, registered, bound, onDisk, idle, holder, sweep,
                 doomed, removing, lost>>

Reject(c) ==
  /\ At(c, "opened") /\ MuFree /\ closed
  /\ open' = open \ {req[c].id}
  /\ Discard(req[c].id)
  /\ Answer(c)
  /\ UNCHANGED <<procVars, registered, bound, idle, holder, sweep, doomed,
                 removing>>

\* Unlike a request that names its session, this one waits for the lock.
LockNew(c) ==
  /\ At(c, "adopted")
  /\ holder[req[c].id] = Nobody
  /\ holder' = [holder EXCEPT ![req[c].id] = c]
  /\ Reach(c, "running")
  /\ UNCHANGED <<procVars, registered, bound, onDisk, open, idle, sweep,
                 doomed, removing, lost>>

\* DELETE found the lock free and lets go of it at once.
Release(c) ==
  /\ At(c, "claimed") /\ req[c].op = "delete"
  /\ holder' = [holder EXCEPT ![req[c].id] = Nobody]
  /\ Reach(c, "released")
  /\ UNCHANGED <<procVars, registered, bound, onDisk, open, idle, sweep,
                 doomed, removing, lost>>

\* Deliberately wrong: relies on the session Get found.
RemoveFound(c) ==
  /\ At(c, "released") /\ MuFree
  /\ registered' = registered \ {req[c].id}
  /\ doomed' = [doomed EXCEPT ![c] = {req[c].id}]
  /\ Reach(c, "removing")
  /\ UNCHANGED <<procVars, bound, onDisk, open, idle, holder, sweep, removing,
                 lost>>

\* Manager.Remove, up to destroy.
Remove(c) ==
  /\ At(c, "released") /\ MuFree
  /\ req[c].id \in registered
  /\ registered' = registered \ {req[c].id}
  /\ doomed' = [doomed EXCEPT ![c] = {req[c].id}]
  /\ Reach(c, "removing")
  /\ UNCHANGED <<procVars, bound, onDisk, open, idle, holder, sweep, removing,
                 lost>>

AlreadyGone(c) ==
  /\ At(c, "released") /\ MuFree
  /\ req[c].id \notin registered
  /\ Answer(c)
  /\ UNCHANGED <<procVars, registered, bound, onDisk, open, idle, holder,
                 sweep, doomed, removing, lost>>

Deleted(c) ==
  /\ At(c, "removing")
  /\ doomed[c] = {} /\ removing[c] = {}
  /\ Answer(c)
  /\ UNCHANGED <<procVars, registered, bound, onDisk, open, idle, holder,
                 sweep, doomed, removing, lost>>
-----------------------------------------------------------------------------
(* Manager.destroy, by whoever took the session out of the registry.       *)

\* Deliberately wrong: an error closing the jail is retried for ever.
CloseJailRetries(a, i) ==
  /\ i \in doomed[a] /\ removing[a] = {}
  /\ open' = open \ {i}
  /\ UNCHANGED <<procVars, registered, bound, onDisk, idle, holder, req, sweep,
                 doomed, removing, lost>>

CloseJail(a, i) ==
  /\ i \in doomed[a] /\ removing[a] = {}
  /\ open' = open \ {i}
  /\ doomed' = [doomed EXCEPT ![a] = @ \ {i}]
  /\ removing' = [removing EXCEPT ![a] = {j \in {i} : bound[j] = Owned}]
  /\ UNCHANGED <<procVars, registered, bound, onDisk, idle, holder, req, sweep,
                 lost>>

RemoveDir(a, i) ==
  /\ i \in removing[a]
  /\ RemoveTree(i)
  /\ removing' = [removing EXCEPT ![a] = @ \ {i}]
  /\ UNCHANGED <<procVars, registered, bound, open, idle, holder, req, sweep,
                 doomed>>

Destroy(a) == \E i \in Id : CloseJail(a, i) \/ RemoveDir(a, i)
-----------------------------------------------------------------------------
(* The sweeper.                                                            *)

\* The idle TTL passes since the last use.
Age(i) ==
  /\ i \in registered \ idle
  /\ idle' = idle \cup {i}
  /\ UNCHANGED <<procVars, registered, bound, onDisk, open, holder, req, sweep,
                 doomed, removing, lost>>

SweepQuiet ==
  UNCHANGED <<procVars, bound, onDisk, open, idle, req, removing, lost>>

\* A tick.  The select may prefer it to a context that is already cancelled.
SweepStart ==
  /\ proc # "exited" /\ sweep.at = "asleep"
  /\ doomed[Sweeper] = {} /\ removing[Sweeper] = {}
  /\ sweep' = Sweep("scan", registered, Nobody)
  /\ UNCHANGED <<registered, holder, doomed>> /\ SweepQuiet

SweepFresh(i) ==
  /\ sweep.at = "scan" /\ i \in sweep.todo \ idle
  /\ sweep' = Sweep("scan", sweep.todo \ {i}, Nobody)
  /\ UNCHANGED <<registered, holder, doomed>> /\ SweepQuiet

SweepIdle(i) ==
  /\ sweep.at = "scan" /\ i \in sweep.todo \cap idle
  /\ sweep' = Sweep("probe", sweep.todo, i)
  /\ UNCHANGED <<registered, holder, doomed>> /\ SweepQuiet

SweepInUse ==
  /\ sweep.at = "probe" /\ holder[sweep.id] # Nobody
  /\ sweep' = Sweep("scan", sweep.todo \ {sweep.id}, Nobody)
  /\ UNCHANGED <<registered, holder, doomed>> /\ SweepQuiet

SweepProbe ==
  /\ sweep.at = "probe" /\ holder[sweep.id] = Nobody
  /\ holder' = [holder EXCEPT ![sweep.id] = Sweeper]
  /\ sweep' = Sweep("probed", sweep.todo, sweep.id)
  /\ UNCHANGED <<registered, doomed>> /\ SweepQuiet

\* Deliberately wrong: the session stays in the registry.
SweepEvictKeepsKey ==
  /\ sweep.at = "probed"
  /\ holder' = [holder EXCEPT ![sweep.id] = Nobody]
  /\ doomed' = [doomed EXCEPT ![Sweeper] = @ \cup {sweep.id}]
  /\ sweep' = Sweep("scan", sweep.todo \ {sweep.id}, Nobody)
  /\ UNCHANGED registered /\ SweepQuiet

\* Deliberately wrong: the session is forgotten and its workspace stays.
SweepEvictForgets ==
  /\ sweep.at = "probed"
  /\ holder' = [holder EXCEPT ![sweep.id] = Nobody]
  /\ registered' = registered \ {sweep.id}
  /\ sweep' = Sweep("scan", sweep.todo \ {sweep.id}, Nobody)
  /\ UNCHANGED doomed /\ SweepQuiet

\* The lock is let go before the session leaves the registry.
SweepEvict ==
  /\ sweep.at = "probed"
  /\ holder' = [holder EXCEPT ![sweep.id] = Nobody]
  /\ registered' = registered \ {sweep.id}
  /\ doomed' = [doomed EXCEPT ![Sweeper] = @ \cup {sweep.id}]
  /\ sweep' = Sweep("scan", sweep.todo \ {sweep.id}, Nobody)
  /\ SweepQuiet

SweepEnd ==
  /\ sweep.at = "scan" /\ sweep.todo = {}
  /\ sweep' = Asleep
  /\ UNCHANGED <<registered, holder, doomed>> /\ SweepQuiet

SweeperStop ==
  /\ proc \in {"draining", "closing"} /\ sweep.at = "asleep"
  /\ doomed[Sweeper] = {} /\ removing[Sweeper] = {}
  /\ sweep' = Sweep("stopped", {}, Nobody)
  /\ UNCHANGED <<registered, holder, doomed>> /\ SweepQuiet
-----------------------------------------------------------------------------
(* The process.                                                            *)

\* SIGINT or SIGTERM: no request is accepted any more.
Signal ==
  /\ proc = "serving"
  /\ proc' = "draining"
  /\ UNCHANGED <<closed, registered, bound, onDisk, open, idle, holder, req,
                 sweep, doomed, removing, lost, restarts>>

\* http.Server.Shutdown returns, and Manager.Close empties the registry.
Close ==
  /\ proc = "draining" /\ MuFree
  /\ Drains => \A c \in Client : ~Busy(c)
  /\ proc' = "closing"
  /\ closed' = TRUE
  /\ registered' = {}
  /\ doomed' = [doomed EXCEPT ![Main] = registered]
  /\ UNCHANGED <<bound, onDisk, open, idle, holder, req, sweep, removing, lost,
                 restarts>>

\* The process ends, with its memory and every goroutine.  Directories stay.
Exit ==
  /\ proc' = "exited" /\ closed' = FALSE
  /\ registered' = {} /\ open' = {} /\ idle' = {}
  /\ holder' = [i \in Id |-> Nobody]
  /\ req' = [c \in Client |-> NoRequest]
  /\ sweep' = Asleep
  /\ doomed' = Nothing /\ removing' = Nothing
  /\ lost' = lost \cup (onDisk \cap Id)
  /\ UNCHANGED <<bound, onDisk, restarts>>

CloseDone ==
  /\ proc = "closing"
  /\ doomed[Main] = {} /\ removing[Main] = {}
  /\ Exit

\* The grace period is over and main returns without closing the manager.
GraceOver == proc = "draining" /\ Exit

\* The listener fails and main returns, or the process is killed.
Crash == proc # "exited" /\ Exit

\* NewManager does not look at what an earlier process left under the root.
Restart ==
  /\ proc = "exited"
  /\ restarts < MaxRestarts
  /\ proc' = "serving"
  /\ restarts' = restarts + 1
  /\ UNCHANGED <<closed, registered, bound, onDisk, open, idle, holder, req,
                 sweep, doomed, removing, lost>>
-----------------------------------------------------------------------------
NewRequest(c) ==
  \/ \E i \in Id, op \in {"chat", "get", "delete"} : Lookup(c, i, op)
  \/ \E i \in Id, op \in {"chat", "create"} :
       Make(c, i, op) \/ \E d \in Directory : Nominate(c, i, op, d)

Progress(c) ==
  \/ Touch(c) \/ Claim(c) \/ Conflict(c) \/ BeginRun(c) \/ EndRun(c)
  \/ OpenJail(c) \/ OpenFails(c) \/ Adopt(c) \/ Reject(c) \/ LockNew(c)
  \/ Release(c) \/ Remove(c) \/ AlreadyGone(c) \/ Deleted(c)

SweepStep ==
  \/ SweepStart \/ SweepInUse \/ SweepProbe \/ SweepEvict \/ SweepEnd
  \/ SweeperStop
  \/ \E i \in Id : SweepFresh(i) \/ SweepIdle(i)

ProcStep == Signal \/ Close \/ CloseDone \/ GraceOver \/ Crash \/ Restart

Next ==
  \/ \E c \in Client : NewRequest(c) \/ Progress(c)
  \/ \E a \in Actor : Destroy(a)
  \/ \E i \in Id : Age(i)
  \/ SweepStep
  \/ ProcStep

Spec == Init /\ [][Next]_vars

\* Goroutines that can run are run, and a sync.Mutex hands itself to a waiter
\* that has waited long enough, so a request waiting on a mutex that is freed
\* again and again gets it.  The ticker fires for ever, time passes, a run is
\* bounded by its wall clock budget, and the shutdown grace period ends.
Fairness ==
  /\ \A c \in Client : SF_vars(Progress(c))
  /\ \A a \in Actor : WF_vars(Destroy(a))
  /\ \A i \in Id : WF_vars(Age(i))
  /\ WF_vars(SweepStep)
  /\ WF_vars(CloseDone)
  /\ WF_vars(GraceOver)

FairSpec == Spec /\ Fairness
-----------------------------------------------------------------------------
(* Properties.                                                             *)

Pending(a) == doomed[a] \cup removing[a]

\* A request has made i and not yet published it.
Creating(i) == \E c \in Client : /\ At(c, "made") \/ At(c, "opened")
                                 /\ req[c].id = i

\* Two runs never share a session, whoever created it, found it, is deleting it
\* or sweeps it meanwhile (session.go: the lock is held for the duration of a
\* request).
OneRunPerSession ==
  \A c, d \in Client :
    At(c, "running") /\ At(d, "running") /\ req[c].id = req[d].id => c = d

\* DELETE, the sweeper and shutdown never both destroy one session, and none
\* destroys a session the registry still hands out (the map is the only claim:
\* whoever deletes the key destroys).
DestroyedOnce ==
  \A a \in Actor :
    /\ Pending(a) \cap registered = {}
    /\ \A b \in Actor : a # b => Pending(a) \cap Pending(b) = {}

\* Every jail that is open and every directory the server made belongs to a
\* session being created, one in the registry, or one being destroyed; only a
\* failed removal or the end of the process orphans a directory, never a jail.
NothingLeaks ==
  /\ \A i \in open :
       i \in registered \/ Creating(i) \/ \E a \in Actor : i \in doomed[a]
  /\ \A i \in onDisk \cap Id :
       \/ i \in registered \/ Creating(i) \/ i \in lost
       \/ \E a \in Actor : i \in Pending(a)

\* A directory disappears only if the server made it for a session that is out
\* of the registry and whose jail is closed (manager.go: the one place that
\* removes a directory tree).
OnlyDeadWorkspacesRemoved ==
  [][\A d \in onDisk \ onDisk' :
       d \in Id /\ bound[d] = Owned /\ d \notin registered \cup open']_vars

\* A run keeps its workspace: nobody destroys a session while a request runs in
\* it (sessions.go: "Refuse rather than pull the workspace out from under a
\* request that is still using it"; manager.go: "A session currently serving a
\* request is never evicted").
NoRunLosesItsWorkspace ==
  \A c \in Client : At(c, "running") => req[c].id \in open

\* Sessions as SessionLife sees them.
Handed == {i \in Id : bound[i] # Unused}

Coming == {i \in Id : Creating(i)}

Going == UNION {Pending(a) : a \in Actor}

Runs == {<<c, req[c].id>> : c \in {d \in Client : At(d, "running")}}

Life == INSTANCE SessionLife
          WITH known <- Handed,
               coming <- Coming,
               live <- registered,
               going <- Going,
               runs <- Runs,
               tree <- onDisk \cap Id

\* However requests, the sweeper, shutdown and crashes interleave, a session
\* comes, lives, goes and is gone, once, and its tree goes with it
\* (manager.go: the registry; session.go: the lock of a session).
LifeImplemented == Life!Spec

\* Some request is about session i.
Used(i) == \E c \in Client : Busy(c) /\ req[c].id = i

\* A workspace the server made and nobody uses is removed in the end, unless
\* the removal fails or the process ends first.
AbandonedIsReclaimed ==
  \A i \in Id : i \in onDisk ~> i \notin onDisk \/ i \in lost \/ Used(i)

\* A request that created its session gets to run in it, even when another
\* client finds the session in the list and takes its lock first.
NewSessionRuns ==
  \A c \in Client :
    At(c, "adopted") ~> At(c, "running") \/ proc = "exited"

\* After a signal the process ends, whatever requests and sweeps are doing.
ShutdownEnds == proc = "draining" ~> proc = "exited"
=============================================================================
