--------------------------- MODULE SessionsProofs ---------------------------
(***************************************************************************)
(* Theorems about Sessions, for every number of concurrent requests,       *)
(* session ids, nominated directories and restarts, whether or not closing *)
(* the manager waits for the requests in progress.                         *)
(***************************************************************************)
EXTENDS Sessions, TLAPS

-----------------------------------------------------------------------------
(* How a request moves on.                                                 *)

LEMMA BusyIsRequest ==
  ASSUME TypeOK, NEW c \in Client, Busy(c)
  PROVE  req[c] \in Request
  BY DEF TypeOK, Busy

LEMMA ReachFacts ==
  ASSUME TypeOK, NEW c \in Client, Busy(c), NEW step \in Step, Reach(c, step)
  PROVE  /\ req' \in [Client -> Request \cup {NoRequest}]
         /\ Busy(c)'
         /\ req'[c].at = step
         /\ req'[c].id = req[c].id
         /\ \A d \in Client \ {c} : req'[d] = req[d]
  <1>1. req[c] \in Request
    BY BusyIsRequest
  <1>2. [req[c] EXCEPT !.at = step] \in Request
    BY <1>1 DEF Request
  <1>3. req'[c] = [req[c] EXCEPT !.at = step]
    BY DEF TypeOK, Reach
  <1>4. NoRequest \notin Request
    BY DEF NoRequest, Request
  <1>5. req'[c].at = step /\ req'[c].id = req[c].id
    BY <1>1, <1>3 DEF Request
  <1> QED BY <1>2, <1>3, <1>4, <1>5 DEF TypeOK, Reach, Busy

LEMMA AnswerFacts ==
  ASSUME TypeOK, NEW c \in Client, Answer(c)
  PROVE  /\ req' \in [Client -> Request \cup {NoRequest}]
         /\ ~Busy(c)'
         /\ \A d \in Client \ {c} : req'[d] = req[d]
  BY DEF TypeOK, Answer, Busy

LEMMA NewRequestFacts ==
  ASSUME TypeOK, NEW c \in Client, NEW i \in Id,
         NEW op \in {"chat", "create", "get", "delete"},
         NEW step \in Step,
         req' = [req EXCEPT ![c] = [op |-> op, id |-> i, at |-> step]]
  PROVE  /\ req' \in [Client -> Request \cup {NoRequest}]
         /\ Busy(c)' /\ req'[c].at = step /\ req'[c].id = i
         /\ \A d \in Client \ {c} : req'[d] = req[d]
  <1>1. [op |-> op, id |-> i, at |-> step] \in Request
    BY DEF Request
  <1>2. NoRequest \notin Request
    BY DEF NoRequest, Request
  <1> QED BY <1>1, <1>2 DEF TypeOK, Busy
-----------------------------------------------------------------------------
(* Type correctness.                                                       *)

LEMMA ClientKeepsType ==
  ASSUME TypeOK, NEW c \in Client, NewRequest(c) \/ Progress(c)
  PROVE  TypeOK'
  <1> USE DEF procVars, Step
  <1>0. Busy(c) => req[c].id \in Id
    BY BusyIsRequest DEF Request
  <1>1. ASSUME NEW i \in Id, NEW op \in {"chat", "get", "delete"},
               Lookup(c, i, op)
        PROVE  TypeOK'
    BY <1>1, NewRequestFacts DEF Lookup, TypeOK
  <1>2. ASSUME NEW i \in Id, NEW op \in {"chat", "create"}, Make(c, i, op)
        PROVE  TypeOK'
    BY <1>2, NewRequestFacts DEF Make, Begin, TypeOK, Directory
  <1>3. ASSUME NEW i \in Id, NEW op \in {"chat", "create"}, NEW d \in Directory,
               Nominate(c, i, op, d)
        PROVE  TypeOK'
    BY <1>3, NewRequestFacts DEF Nominate, Begin, TypeOK
  <1>4. CASE Touch(c)
    BY <1>4, ReachFacts, AnswerFacts DEF Touch, At, TypeOK
  <1>5. CASE Claim(c)
    BY <1>0, <1>5, ReachFacts DEF Claim, At, TypeOK, Actor
  <1>6. CASE Conflict(c)
    BY <1>6, AnswerFacts DEF Conflict, TypeOK
  <1>7. CASE BeginRun(c)
    BY <1>7, ReachFacts DEF BeginRun, At, TypeOK
  <1>8. CASE EndRun(c)
    BY <1>8, AnswerFacts DEF EndRun, TypeOK
  <1>9. CASE OpenJail(c)
    BY <1>0, <1>9, ReachFacts DEF OpenJail, At, TypeOK
  <1>10. CASE OpenFails(c)
    BY <1>0, <1>10, AnswerFacts DEF OpenFails, Discard, RemoveTree, At, TypeOK
  <1>11. CASE Adopt(c)
    BY <1>0, <1>11, ReachFacts, AnswerFacts DEF Adopt, At, TypeOK
  <1>12. CASE Reject(c)
    BY <1>0, <1>12, AnswerFacts DEF Reject, Discard, RemoveTree, At, TypeOK
  <1>13. CASE LockNew(c)
    BY <1>0, <1>13, ReachFacts DEF LockNew, At, TypeOK, Actor
  <1>14. CASE Release(c)
    BY <1>14, ReachFacts DEF Release, At, TypeOK
  <1>15. CASE Remove(c)
    BY <1>0, <1>15, ReachFacts DEF Remove, At, TypeOK
  <1>16. CASE AlreadyGone(c)
    BY <1>16, AnswerFacts DEF AlreadyGone, TypeOK
  <1>17. CASE Deleted(c)
    BY <1>17, AnswerFacts DEF Deleted, TypeOK
  <1> QED BY <1>1, <1>2, <1>3, <1>4, <1>5, <1>6, <1>7, <1>8, <1>9, <1>10, <1>11,
             <1>12, <1>13, <1>14, <1>15, <1>16, <1>17 DEF NewRequest, Progress

LEMMA DestroyKeepsType ==
  ASSUME TypeOK, NEW a \in Actor, Destroy(a)
  PROVE  TypeOK'
  BY DEF Destroy, CloseJail, RemoveDir, RemoveTree, procVars, TypeOK

LEMMA SweepKeepsType ==
  ASSUME TypeOK, SweepStep
  PROVE  TypeOK'
  <1> USE DEF SweepQuiet, procVars, TypeOK, Sweep, SweepState
  <1>1. CASE SweepStart
    BY <1>1 DEF SweepStart
  <1>2. CASE SweepInUse
    BY <1>2 DEF SweepInUse
  <1>3. CASE SweepProbe
    BY <1>3 DEF SweepProbe, Actor
  <1>4. CASE SweepEvict
    <2>1. sweep.id \in Id
      BY <1>4 DEF SweepEvict
    <2> QED BY <1>4, <2>1 DEF SweepEvict
  <1>5. CASE SweepEnd
    BY <1>5 DEF SweepEnd, Asleep
  <1>6. CASE SweeperStop
    BY <1>6 DEF SweeperStop
  <1>7. ASSUME NEW i \in Id, SweepFresh(i) PROVE TypeOK'
    BY <1>7 DEF SweepFresh
  <1>8. ASSUME NEW i \in Id, SweepIdle(i) PROVE TypeOK'
    BY <1>8 DEF SweepIdle
  <1> QED BY <1>1, <1>2, <1>3, <1>4, <1>5, <1>6, <1>7, <1>8 DEF SweepStep

LEMMA ProcKeepsType ==
  ASSUME TypeOK, ProcStep
  PROVE  TypeOK'
  <1>1. CASE Signal
    BY <1>1 DEF Signal, TypeOK
  <1>2. CASE Close
    BY <1>2 DEF Close, TypeOK
  <1>3. CASE CloseDone \/ GraceOver \/ Crash
    <2>1. Exit
      BY <1>3 DEF CloseDone, GraceOver, Crash
    <2>2. Asleep \in [at : SweepState, todo : SUBSET Id, id : Id \cup {Nobody}]
          /\ Asleep.at = "asleep"
      BY DEF Asleep, Sweep, SweepState
    <2>3. Nothing \in [Actor -> SUBSET Id]
      BY DEF Nothing
    <2>4. [i \in Id |-> Nobody] \in [Id -> Actor \cup {Nobody}]
      OBVIOUS
    <2>5. [c \in Client |-> NoRequest] \in [Client -> Request \cup {NoRequest}]
      OBVIOUS
    <2> HIDE DEF Asleep, Nothing, NoRequest
    <2> QED BY <2>1, <2>2, <2>3, <2>4, <2>5 DEF Exit, TypeOK
  <1>4. CASE Restart
    BY <1>4, SessionsAssumption DEF Restart, TypeOK
  <1> QED BY <1>1, <1>2, <1>3, <1>4 DEF ProcStep
-----------------------------------------------------------------------------
(* The inductive invariant: who may lock, create and destroy a session.    *)

Locked(c) == At(c, "claimed") \/ At(c, "running")

LocksHeld ==
  /\ \A c \in Client : Locked(c) => holder[req[c].id] = c
  /\ sweep.at = "probed" => holder[sweep.id] = Sweeper

\* An id is handed out once, and only the server's own ids have a tree.
IdsFresh ==
  \A i \in Id :
    /\ bound[i] = Unused =>
         i \notin registered \cup open /\ \A a \in Actor : i \notin Pending(a)
    /\ i \in onDisk => bound[i] = Owned

Making(c) == At(c, "made") \/ At(c, "opened")

\* A session being created is its creator's alone.
MakersOwn ==
  \A c \in Client : Making(c) =>
    /\ bound[req[c].id] # Unused
    /\ req[c].id \notin registered
    /\ \A a \in Actor : req[c].id \notin Pending(a)
    /\ At(c, "made") => req[c].id \notin open
    /\ \A d \in Client : Making(d) /\ req[d].id = req[c].id => d = c

DestroyersOwn ==
  /\ DestroyedOnce
  /\ \A a \in Actor : removing[a] \cap (open \cup doomed[a]) = {}
  /\ \A c \in Client : ~At(c, "removing") => Pending(c) = {}
  /\ proc # "closing" => Pending(Main) = {}

\* While the sweeper holds m.mu nothing it has listed leaves the registry.
ScanHolds ==
  ~MuFree =>
    /\ sweep.todo \subseteq registered
    /\ sweep.at \in {"probe", "probed"} => sweep.id \in sweep.todo

IInv ==
  /\ TypeOK /\ LocksHeld /\ IdsFresh /\ MakersOwn /\ DestroyersOwn
  /\ ScanHolds /\ NothingLeaks
-----------------------------------------------------------------------------
(* Locks.                                                                  *)

\* A step that takes or frees no lock, and locks no session for a request.
LEMMA NoLockTaken ==
  ASSUME LocksHeld, UNCHANGED <<holder, sweep>>,
         \A d \in Client : Locked(d)' => Locked(d) /\ req'[d].id = req[d].id
  PROVE  LocksHeld'
  BY DEF LocksHeld

LEMMA ClientKeepsLocks ==
  ASSUME TypeOK, LocksHeld, NEW c \in Client, NewRequest(c) \/ Progress(c)
  PROVE  LocksHeld'
  <1> USE DEF Step
  <1>1. ASSUME NEW i \in Id, NEW op \in {"chat", "get", "delete"},
               Lookup(c, i, op)
        PROVE  LocksHeld'
    BY <1>1, NewRequestFacts, NoLockTaken DEF Lookup, Locked, At, Busy
  <1>2. ASSUME NEW i \in Id, NEW op \in {"chat", "create"},
               Make(c, i, op) \/ \E d \in Directory : Nominate(c, i, op, d)
        PROVE  LocksHeld'
    BY <1>2, NewRequestFacts, NoLockTaken
    DEF Make, Nominate, Begin, Locked, At, Busy
  <1>3. CASE Touch(c)
    BY <1>3, ReachFacts, AnswerFacts, NoLockTaken DEF Touch, Locked, At, Busy
  <1>4. CASE BeginRun(c)
    BY <1>4, ReachFacts, NoLockTaken DEF BeginRun, Locked, At, Busy
  <1>5. CASE OpenJail(c)
    BY <1>5, ReachFacts, NoLockTaken DEF OpenJail, Locked, At, Busy
  <1>6. CASE Adopt(c)
    BY <1>6, ReachFacts, AnswerFacts, NoLockTaken DEF Adopt, Locked, At, Busy
  <1>7. CASE Remove(c)
    BY <1>7, ReachFacts, NoLockTaken DEF Remove, Locked, At, Busy
  <1>8. CASE Conflict(c) \/ OpenFails(c) \/ Reject(c) \/ AlreadyGone(c) \/ Deleted(c)
    BY <1>8, AnswerFacts, NoLockTaken
    DEF Conflict, OpenFails, Reject, AlreadyGone, Deleted, Locked, At, Busy
  <1>9. CASE Claim(c)
    <2>1. /\ Busy(c) /\ Reach(c, "claimed") /\ req[c].id \in Id
          /\ holder[req[c].id] = Nobody /\ sweep' = sweep
          /\ holder' = [holder EXCEPT ![req[c].id] = c]
      BY <1>9, BusyIsRequest DEF Claim, At, Request
    <2> QED BY <2>1, ReachFacts, SessionsAssumption
            DEF LocksHeld, Locked, At, Busy, TypeOK, Actor
  <1>10. CASE LockNew(c)
    <2>1. /\ Busy(c) /\ Reach(c, "running") /\ req[c].id \in Id
          /\ holder[req[c].id] = Nobody /\ sweep' = sweep
          /\ holder' = [holder EXCEPT ![req[c].id] = c]
      BY <1>10, BusyIsRequest DEF LockNew, At, Request
    <2> QED BY <2>1, ReachFacts, SessionsAssumption
            DEF LocksHeld, Locked, At, Busy, TypeOK, Actor
  <1>11. CASE EndRun(c)
    <2>1. /\ Locked(c) /\ Answer(c) /\ req[c].id \in Id /\ sweep' = sweep
          /\ holder' = [holder EXCEPT ![req[c].id] = Nobody]
      BY <1>11, BusyIsRequest DEF EndRun, At, Locked, Request
    <2> QED BY <2>1, AnswerFacts, SessionsAssumption
            DEF LocksHeld, Locked, At, Busy, TypeOK, Actor
  <1>12. CASE Release(c)
    <2>1. /\ Busy(c) /\ Locked(c) /\ Reach(c, "released") /\ req[c].id \in Id
          /\ sweep' = sweep /\ holder' = [holder EXCEPT ![req[c].id] = Nobody]
      BY <1>12, BusyIsRequest DEF Release, At, Locked, Request
    <2> QED BY <2>1, ReachFacts, SessionsAssumption
            DEF LocksHeld, Locked, At, Busy, TypeOK, Actor
  <1> QED BY <1>1, <1>2, <1>3, <1>4, <1>5, <1>6, <1>7, <1>8, <1>9, <1>10, <1>11,
             <1>12 DEF NewRequest, Progress

LEMMA SweepKeepsLocks ==
  ASSUME TypeOK, LocksHeld, SweepStep
  PROVE  LocksHeld'
  <1> USE DEF SweepQuiet, Sweep, LocksHeld, Locked, At, Busy
  <1>1. CASE SweepProbe
    BY <1>1, SessionsAssumption DEF SweepProbe, TypeOK, Actor
  <1>2. CASE SweepEvict
    BY <1>2, SessionsAssumption DEF SweepEvict, TypeOK, Actor
  <1>3. CASE \/ SweepStart \/ SweepInUse \/ SweepEnd \/ SweeperStop
             \/ \E i \in Id : SweepFresh(i) \/ SweepIdle(i)
    BY <1>3 DEF SweepStart, SweepInUse, SweepEnd, SweeperStop, SweepFresh,
                SweepIdle, Asleep
  <1> QED BY <1>1, <1>2, <1>3 DEF SweepStep
-----------------------------------------------------------------------------
(* Ownership.                                                              *)

Ownership ==
  IdsFresh /\ MakersOwn /\ DestroyersOwn /\ ScanHolds /\ NothingLeaks

\* Request d neither starts nor stops creating or destroying.
SameRole(d) ==
  /\ At(d, "made")' = At(d, "made")
  /\ At(d, "opened")' = At(d, "opened")
  /\ At(d, "removing")' = At(d, "removing")
  /\ Making(d) => req'[d].id = req[d].id

owned == <<proc, registered, bound, onDisk, open, sweep, doomed, removing, lost>>

\* A step that creates, publishes and destroys nothing.
LEMMA NothingOwned ==
  ASSUME Ownership, UNCHANGED owned, \A d \in Client : SameRole(d)
  PROVE  Ownership'
  <1> USE DEF Ownership, owned
  <1>1. IdsFresh'
    BY DEF IdsFresh, Pending
  <1>2. MakersOwn'
    BY DEF MakersOwn, SameRole, Making, Pending
  <1>3. DestroyersOwn'
    BY DEF DestroyersOwn, DestroyedOnce, SameRole, Pending
  <1>4. ScanHolds'
    BY DEF ScanHolds, MuFree
  <1>5. NothingLeaks'
    BY DEF NothingLeaks, Creating, SameRole, Making, Pending
  <1> QED BY <1>1, <1>2, <1>3, <1>4, <1>5

LEMMA QuietRequests ==
  ASSUME TypeOK, Ownership, NEW c \in Client,
         \/ \E i \in Id, op \in {"chat", "get", "delete"} : Lookup(c, i, op)
         \/ Touch(c) \/ Claim(c) \/ Conflict(c) \/ BeginRun(c) \/ EndRun(c)
         \/ LockNew(c) \/ Release(c) \/ AlreadyGone(c)
  PROVE  Ownership'
  <1> USE DEF Step, procVars, owned
  <1>1. ASSUME NEW i \in Id, NEW op \in {"chat", "get", "delete"},
               Lookup(c, i, op)
        PROVE  Ownership'
    <2>1. \A d \in Client : SameRole(d)
      BY <1>1, NewRequestFacts DEF Lookup, SameRole, Making, At, Busy
    <2> QED BY <1>1, <2>1, NothingOwned DEF Lookup
  <1>2. CASE Touch(c)
    <2>1. \A d \in Client : SameRole(d)
      BY <1>2, ReachFacts, AnswerFacts DEF Touch, SameRole, Making, At, Busy
    <2> QED BY <1>2, <2>1, NothingOwned DEF Touch
  <1>3. CASE Claim(c) \/ BeginRun(c) \/ LockNew(c) \/ Release(c)
    <2>1. \A d \in Client : SameRole(d)
      BY <1>3, ReachFacts
      DEF Claim, BeginRun, LockNew, Release, SameRole, Making, At, Busy
    <2> QED BY <1>3, <2>1, NothingOwned DEF Claim, BeginRun, LockNew, Release
  <1>4. CASE Conflict(c) \/ EndRun(c) \/ AlreadyGone(c)
    <2>1. \A d \in Client : SameRole(d)
      BY <1>4, AnswerFacts
      DEF Conflict, EndRun, AlreadyGone, SameRole, Making, At, Busy
    <2> QED BY <1>4, <2>1, NothingOwned DEF Conflict, EndRun, AlreadyGone
  <1> QED BY <1>1, <1>2, <1>3, <1>4

\* A new session: a fresh id, with or without a directory of its own.
LEMMA BeginKeepsOwnership ==
  ASSUME TypeOK, Ownership, NEW c \in Client, NEW i \in Id,
         NEW op \in {"chat", "create"},
         Make(c, i, op) \/ \E d \in Directory : Nominate(c, i, op, d)
  PROVE  Ownership'
  <1> USE DEF Ownership, procVars, Step
  <1>1. /\ ~Busy(c) /\ bound[i] = Unused /\ bound'[i] # Unused
        /\ \A j \in Id \ {i} : bound'[j] = bound[j]
        /\ UNCHANGED <<proc, registered, open, sweep, doomed, removing, lost>>
    BY SessionsAssumption DEF Make, Nominate, Begin, TypeOK
  <1>2. /\ Busy(c)' /\ req'[c].at = "made" /\ req'[c].id = i
        /\ \A d \in Client \ {c} : req'[d] = req[d]
    BY NewRequestFacts DEF Make, Nominate, Begin
  <1>3. \/ onDisk' = onDisk
        \/ onDisk' = onDisk \cup {i} /\ bound'[i] = Owned
    BY DEF Make, Nominate, TypeOK
  <1>4. i \notin onDisk
    BY <1>1, SessionsAssumption DEF IdsFresh
  <1>5. IdsFresh'
    BY <1>1, <1>3, <1>4 DEF IdsFresh, Pending
  <1>6. MakersOwn'
    <2>1. ASSUME NEW d \in Client, d # c
          PROVE  Making(d)' = Making(d) /\ req'[d] = req[d]
      <3>1. req'[d] = req[d]
        BY <1>2, <2>1
      <3> QED BY <3>1 DEF Making, At, Busy
    <2>2. \A d \in Client : Making(d) => req[d].id # i
      BY <1>1 DEF MakersOwn
    <2>3. i \notin registered \cup open /\ \A a \in Actor : i \notin Pending(a)
      BY <1>1 DEF IdsFresh
    <2>4. \A d \in Client : Making(d) => req[d].id \in Id
      BY BusyIsRequest DEF Making, At, Request
    <2> QED BY <1>1, <1>2, <2>1, <2>2, <2>3, <2>4
            DEF MakersOwn, Making, At, Busy, Pending
  <1>7. DestroyersOwn'
    BY <1>1, <1>2 DEF DestroyersOwn, DestroyedOnce, Pending, At, Busy
  <1>8. ScanHolds'
    BY <1>1 DEF ScanHolds, MuFree
  <1>9. NothingLeaks'
    <2>1. Creating(i)'
      BY <1>2 DEF Creating, At, Busy
    <2>2. \A j \in Id : Creating(j) => Creating(j)'
      BY <1>1, <1>2 DEF Creating, At, Busy
    <2> QED BY <1>1, <1>3, <2>1, <2>2 DEF NothingLeaks, Pending, TypeOK
  <1> QED BY <1>5, <1>6, <1>7, <1>8, <1>9

\* The other requests are where they were.
Bystanders(c) ==
  \A d \in Client \ {c} : /\ At(d, "made")' = At(d, "made")
                        /\ At(d, "opened")' = At(d, "opened")
                        /\ At(d, "removing")' = At(d, "removing")
                        /\ req'[d].id = req[d].id

LEMMA BystandersByReach ==
  ASSUME TypeOK, NEW c \in Client, Busy(c), NEW step \in Step, Reach(c, step)
  PROVE  /\ Bystanders(c)
         /\ req'[c].id = req[c].id
         /\ \A st \in Step : At(c, st)' = (st = step)
  BY ReachFacts DEF Bystanders, At, Busy

LEMMA BystandersByAnswer ==
  ASSUME TypeOK, NEW c \in Client, Answer(c)
  PROVE  Bystanders(c) /\ \A st \in Step : ~At(c, st)'
  BY AnswerFacts DEF Bystanders, At, Busy

LEMMA OpenJailKeepsOwnership ==
  ASSUME TypeOK, Ownership, NEW c \in Client, OpenJail(c)
  PROVE  Ownership'
  <1> USE DEF Ownership, procVars, Step
  <1>0. At(c, "made") /\ Making(c) /\ Busy(c) /\ req[c].id \in Id
    BY BusyIsRequest DEF OpenJail, At, Making, Request
  <1>1. /\ open' = open \cup {req[c].id}
        /\ UNCHANGED <<proc, registered, bound, onDisk, sweep, doomed, removing,
                       lost>>
    BY DEF OpenJail
  <1>2. /\ Bystanders(c) /\ req'[c].id = req[c].id
        /\ At(c, "opened")' /\ ~At(c, "made")' /\ ~At(c, "removing")'
    BY <1>0, BystandersByReach DEF OpenJail
  <1>3. /\ req[c].id \notin registered /\ bound[req[c].id] # Unused
        /\ \A a \in Actor : req[c].id \notin Pending(a)
        /\ ~At(c, "removing")
    BY <1>0 DEF MakersOwn, At
  <1>4. IdsFresh'
    BY <1>1, <1>3 DEF IdsFresh, Pending
  <1>5. MakersOwn'
    BY <1>0, <1>1, <1>2 DEF MakersOwn, Making, Bystanders, Pending
  <1>6. DestroyersOwn'
    BY <1>1, <1>2, <1>3 DEF DestroyersOwn, DestroyedOnce, Bystanders, Pending
  <1>7. ScanHolds'
    BY <1>1 DEF ScanHolds, MuFree
  <1>8. NothingLeaks'
    BY <1>0, <1>1, <1>2 DEF NothingLeaks, Creating, Bystanders, Pending
  <1> QED BY <1>4, <1>5, <1>6, <1>7, <1>8

\* A creation that fails leaves no jail open and, at most, a directory that
\* could not be removed.
LEMMA CreationFails ==
  ASSUME TypeOK, Ownership, NEW c \in Client, OpenFails(c) \/ Reject(c)
  PROVE  Ownership'
  <1> USE DEF Ownership, procVars, Step
  <1> DEFINE i == req[c].id
  <1>0. Making(c) /\ Busy(c) /\ i \in Id /\ ~At(c, "removing")
    BY BusyIsRequest DEF OpenFails, Reject, At, Making, Request
  <1>1. /\ UNCHANGED <<proc, registered, bound, sweep, doomed, removing>>
        /\ open' = open \ {i}
    BY DEF OpenFails, Reject, MakersOwn, Making, At
  <1>2. /\ Bystanders(c)
        /\ ~At(c, "opened")' /\ ~At(c, "made")' /\ ~At(c, "removing")'
    BY BystandersByAnswer DEF OpenFails, Reject
  <1>3. \/ onDisk' = onDisk \ {i} /\ lost' = lost
        \/ onDisk' = onDisk /\ lost' = lost \cup {i}
    BY <1>0 DEF OpenFails, Reject, Discard, RemoveTree, IdsFresh
  <1>4. IdsFresh'
    BY <1>1, <1>3 DEF IdsFresh, Pending
  <1>5. MakersOwn'
    BY <1>0, <1>1, <1>2 DEF MakersOwn, Making, Bystanders, Pending
  <1>6. DestroyersOwn'
    BY <1>0, <1>1, <1>2 DEF DestroyersOwn, DestroyedOnce, Bystanders, Pending
  <1>7. ScanHolds'
    BY <1>1 DEF ScanHolds, MuFree
  <1>8. NothingLeaks'
    <2>1. \A j \in Id : j # i /\ Creating(j) => Creating(j)'
      BY <1>2 DEF Creating, Bystanders
    <2> QED BY <1>1, <1>3, <2>1 DEF NothingLeaks, Pending, TypeOK
  <1> QED BY <1>4, <1>5, <1>6, <1>7, <1>8

LEMMA AdoptKeepsOwnership ==
  ASSUME TypeOK, Ownership, NEW c \in Client, Adopt(c)
  PROVE  Ownership'
  <1> USE DEF Ownership, procVars, Step
  <1> DEFINE i == req[c].id
  <1>0. At(c, "opened") /\ Making(c) /\ Busy(c) /\ i \in Id /\ ~At(c, "removing")
    BY BusyIsRequest DEF Adopt, At, Making, Request
  <1>1. /\ registered' = registered \cup {i} /\ MuFree
        /\ UNCHANGED <<proc, bound, onDisk, open, sweep, doomed, removing, lost>>
    BY DEF Adopt
  <1>2. /\ Bystanders(c)
        /\ ~At(c, "opened")' /\ ~At(c, "made")' /\ ~At(c, "removing")'
    BY <1>0, BystandersByReach, BystandersByAnswer DEF Adopt
  <1>3. bound[i] # Unused /\ \A a \in Actor : i \notin Pending(a)
    BY <1>0 DEF MakersOwn
  <1>4. IdsFresh'
    BY <1>1, <1>3 DEF IdsFresh, Pending
  <1>5. MakersOwn'
    BY <1>0, <1>1, <1>2 DEF MakersOwn, Making, Bystanders, Pending
  <1>6. DestroyersOwn'
    BY <1>0, <1>1, <1>2, <1>3 DEF DestroyersOwn, DestroyedOnce, Bystanders, Pending
  <1>7. ScanHolds'
    BY <1>1 DEF ScanHolds, MuFree
  <1>8. NothingLeaks'
    <2>1. \A j \in Id : j # i /\ Creating(j) => Creating(j)'
      BY <1>2 DEF Creating, Bystanders
    <2> QED BY <1>1, <2>1 DEF NothingLeaks, Pending, TypeOK
  <1> QED BY <1>4, <1>5, <1>6, <1>7, <1>8

LEMMA RemoveKeepsOwnership ==
  ASSUME TypeOK, Ownership, NEW c \in Client, Remove(c)
  PROVE  Ownership'
  <1> USE DEF Ownership, procVars, Step
  <1> DEFINE i == req[c].id
  <1>0. /\ At(c, "released") /\ Busy(c) /\ i \in Id
        /\ ~At(c, "removing") /\ ~Making(c) /\ c \in Actor
    BY BusyIsRequest DEF Remove, At, Making, Request, Actor
  <1>1. /\ registered' = registered \ {i} /\ MuFree /\ i \in registered
        /\ doomed' = [doomed EXCEPT ![c] = {i}]
        /\ UNCHANGED <<proc, bound, onDisk, open, sweep, removing, lost>>
    BY DEF Remove
  <1>2. /\ Bystanders(c) /\ At(c, "removing")'
        /\ ~At(c, "opened")' /\ ~At(c, "made")'
    BY <1>0, BystandersByReach DEF Remove
  <1>3. /\ doomed[c] = {} /\ removing[c] = {} /\ doomed'[c] = {i}
        /\ \A a \in Actor \ {c} : doomed'[a] = doomed[a]
    BY <1>0, <1>1 DEF DestroyersOwn, Pending, TypeOK
  <1>4. IdsFresh'
    BY <1>0, <1>1, <1>3 DEF IdsFresh, Pending
  <1>5. MakersOwn'
    BY <1>0, <1>1, <1>2, <1>3 DEF MakersOwn, Making, Bystanders, Pending
  <1>6. DestroyersOwn'
    BY <1>0, <1>1, <1>2, <1>3, SessionsAssumption
    DEF DestroyersOwn, DestroyedOnce, Bystanders, Pending, Actor
  <1>7. ScanHolds'
    BY <1>1 DEF ScanHolds, MuFree
  <1>8. NothingLeaks'
    <2>1. \A j \in Id : Creating(j) => Creating(j)'
      BY <1>0, <1>2 DEF Creating, Bystanders, Making
    <2> QED BY <1>0, <1>1, <1>3, <2>1 DEF NothingLeaks, Pending, TypeOK
  <1> QED BY <1>4, <1>5, <1>6, <1>7, <1>8

LEMMA DeletedKeepsOwnership ==
  ASSUME TypeOK, Ownership, NEW c \in Client, Deleted(c)
  PROVE  Ownership'
  <1> USE DEF Ownership, procVars, Step
  <1>1. UNCHANGED <<proc, registered, bound, onDisk, open, sweep, doomed,
                   removing, lost>>
    BY DEF Deleted
  <1>2. /\ Bystanders(c) /\ ~Making(c) /\ Pending(c) = {}
        /\ ~At(c, "opened")' /\ ~At(c, "made")' /\ ~At(c, "removing")'
    BY BystandersByAnswer DEF Deleted, Making, At, Pending
  <1>4. IdsFresh'
    BY <1>1 DEF IdsFresh, Pending
  <1>5. MakersOwn'
    BY <1>1, <1>2 DEF MakersOwn, Making, Bystanders, Pending
  <1>6. DestroyersOwn'
    BY <1>1, <1>2 DEF DestroyersOwn, DestroyedOnce, Bystanders, Pending
  <1>7. ScanHolds'
    BY <1>1 DEF ScanHolds, MuFree
  <1>8. NothingLeaks'
    <2>1. \A j \in Id : Creating(j) => Creating(j)'
      BY <1>2 DEF Creating, Bystanders, Making
    <2> QED BY <1>1, <2>1 DEF NothingLeaks, Pending, TypeOK
  <1> QED BY <1>4, <1>5, <1>6, <1>7, <1>8

LEMMA ClientKeepsOwnership ==
  ASSUME TypeOK, Ownership, NEW c \in Client, NewRequest(c) \/ Progress(c)
  PROVE  Ownership'
  BY QuietRequests, BeginKeepsOwnership, OpenJailKeepsOwnership, CreationFails,
     AdoptKeepsOwnership, RemoveKeepsOwnership, DeletedKeepsOwnership
  DEF NewRequest, Progress

LEMMA DestroyKeepsOwnership ==
  ASSUME TypeOK, Ownership, NEW a \in Actor, NEW i \in Id,
         CloseJail(a, i) \/ RemoveDir(a, i)
  PROVE  Ownership'
  <1> USE DEF Ownership, procVars, At, Busy
  <1>1. CASE CloseJail(a, i)
    <2>1. /\ i \in doomed[a] /\ removing[a] = {} /\ open' = open \ {i}
          /\ UNCHANGED <<proc, registered, bound, onDisk, req, sweep, lost>>
          /\ doomed'[a] = doomed[a] \ {i}
          /\ removing'[a] = {j \in {i} : bound[j] = Owned}
          /\ \A b \in Actor \ {a} : doomed'[b] = doomed[b] /\ removing'[b] = removing[b]
      BY <1>1 DEF CloseJail, TypeOK
    <2>2. \A b \in Actor : Pending(b)' \subseteq Pending(b)
      BY <2>1 DEF Pending
    <2>3. IdsFresh'
      BY <2>1, <2>2 DEF IdsFresh
    <2>4. MakersOwn'
      BY <2>1, <2>2 DEF MakersOwn, Making
    <2>5. DestroyersOwn'
      <3>1. DestroyedOnce'
        BY <2>1, <2>2 DEF DestroyersOwn, DestroyedOnce
      <3>2. \A b \in Actor : removing'[b] \cap (open' \cup doomed'[b]) = {}
        BY <2>1 DEF DestroyersOwn
      <3> QED BY <2>1, <2>2, <3>1, <3>2 DEF DestroyersOwn, Actor
    <2>6. ScanHolds'
      BY <2>1 DEF ScanHolds, MuFree
    <2>7. NothingLeaks'
      <3>1. \A j \in open' : j \in registered \/ Creating(j)
                             \/ \E b \in Actor : j \in doomed'[b]
        BY <2>1 DEF NothingLeaks
      <3>2. ASSUME NEW j \in onDisk \cap Id
            PROVE  \/ j \in registered \/ Creating(j) \/ j \in lost
                   \/ \E b \in Actor : j \in Pending(b)'
        <4>1. CASE j = i
          <5>1. j \in removing'[a]
            BY <2>1, <3>2, <4>1 DEF IdsFresh
          <5> QED BY <5>1 DEF Pending
        <4>2. CASE j # i
          BY <2>1, <3>2, <4>2 DEF NothingLeaks, Pending
        <4> QED BY <4>1, <4>2
      <3> QED BY <2>1, <3>1, <3>2 DEF NothingLeaks, Creating
    <2> QED BY <2>3, <2>4, <2>5, <2>6, <2>7
  <1>2. CASE RemoveDir(a, i)
    <2>1. /\ i \in removing[a] /\ removing'[a] = removing[a] \ {i}
          /\ UNCHANGED <<proc, registered, bound, open, req, sweep, doomed>>
          /\ \A b \in Actor \ {a} : removing'[b] = removing[b]
          /\ \/ onDisk' = onDisk \ {i} /\ lost' = lost
             \/ onDisk' = onDisk /\ lost' = lost \cup {i}
      BY <1>2 DEF RemoveDir, RemoveTree, TypeOK
    <2>2. \A b \in Actor : Pending(b)' \subseteq Pending(b)
      BY <2>1 DEF Pending
    <2>3. IdsFresh'
      BY <2>1, <2>2 DEF IdsFresh
    <2>4. MakersOwn'
      BY <2>1, <2>2 DEF MakersOwn, Making
    <2>5. DestroyersOwn'
      <3>1. DestroyedOnce'
        BY <2>1, <2>2 DEF DestroyersOwn, DestroyedOnce
      <3>2. \A b \in Actor : removing'[b] \cap (open' \cup doomed'[b]) = {}
        BY <2>1 DEF DestroyersOwn
      <3> QED BY <2>1, <2>2, <3>1, <3>2 DEF DestroyersOwn, Actor
    <2>6. ScanHolds'
      BY <2>1 DEF ScanHolds, MuFree
    <2>7. NothingLeaks'
      <3>1. ASSUME NEW j \in onDisk' \cap Id
            PROVE  \/ j \in registered \/ Creating(j) \/ j \in lost'
                   \/ \E b \in Actor : j \in Pending(b)'
        <4>1. CASE j = i
          BY <2>1, <3>1, <4>1
        <4>2. CASE j # i
          BY <2>1, <3>1, <4>2 DEF NothingLeaks, Pending
        <4> QED BY <4>1, <4>2
      <3> QED BY <2>1, <3>1 DEF NothingLeaks, Creating
    <2> QED BY <2>3, <2>4, <2>5, <2>6, <2>7
  <1> QED BY <1>1, <1>2

LEMMA SweepKeepsOwnership ==
  ASSUME TypeOK, Ownership, SweepStep
  PROVE  Ownership'
  <1> USE DEF Ownership, SweepQuiet, procVars, Sweep, At, Busy
  <1>1. CASE SweepEvict
    <2> DEFINE i == sweep.id
    <2>1. /\ registered' = registered \ {i} /\ i \in registered /\ i \in Id
          /\ doomed'[Sweeper] = doomed[Sweeper] \cup {i}
          /\ \A a \in Actor \ {Sweeper} : doomed'[a] = doomed[a]
          /\ UNCHANGED <<proc, bound, onDisk, open, req, removing, lost>>
          /\ sweep' = Sweep("scan", sweep.todo \ {i}, Nobody)
      BY <1>1 DEF SweepEvict, ScanHolds, MuFree, TypeOK, Actor
    <2>2. /\ \A a \in Actor \ {Sweeper} : Pending(a)' = Pending(a)
          /\ Pending(Sweeper)' = Pending(Sweeper) \cup {i}
      BY <2>1 DEF Pending
    <2> HIDE DEF i
    <2>3. IdsFresh'
      BY <2>1, <2>2 DEF IdsFresh
    <2>4. MakersOwn'
      BY <2>1, <2>2 DEF MakersOwn, Making
    <2>5. DestroyersOwn'
      <3>1. DestroyedOnce'
        BY <2>1, <2>2 DEF DestroyersOwn, DestroyedOnce
      <3>2. i \notin removing[Sweeper] /\ Sweeper \in Actor
        BY <2>1 DEF DestroyersOwn, DestroyedOnce, Pending, Actor
      <3>3. \A a \in Actor : removing'[a] \cap (open' \cup doomed'[a]) = {}
        BY <2>1, <3>2 DEF DestroyersOwn
      <3> QED BY <2>1, <2>2, <3>1, <3>3, SessionsAssumption
              DEF DestroyersOwn, Actor
    <2>6. ScanHolds'
      BY <1>1, <2>1 DEF ScanHolds, MuFree, SweepEvict
    <2>7. NothingLeaks'
      <3>1. Sweeper \in Actor
        BY DEF Actor
      <3>2. \A j \in open' : j \in registered' \/ Creating(j)
                             \/ \E a \in Actor : j \in doomed'[a]
        BY <2>1, <3>1 DEF NothingLeaks
      <3>3. \A j \in onDisk \cap Id :
              \/ j \in registered' \/ Creating(j) \/ j \in lost
              \/ \E a \in Actor : j \in Pending(a)'
        BY <2>1, <2>2, <3>1 DEF NothingLeaks
      <3> QED BY <2>1, <3>2, <3>3 DEF NothingLeaks, Creating
    <2> QED BY <2>3, <2>4, <2>5, <2>6, <2>7
  <1>2. CASE \/ SweepStart \/ SweepInUse \/ SweepProbe \/ SweepEnd \/ SweeperStop
             \/ \E i \in Id : SweepFresh(i) \/ SweepIdle(i)
    <2>1. UNCHANGED <<proc, registered, bound, onDisk, open, req, doomed, removing,
                     lost>>
      BY <1>2 DEF SweepStart, SweepInUse, SweepProbe, SweepEnd, SweeperStop,
                  SweepFresh, SweepIdle
    <2>2. IdsFresh' /\ MakersOwn' /\ DestroyersOwn' /\ NothingLeaks'
      BY <2>1 DEF IdsFresh, MakersOwn, Making, DestroyersOwn, DestroyedOnce,
                  NothingLeaks, Creating, Pending
    <2>3. ScanHolds'
      BY <1>2, <2>1 DEF ScanHolds, MuFree, SweepStart, SweepInUse, SweepProbe,
         SweepEnd, SweeperStop, SweepFresh, SweepIdle, Asleep, TypeOK
    <2> QED BY <2>2, <2>3
  <1> QED BY <1>1, <1>2 DEF SweepStep

LEMMA ExitKeepsIInv ==
  ASSUME TypeOK, Ownership, Exit
  PROVE  LocksHeld' /\ Ownership'
  <1> USE DEF Exit, Asleep, Sweep, Nothing
  <1>1. \A c \in Client : ~Busy(c)'
    BY DEF Busy
  <1>2. \A a \in Actor : Pending(a)' = {}
    BY DEF Pending
  <1>3. LocksHeld'
    BY <1>1 DEF LocksHeld, Locked, At
  <1>4. IdsFresh'
    BY <1>2 DEF Ownership, IdsFresh
  <1>5. MakersOwn'
    BY <1>1 DEF MakersOwn, Making, At
  <1>6. DestroyersOwn'
    BY <1>2 DEF DestroyersOwn, DestroyedOnce, Actor
  <1>7. ScanHolds'
    BY DEF ScanHolds, MuFree
  <1>8. NothingLeaks'
    BY DEF NothingLeaks
  <1> QED BY <1>3, <1>4, <1>5, <1>6, <1>7, <1>8 DEF Ownership

LEMMA ProcKeepsIInv ==
  ASSUME TypeOK, LocksHeld, Ownership, ProcStep
  PROVE  LocksHeld' /\ Ownership'
  <1>1. CASE Signal \/ Restart
    <2>1. UNCHANGED <<registered, bound, onDisk, open, holder, req, sweep, doomed,
                     removing, lost>>
      BY <1>1 DEF Signal, Restart
    <2>2. proc # "closing" /\ proc' # "closing"
      BY <1>1 DEF Signal, Restart
    <2>3. LocksHeld'
      BY <2>1 DEF LocksHeld, Locked, At, Busy
    <2>4. IdsFresh' /\ MakersOwn' /\ NothingLeaks' /\ ScanHolds'
      BY <2>1 DEF Ownership, IdsFresh, MakersOwn, Making, NothingLeaks, Creating,
                  Pending, At, Busy, ScanHolds, MuFree
    <2>5. DestroyersOwn'
      BY <2>1, <2>2 DEF Ownership, DestroyersOwn, DestroyedOnce, Pending, At, Busy
    <2> QED BY <2>3, <2>4, <2>5 DEF Ownership
  <1>2. CASE Close
    <2> USE DEF Ownership, At, Busy
    <2>1. /\ proc # "closing" /\ proc' = "closing" /\ MuFree /\ registered' = {}
          /\ UNCHANGED <<bound, onDisk, open, holder, req, sweep, removing, lost>>
          /\ Main \in Actor /\ doomed'[Main] = registered
          /\ \A a \in Actor \ {Main} : doomed'[a] = doomed[a]
      BY <1>2 DEF Close, TypeOK, Actor
    <2>2. Pending(Main) = {}
      BY <2>1 DEF DestroyersOwn
    <2>3. /\ Pending(Main)' = registered
          /\ \A a \in Actor \ {Main} : Pending(a)' = Pending(a)
      BY <2>1, <2>2 DEF Pending
    <2>4. LocksHeld'
      BY <2>1 DEF LocksHeld, Locked
    <2>5. IdsFresh'
      BY <2>1, <2>3 DEF IdsFresh
    <2>6. MakersOwn'
      BY <2>1, <2>3 DEF MakersOwn, Making
    <2>7. DestroyersOwn'
      <3>1. DestroyedOnce'
        BY <2>1, <2>3 DEF DestroyersOwn, DestroyedOnce
      <3>2. removing'[Main] = {}
        BY <2>1, <2>2 DEF Pending
      <3>3. \A a \in Actor : removing'[a] \cap (open' \cup doomed'[a]) = {}
        BY <2>1, <3>2 DEF DestroyersOwn
      <3> QED BY <2>1, <2>3, <3>1, <3>3, SessionsAssumption
              DEF DestroyersOwn, Actor
    <2>8. ScanHolds'
      BY <2>1 DEF ScanHolds, MuFree
    <2>9. NothingLeaks'
      <3>1. \A j \in open : Creating(j) \/ \E a \in Actor : j \in doomed'[a]
        BY <2>1, <2>2 DEF NothingLeaks, Pending
      <3>2. \A j \in onDisk \cap Id :
              Creating(j) \/ j \in lost \/ \E a \in Actor : j \in Pending(a)'
        BY <2>1, <2>2, <2>3 DEF NothingLeaks
      <3> QED BY <2>1, <3>1, <3>2 DEF NothingLeaks, Creating
    <2> QED BY <2>4, <2>5, <2>6, <2>7, <2>8, <2>9
  <1>3. CASE CloseDone \/ GraceOver \/ Crash
    BY <1>3, ExitKeepsIInv DEF CloseDone, GraceOver, Crash
  <1> QED BY <1>1, <1>2, <1>3 DEF ProcStep
-----------------------------------------------------------------------------
(* The theorems.                                                           *)

LEMMA IInvInit == Init => IInv
  <1> SUFFICES ASSUME Init PROVE IInv
    OBVIOUS
  <1>1. TypeOK
    <2>1. Asleep \in [at : SweepState, todo : SUBSET Id, id : Id \cup {Nobody}]
          /\ Asleep.at = "asleep"
      BY DEF Asleep, Sweep, SweepState
    <2>2. Nothing \in [Actor -> SUBSET Id]
      BY DEF Nothing
    <2>3. [i \in Id |-> Nobody] \in [Id -> Actor \cup {Nobody}]
      OBVIOUS
    <2>4. [i \in Id |-> Unused] \in [Id -> Directory \cup {Owned, Unused}]
      OBVIOUS
    <2>5. [c \in Client |-> NoRequest] \in [Client -> Request \cup {NoRequest}]
      OBVIOUS
    <2>6. 0 \in 0..MaxRestarts
      BY SessionsAssumption
    <2> HIDE DEF Asleep, Nothing, NoRequest
    <2> QED BY <2>1, <2>2, <2>3, <2>4, <2>5, <2>6 DEF Init, TypeOK, Directory
  <1> USE DEF Init, Asleep, Sweep, Nothing
  <1>2. \A c \in Client : ~Busy(c)
    BY DEF Busy
  <1>3. \A a \in Actor : Pending(a) = {}
    BY DEF Pending
  <1>4. LocksHeld /\ MakersOwn
    BY <1>2 DEF LocksHeld, Locked, MakersOwn, Making, At
  <1>5. IdsFresh /\ DestroyersOwn
    BY <1>3, SessionsAssumption
    DEF IdsFresh, DestroyersOwn, DestroyedOnce, Actor
  <1>6. ScanHolds /\ NothingLeaks
    BY SessionsAssumption DEF ScanHolds, MuFree, NothingLeaks
  <1> QED BY <1>1, <1>4, <1>5, <1>6 DEF IInv

LEMMA IInvStep == IInv /\ [Next]_vars => IInv'
  <1> SUFFICES ASSUME IInv, [Next]_vars PROVE IInv'
    OBVIOUS
  <1>0. TypeOK /\ LocksHeld /\ Ownership
    BY DEF IInv, Ownership
  <1>1. ASSUME NEW c \in Client, NewRequest(c) \/ Progress(c)
        PROVE  TypeOK' /\ LocksHeld' /\ Ownership'
    BY <1>0, <1>1, ClientKeepsType, ClientKeepsLocks, ClientKeepsOwnership
  <1>2. ASSUME NEW a \in Actor, Destroy(a)
        PROVE  TypeOK' /\ LocksHeld' /\ Ownership'
    <2>1. UNCHANGED <<holder, req, sweep>>
      BY <1>2 DEF Destroy, CloseJail, RemoveDir
    <2>2. LocksHeld'
      BY <1>0, <2>1, NoLockTaken DEF Locked, At, Busy
    <2> QED BY <1>0, <1>2, <2>2, DestroyKeepsType, DestroyKeepsOwnership DEF Destroy
  <1>3. ASSUME NEW i \in Id, Age(i)
        PROVE  TypeOK' /\ LocksHeld' /\ Ownership'
    <2>1. UNCHANGED <<holder, req>> /\ UNCHANGED owned
      BY <1>3 DEF Age, owned, procVars
    <2>2. TypeOK'
      BY <1>0, <1>3 DEF Age, procVars, TypeOK
    <2>3. LocksHeld'
      BY <1>0, <2>1, NoLockTaken DEF Locked, At, Busy, owned
    <2>4. Ownership'
      BY <1>0, <2>1, NothingOwned DEF SameRole, At, Busy
    <2> QED BY <2>2, <2>3, <2>4
  <1>4. CASE SweepStep
    BY <1>0, <1>4, SweepKeepsType, SweepKeepsLocks, SweepKeepsOwnership
    DEF IInv, Ownership
  <1>5. CASE ProcStep
    BY <1>0, <1>5, ProcKeepsType, ProcKeepsIInv DEF IInv, Ownership
  <1>6. CASE UNCHANGED vars
    BY <1>6 DEF vars, IInv, TypeOK, LocksHeld, Locked, IdsFresh, MakersOwn, Making,
                DestroyersOwn, DestroyedOnce, ScanHolds, MuFree, NothingLeaks,
                Creating, Pending, At, Busy
  <1> QED BY <1>1, <1>2, <1>3, <1>4, <1>5, <1>6 DEF Next, IInv, Ownership

\* The strengthening above holds in every reachable state.
THEOREM Inductive == Spec => []IInv
  BY IInvInit, IInvStep, PTL DEF Spec

\* Every reachable state is well typed.
THEOREM TypeCorrect == Spec => []TypeOK
  <1>1. IInv => TypeOK
    BY DEF IInv
  <1> QED BY <1>1, Inductive, PTL

\* At most one request runs in a session at a time.
THEOREM RunsAreExclusive == Spec => []OneRunPerSession
  <1>1. IInv => OneRunPerSession
    BY DEF IInv, LocksHeld, Locked, OneRunPerSession
  <1> QED BY <1>1, Inductive, PTL

\* No session is destroyed twice or while the registry still hands it out,
\* however DELETE, the sweeper and shutdown interleave.
THEOREM DestructionIsClaimed == Spec => []DestroyedOnce
  <1>1. IInv => DestroyedOnce
    BY DEF IInv, DestroyersOwn
  <1> QED BY <1>1, Inductive, PTL

\* No jail is ever leaked, and no workspace except by a failed removal or the
\* end of the process.
THEOREM EverythingIsOwned == Spec => []NothingLeaks
  <1>1. IInv => NothingLeaks
    BY DEF IInv
  <1> QED BY <1>1, Inductive, PTL

\* Only directories the server made disappear, and only after their session is
\* out of the registry and its jail is closed.
THEOREM RemovalIsSafe == Spec => OnlyDeadWorkspacesRemoved
  <1> DEFINE Safe == \A d \in onDisk \ onDisk' :
                 d \in Id /\ bound[d] = Owned /\ d \notin registered \cup open'
  <1>1. IInv /\ [Next]_vars => [Safe]_vars
    <2> SUFFICES ASSUME IInv, [Next]_vars, NEW d \in onDisk \ onDisk'
                 PROVE  d \in Id /\ bound[d] = Owned /\ d \notin registered \cup open'
      OBVIOUS
    <2>1. onDisk' # onDisk
      OBVIOUS
    <2>2. CASE \E a \in Actor, i \in Id : RemoveDir(a, i)
      <3>1. PICK a \in Actor, i \in Id : RemoveDir(a, i)
        BY <2>2
      <3>2. d = i /\ i \in removing[a] /\ open' = open
        BY <3>1 DEF RemoveDir, RemoveTree
      <3> QED BY <3>2 DEF IInv, IdsFresh, DestroyersOwn, DestroyedOnce, Pending
    <2>3. CASE \E c \in Client : OpenFails(c) \/ Reject(c)
      <3>1. PICK c \in Client : OpenFails(c) \/ Reject(c)
        BY <2>3
      <3>2. Making(c) /\ req[c].id \in Id
        BY <3>1, BusyIsRequest DEF OpenFails, Reject, Making, At, IInv, Request
      <3>3. d = req[c].id /\ req[c].id \notin open'
        BY <3>1, <3>2 DEF OpenFails, Reject, Discard, RemoveTree, IInv, MakersOwn
      <3> QED BY <3>2, <3>3 DEF IInv, IdsFresh, MakersOwn
    <2>4. CASE \E c \in Client, i \in Id, op \in {"chat", "create"} : Make(c, i, op)
      BY <2>4 DEF Make
    <2> QED BY <2>1, <2>2, <2>3, <2>4
      DEF Next, NewRequest, Progress, Destroy, SweepStep, ProcStep, vars, Lookup,
          Nominate, Touch, Claim, Conflict, BeginRun, EndRun, OpenJail, Adopt,
          LockNew, Release, Remove, AlreadyGone, Deleted, CloseJail, Age,
          SweepStart, SweepInUse, SweepProbe, SweepEvict, SweepEnd, SweeperStop,
          SweepFresh, SweepIdle, SweepQuiet, Signal, Close, CloseDone, GraceOver,
          Crash, Exit, Restart
  <1> QED BY <1>1, Inductive, PTL DEF Spec, OnlyDeadWorkspacesRemoved
-----------------------------------------------------------------------------
(* Sessions implements SessionLife.                                        *)

\* Whoever works on a session that is not being made has one that was handed
\* out and published.
RequestsKnown ==
  \A c \in Client : Busy(c) /\ ~Making(c) =>
    bound[req[c].id] # Unused /\ ~Creating(req[c].id)

\* An id that was handed out stays so, and is never made again.
LEMMA KnownKept ==
  ASSUME RequestsKnown,
         \A i \in Id : bound[i] # Unused =>
           bound'[i] # Unused /\ (Creating(i)' => Creating(i)),
         \A c \in Client : (Busy(c) /\ ~Making(c))' =>
           \/ Busy(c) /\ ~Making(c) /\ req'[c].id = req[c].id /\ req[c].id \in Id
           \/ (bound[req[c].id] # Unused /\ ~Creating(req[c].id))'
  PROVE  RequestsKnown'
  BY DEF RequestsKnown, Creating

LEMMA SameComing ==
  ASSUME \A c \in Client : (Making(c)' <=> Making(c))
                           /\ (Making(c) => req'[c].id = req[c].id)
  PROVE  Coming' = Coming /\ \A i \in Id : Creating(i)' <=> Creating(i)
  BY DEF Coming, Creating, Making

LEMMA SameRuns ==
  ASSUME \A c \in Client : (At(c, "running")' <=> At(c, "running"))
                           /\ (At(c, "running") => req'[c].id = req[c].id)
  PROVE  Runs' = Runs
  BY DEF Runs

LEMMA SameGoing ==
  ASSUME UNCHANGED <<doomed, removing>>
  PROVE  Going' = Going
  BY DEF Going, Pending

LEMMA OpenMakersKnown ==
  ASSUME IInv, NEW i \in Id, Creating(i) \/ i \in registered \/ i \in Going
  PROVE  bound[i] # Unused
  BY DEF IInv, IdsFresh, MakersOwn, Creating, Making, Going

LEMMA RegisteredNotComing ==
  ASSUME IInv, NEW i \in registered
  PROVE  i \in Id /\ ~Creating(i) /\ i \notin Going /\ bound[i] # Unused
  BY DEF IInv, TypeOK, IdsFresh, MakersOwn, DestroyersOwn, DestroyedOnce, Creating,
         Making, Going

\* Steps of a request that SessionLife does not see.
LEMMA QuietStep ==
  ASSUME IInv, RequestsKnown, NEW c \in Client,
         \/ \E i \in Id, op \in {"chat", "get", "delete"} : Lookup(c, i, op)
         \/ Touch(c) \/ Claim(c) \/ Conflict(c) \/ OpenJail(c) \/ Release(c)
         \/ AlreadyGone(c) \/ Deleted(c)
  PROVE  RequestsKnown' /\ UNCHANGED Life!vars
  <1> USE DEF Step, procVars
  <1>0. /\ TypeOK
        /\ UNCHANGED <<registered, bound, onDisk, doomed, removing>>
    BY DEF IInv, Lookup, Touch, Claim, Conflict, OpenJail, Release, AlreadyGone,
           Deleted
  <1>1. CASE \E i \in Id, op \in {"chat", "get", "delete"} : Lookup(c, i, op)
    <2>1. PICK i \in Id, op \in {"chat", "get", "delete"} : Lookup(c, i, op)
      BY <1>1
    <2>2. /\ ~Busy(c) /\ Busy(c)' /\ req'[c].at = "found" /\ req'[c].id = i
          /\ \A d \in Client \ {c} : req'[d] = req[d]
          /\ i \in registered
      BY <1>0, <2>1, NewRequestFacts DEF Lookup
    <2>3. \A d \in Client \ {c} : /\ Busy(d)' = Busy(d) /\ Making(d)' = Making(d)
                                 /\ At(d, "running")' = At(d, "running")
      BY <2>2 DEF Busy, At, Making
    <2>4. ~Making(c) /\ ~Making(c)' /\ ~At(c, "running") /\ ~At(c, "running")'
      BY <2>2 DEF At, Making
    <2>5. Coming' = Coming /\ (\A j \in Id : Creating(j)' <=> Creating(j))
      BY <2>2, <2>3, <2>4, SameComing
    <2>6. Runs' = Runs
      BY <2>2, <2>3, <2>4, SameRuns
    <2>7. RequestsKnown'
      <3>1. bound[i] # Unused /\ ~Creating(i)
        BY <2>2, RegisteredNotComing
      <3>2. \A d \in Client \ {c} : Busy(d) => req[d].id \in Id
        BY <1>0, BusyIsRequest DEF Request
      <3>3. (bound[req[c].id] # Unused /\ ~Creating(req[c].id))'
        BY <1>0, <2>2, <2>5, <3>1 DEF Creating
      <3> QED BY <1>0, <2>2, <2>3, <2>5, <3>2, <3>3, KnownKept
    <2> QED BY <1>0, <2>5, <2>6, <2>7, SameGoing DEF Life!vars, Handed
  <1>2. CASE \/ Touch(c) \/ Claim(c) \/ Conflict(c) \/ OpenJail(c) \/ Release(c)
             \/ AlreadyGone(c) \/ Deleted(c)
    <2>1. /\ Busy(c) /\ req[c].id \in Id
          /\ \A d \in Client : Busy(d) => req[d].id \in Id
      BY <1>0, <1>2, BusyIsRequest
      DEF Touch, Claim, Conflict, OpenJail, Release, AlreadyGone, Deleted, At, Request
    <2>2. ~At(c, "running") /\ ~At(c, "running")'
      BY <1>0, <1>2, <2>1, ReachFacts, AnswerFacts
      DEF Touch, Claim, Conflict, OpenJail, Release, AlreadyGone, Deleted, At
    <2>3. /\ \A d \in Client \ {c} : req'[d] = req[d]
          /\ Busy(c)' => req'[c].id = req[c].id
      BY <1>0, <1>2, <2>1, ReachFacts, AnswerFacts
      DEF Touch, Claim, Conflict, OpenJail, Release, AlreadyGone, Deleted
    <2>4. Making(c)' <=> Making(c)
      BY <1>0, <1>2, <2>1, ReachFacts, AnswerFacts
      DEF Touch, Claim, Conflict, OpenJail, Release, AlreadyGone, Deleted, At, Making
    <2>5. \A d \in Client \ {c} : /\ Busy(d)' = Busy(d) /\ Making(d)' = Making(d)
                                 /\ At(d, "running")' = At(d, "running")
      BY <2>3 DEF Busy, At, Making
    <2>6. Making(c)' => Busy(c)'
      BY DEF Making, At
    <2>7. Coming' = Coming /\ (\A j \in Id : Creating(j)' <=> Creating(j))
      BY <2>3, <2>4, <2>5, <2>6, SameComing
    <2>8. Runs' = Runs
      BY <2>2, <2>3, <2>5, SameRuns
    <2>9. RequestsKnown'
      BY <1>0, <2>1, <2>3, <2>4, <2>5, <2>7, KnownKept
    <2> QED BY <1>0, <2>7, <2>8, <2>9, SameGoing DEF Life!vars, Handed
  <1> QED BY <1>1, <1>2

\* A request other than c's plays the part it played.
LEMMA OthersStay ==
  ASSUME NEW c \in Client, \A d \in Client \ {c} : req'[d] = req[d]
  PROVE  \A d \in Client \ {c} :
           /\ Busy(d)' = Busy(d) /\ Making(d)' = Making(d)
           /\ At(d, "running")' = At(d, "running")
  BY DEF Busy, At, Making

\* The session a step of a request is about.
LEMMA RequestId ==
  ASSUME IInv
  PROVE  \A c \in Client : Busy(c) => req[c].id \in Id
  BY BusyIsRequest DEF IInv, Request

LEMMA ComeStep ==
  ASSUME IInv, RequestsKnown, NEW c \in Client, NEW i \in Id,
         NEW op \in {"chat", "create"},
         Make(c, i, op) \/ \E d \in Directory : Nominate(c, i, op, d)
  PROVE  RequestsKnown' /\ Life!Come(i)
  <1> USE DEF Step, procVars
  <1>1. /\ TypeOK /\ ~Busy(c) /\ bound[i] = Unused /\ bound'[i] # Unused
        /\ \A j \in Id \ {i} : bound'[j] = bound[j]
        /\ UNCHANGED <<registered, doomed, removing>>
    BY SessionsAssumption DEF IInv, Make, Nominate, Begin, TypeOK
  <1>2. /\ Busy(c)' /\ req'[c].at = "made" /\ req'[c].id = i
        /\ \A d \in Client \ {c} : req'[d] = req[d]
    BY <1>1, NewRequestFacts DEF Make, Nominate, Begin
  <1>3. /\ Making(c)' /\ ~Making(c) /\ ~At(c, "running") /\ ~At(c, "running")'
    BY <1>1, <1>2 DEF Making, At
  <1>4. \A j \in Id : Creating(j)' <=> Creating(j) \/ j = i
    BY <1>2, <1>3, OthersStay DEF Creating, Making
  <1>5. Coming' = Coming \cup {i}
    BY <1>4 DEF Coming
  <1>6. Runs' = Runs
    BY <1>2, <1>3, OthersStay, SameRuns
  <1>7. RequestsKnown'
    BY <1>1, <1>2, <1>3, <1>4, OthersStay, RequestId, KnownKept
  <1>8. i \notin Handed /\ Handed' = Handed \cup {i}
    BY <1>1 DEF Handed
  <1>9. (onDisk \cap Id)' \in {onDisk \cap Id, (onDisk \cap Id) \cup {i}}
    BY DEF Make, Nominate
  <1> QED BY <1>1, <1>5, <1>6, <1>7, <1>8, <1>9, SameGoing DEF Life!Come

LEMMA UseStep ==
  ASSUME IInv, RequestsKnown, NEW c \in Client, BeginRun(c) \/ LockNew(c)
  PROVE  RequestsKnown' /\ \E i \in Handed \ Coming : Life!Use(c, i)
  <1> USE DEF Step, procVars
  <1> DEFINE i == req[c].id
  <1>1. /\ TypeOK /\ LocksHeld /\ Busy(c) /\ i \in Id
        /\ ~Making(c) /\ ~At(c, "running") /\ Reach(c, "running")
        /\ UNCHANGED <<registered, bound, onDisk, doomed, removing>>
        /\ Locked(c) \/ holder[i] = Nobody
    BY RequestId DEF IInv, BeginRun, LockNew, At, Making, Locked
  <1>2. /\ Busy(c)' /\ req'[c].at = "running" /\ req'[c].id = i
        /\ \A d \in Client \ {c} : req'[d] = req[d]
    BY <1>1, ReachFacts
  <1>3. At(c, "running")' /\ ~Making(c)'
    BY <1>2 DEF At, Making
  <1>4. Coming' = Coming /\ (\A j \in Id : Creating(j)' <=> Creating(j))
    BY <1>1, <1>2, <1>3, OthersStay, SameComing
  <1>5. Runs' = Runs \cup {<<c, i>>}
    BY <1>1, <1>2, <1>3, OthersStay DEF Runs
  <1>6. \A r \in Runs : r[1] # c /\ r[2] # i
    BY <1>1, SessionsAssumption DEF Runs, LocksHeld, Locked, Actor
  <1>7. i \in Handed \ Coming
    BY <1>1 DEF RequestsKnown, Handed, Coming
  <1>8. RequestsKnown'
    BY <1>1, <1>2, <1>3, <1>4, OthersStay, RequestId, KnownKept
  <1>9. Life!Use(c, i)
    BY <1>1, <1>4, <1>5, <1>6, <1>7, SameGoing DEF Life!Use, Handed
  <1> QED BY <1>7, <1>8, <1>9

LEMMA LeaveStep ==
  ASSUME IInv, RequestsKnown, NEW c \in Client, EndRun(c)
  PROVE  RequestsKnown' /\ \E r \in Runs : Life!Leave(r)
  <1> USE DEF Step, procVars
  <1>1. /\ TypeOK /\ Busy(c) /\ At(c, "running") /\ ~Making(c) /\ Answer(c)
        /\ UNCHANGED <<registered, bound, onDisk, doomed, removing>>
    BY DEF IInv, EndRun, At, Making
  <1>2. ~Busy(c)' /\ \A d \in Client \ {c} : req'[d] = req[d]
    BY <1>1, AnswerFacts
  <1>3. ~At(c, "running")' /\ ~Making(c)'
    BY <1>2 DEF At, Making
  <1>4. Coming' = Coming /\ (\A j \in Id : Creating(j)' <=> Creating(j))
    BY <1>1, <1>2, <1>3, OthersStay, SameComing
  <1> DEFINE r == <<c, req[c].id>>
  <1>5. r \in Runs /\ Runs' = Runs \ {r}
    BY <1>1, <1>2, <1>3, OthersStay DEF Runs
  <1>6. RequestsKnown'
    BY <1>1, <1>2, <1>4, OthersStay, RequestId, KnownKept
  <1>7. Life!Leave(r)
    BY <1>1, <1>4, <1>5, SameGoing DEF Life!Leave, Handed
  <1> QED BY <1>5, <1>6, <1>7

\* The end of a creation: the id is nobody else's, so it stops coming.
LEMMA CreationEnds ==
  ASSUME IInv, NEW c \in Client, Making(c), ~Making(c)',
         \A d \in Client \ {c} : req'[d] = req[d]
  PROVE  /\ req[c].id \in Coming /\ Coming' = Coming \ {req[c].id}
         /\ \A j \in Id : Creating(j)' <=> Creating(j) /\ j # req[c].id
  <1>1. Busy(c) /\ req[c].id \in Id
    BY RequestId DEF Making, At
  <1>2. \A d \in Client \ {c} : Making(d) => req[d].id # req[c].id
    BY DEF IInv, MakersOwn
  <1>3. \A j \in Id : Creating(j)' <=> Creating(j) /\ j # req[c].id
    BY <1>2, OthersStay DEF Creating, Making
  <1>4. Creating(req[c].id)
    BY DEF Creating, Making
  <1> QED BY <1>1, <1>3, <1>4 DEF Coming

LEMMA AbortStep ==
  ASSUME IInv, RequestsKnown, NEW c \in Client, OpenFails(c) \/ Reject(c)
  PROVE  RequestsKnown' /\ \E i \in Coming : Life!Abort(i)
  <1> USE DEF Step, procVars
  <1> DEFINE i == req[c].id
  <1>1. /\ TypeOK /\ Busy(c) /\ Making(c) /\ ~At(c, "running") /\ Answer(c)
        /\ UNCHANGED <<registered, bound, doomed, removing>>
        /\ Discard(i)
    BY DEF IInv, OpenFails, Reject, At, Making
  <1>2. ~Busy(c)' /\ \A d \in Client \ {c} : req'[d] = req[d]
    BY <1>1, AnswerFacts
  <1>3. ~At(c, "running")' /\ ~Making(c)'
    BY <1>2 DEF At, Making
  <1>4. /\ i \in Coming /\ Coming' = Coming \ {i}
        /\ \A j \in Id : Creating(j)' => Creating(j)
    BY <1>1, <1>2, <1>3, CreationEnds
  <1>5. Runs' = Runs
    BY <1>1, <1>2, <1>3, OthersStay, SameRuns
  <1>6. RequestsKnown'
    BY <1>1, <1>2, <1>4, OthersStay, RequestId, KnownKept
  <1>7. (onDisk \cap Id)' \in {onDisk \cap Id, (onDisk \cap Id) \ {i}}
    BY <1>1 DEF Discard, RemoveTree
  <1>8. Life!Abort(i)
    BY <1>1, <1>4, <1>5, <1>7, SameGoing DEF Life!Abort, Handed
  <1> QED BY <1>4, <1>6, <1>8

LEMMA PublishStep ==
  ASSUME IInv, RequestsKnown, NEW c \in Client, Adopt(c)
  PROVE  RequestsKnown' /\ \E i \in Coming : Life!Publish(i)
  <1> USE DEF Step, procVars
  <1> DEFINE i == req[c].id
  <1>1. /\ TypeOK /\ Busy(c) /\ Making(c) /\ ~At(c, "running") /\ i \in Id
        /\ registered' = registered \cup {i}
        /\ UNCHANGED <<bound, onDisk, doomed, removing>>
    BY RequestId DEF IInv, Adopt, At, Making
  <1>2. /\ Busy(c)' => req'[c].id = i
        /\ \A d \in Client \ {c} : req'[d] = req[d]
    BY <1>1, ReachFacts, AnswerFacts DEF Adopt
  <1>3. ~At(c, "running")' /\ ~Making(c)'
    BY <1>1, ReachFacts, AnswerFacts DEF Adopt, At, Making
  <1>4. /\ i \in Coming /\ Coming' = Coming \ {i}
        /\ \A j \in Id : Creating(j)' <=> Creating(j) /\ j # i
    BY <1>1, <1>2, <1>3, CreationEnds
  <1>5. Runs' = Runs
    BY <1>1, <1>2, <1>3, OthersStay, SameRuns
  <1>6. RequestsKnown'
    <2>1. bound[i] # Unused
      BY <1>1 DEF IInv, MakersOwn
    <2>2. Busy(c)' => (bound[req[c].id] # Unused /\ ~Creating(req[c].id))'
      BY <1>1, <1>2, <1>4, <2>1 DEF Creating
    <2> QED BY <1>1, <1>2, <1>4, <2>2, OthersStay, RequestId, KnownKept
  <1>7. Life!Publish(i)
    BY <1>1, <1>4, <1>5, SameGoing DEF Life!Publish, Handed
  <1> QED BY <1>4, <1>6, <1>7

LEMMA DeleteStep ==
  ASSUME IInv, RequestsKnown, NEW c \in Client, Remove(c)
  PROVE  RequestsKnown' /\ Life!Retire({req[c].id})
  <1> USE DEF Step, procVars
  <1> DEFINE i == req[c].id
  <1>1. /\ TypeOK /\ Busy(c) /\ ~Making(c) /\ ~At(c, "running") /\ i \in Id
        /\ ~At(c, "removing") /\ c \in Actor
        /\ i \in registered /\ registered' = registered \ {i}
        /\ doomed' = [doomed EXCEPT ![c] = {i}] /\ Reach(c, "removing")
        /\ UNCHANGED <<bound, onDisk, removing>>
    BY RequestId DEF IInv, Remove, At, Making, Actor
  <1>2. /\ Busy(c)' /\ req'[c].at = "removing" /\ req'[c].id = i
        /\ \A d \in Client \ {c} : req'[d] = req[d]
    BY <1>1, ReachFacts
  <1>3. ~At(c, "running")' /\ ~Making(c)'
    BY <1>2 DEF At, Making
  <1>4. Coming' = Coming /\ (\A j \in Id : Creating(j)' <=> Creating(j))
    BY <1>1, <1>2, <1>3, OthersStay, SameComing
  <1>5. Runs' = Runs
    BY <1>1, <1>2, <1>3, OthersStay, SameRuns
  <1>6. Going' = Going \cup {i}
    <2>1. Pending(c) = {} /\ Pending(c)' = {i}
      BY <1>1 DEF IInv, DestroyersOwn, Pending, TypeOK
    <2>2. \A a \in Actor \ {c} : Pending(a)' = Pending(a)
      BY <1>1 DEF Pending, TypeOK
    <2> QED BY <1>1, <2>1, <2>2 DEF Going
  <1>7. RequestsKnown'
    BY <1>1, <1>2, <1>3, <1>4, OthersStay, RequestId, KnownKept
  <1> QED BY <1>1, <1>4, <1>5, <1>6, <1>7 DEF Life!Retire, Handed

\* Steps that leave the requests alone.
LEMMA RequestsAlone ==
  ASSUME RequestsKnown, UNCHANGED <<bound, req>>
  PROVE  RequestsKnown' /\ UNCHANGED <<Handed, Coming, Runs>>
  BY DEF RequestsKnown, Handed, Coming, Runs, Creating, Making, At, Busy

\* Somebody stops destroying i, and nobody else was.
LEMMA BuriedOnce ==
  ASSUME IInv, NEW a \in Actor, NEW i \in Pending(a),
         Pending(a)' = Pending(a) \ {i},
         \A b \in Actor \ {a} : Pending(b)' = Pending(b)
  PROVE  i \in Going /\ Going' = Going \ {i}
  <1>1. \A b \in Actor \ {a} : i \notin Pending(b)
    BY DEF IInv, DestroyersOwn, DestroyedOnce
  <1> QED BY <1>1 DEF Going

LEMMA BuryStep ==
  ASSUME IInv, RequestsKnown, NEW a \in Actor, NEW i \in Id,
         CloseJail(a, i) \/ RemoveDir(a, i)
  PROVE  RequestsKnown' /\ (UNCHANGED Life!vars \/ \E j \in Going : Life!Bury(j))
  <1> USE DEF procVars
  <1>1. TypeOK /\ UNCHANGED <<registered, bound, req>>
    BY DEF IInv, CloseJail, RemoveDir
  <1>2. RequestsKnown' /\ UNCHANGED <<Handed, Coming, Runs>>
    BY <1>1, RequestsAlone
  <1>3. CASE CloseJail(a, i)
    <2>1. /\ i \in Pending(a) /\ onDisk' = onDisk
          /\ doomed'[a] = doomed[a] \ {i} /\ removing[a] = {}
          /\ removing'[a] = {j \in {i} : bound[j] = Owned}
          /\ \A b \in Actor \ {a} : Pending(b)' = Pending(b)
      BY <1>1, <1>3 DEF CloseJail, TypeOK, Pending
    <2>2. CASE bound[i] = Owned
      <3>1. Pending(a)' = Pending(a)
        BY <1>3, <2>1, <2>2 DEF Pending, CloseJail
      <3>2. Going' = Going
        BY <2>1, <3>1 DEF Going
      <3> QED BY <1>1, <1>2, <2>1, <3>2 DEF Life!vars
    <2>3. CASE bound[i] # Owned
      <3>1. Pending(a)' = Pending(a) \ {i}
        BY <2>1, <2>3 DEF Pending
      <3>2. i \in Going /\ Going' = Going \ {i}
        BY <2>1, <3>1, BuriedOnce
      <3>3. Life!Bury(i)
        BY <1>1, <1>2, <2>1, <3>2 DEF Life!Bury
      <3> QED BY <1>2, <3>2, <3>3
    <2> QED BY <2>2, <2>3
  <1>4. CASE RemoveDir(a, i)
    <2>1. /\ i \in removing[a] /\ removing'[a] = removing[a] \ {i}
          /\ doomed' = doomed
          /\ \A b \in Actor \ {a} : Pending(b)' = Pending(b)
          /\ (onDisk \cap Id)' \in {onDisk \cap Id, (onDisk \cap Id) \ {i}}
      BY <1>1, <1>4 DEF RemoveDir, RemoveTree, TypeOK, Pending
    <2>2. i \notin doomed[a]
      BY <2>1 DEF IInv, DestroyersOwn
    <2>3. i \in Pending(a) /\ Pending(a)' = Pending(a) \ {i}
      BY <2>1, <2>2 DEF Pending
    <2>4. i \in Going /\ Going' = Going \ {i}
      BY <2>1, <2>3, BuriedOnce
    <2>5. Life!Bury(i)
      BY <1>1, <1>2, <2>1, <2>4 DEF Life!Bury
    <2> QED BY <1>2, <2>4, <2>5
  <1> QED BY <1>3, <1>4

LEMMA SweepIsLife ==
  ASSUME IInv, RequestsKnown, SweepStep
  PROVE  RequestsKnown' /\ (UNCHANGED Life!vars \/ Life!Retire({sweep.id}))
  <1> USE DEF SweepQuiet, procVars
  <1>1. TypeOK /\ UNCHANGED <<bound, onDisk, req, removing>>
    BY DEF IInv, SweepStep, SweepStart, SweepInUse, SweepProbe, SweepEvict, SweepEnd,
           SweeperStop, SweepFresh, SweepIdle
  <1>2. RequestsKnown' /\ UNCHANGED <<Handed, Coming, Runs>>
    BY <1>1, RequestsAlone
  <1>3. CASE SweepEvict
    <2> DEFINE i == sweep.id
    <2>1. /\ registered' = registered \ {i} /\ i \in registered
          /\ doomed'[Sweeper] = doomed[Sweeper] \cup {i} /\ Sweeper \in Actor
          /\ \A a \in Actor \ {Sweeper} : doomed'[a] = doomed[a]
      BY <1>3 DEF SweepEvict, IInv, ScanHolds, MuFree, TypeOK, Actor
    <2>2. Going' = Going \cup {i}
      BY <1>1, <2>1 DEF Going, Pending
    <2> QED BY <1>1, <1>2, <2>1, <2>2 DEF Life!Retire
  <1>4. CASE ~SweepEvict
    <2>1. UNCHANGED <<registered, doomed>>
      BY <1>4 DEF SweepStep, SweepStart, SweepInUse, SweepProbe, SweepEnd,
                  SweeperStop, SweepFresh, SweepIdle
    <2> QED BY <1>1, <1>2, <2>1, SameGoing DEF Life!vars
  <1> QED BY <1>3, <1>4

LEMMA ProcIsLife ==
  ASSUME IInv, RequestsKnown, ProcStep
  PROVE  RequestsKnown'
         /\ (UNCHANGED Life!vars \/ Life!Retire(registered) \/ Life!End)
  <1>1. CASE Signal \/ Restart
    <2>1. UNCHANGED <<registered, bound, onDisk, req, doomed, removing>>
      BY <1>1 DEF Signal, Restart
    <2> QED BY <2>1, RequestsAlone, SameGoing DEF Life!vars
  <1>2. CASE Close
    <2>1. /\ registered' = {} /\ UNCHANGED <<bound, onDisk, req, removing>>
          /\ Main \in Actor /\ doomed'[Main] = registered
          /\ \A a \in Actor \ {Main} : doomed'[a] = doomed[a]
      BY <1>2 DEF Close, IInv, TypeOK, Actor
    <2>2. Pending(Main) = {}
      BY <1>2 DEF Close, IInv, DestroyersOwn
    <2>3. Going' = Going \cup registered
      BY <2>1, <2>2 DEF Going, Pending
    <2> QED BY <2>1, <2>3, RequestsAlone DEF Life!Retire
  <1>3. CASE CloseDone \/ GraceOver \/ Crash
    <2>1. Exit
      BY <1>3 DEF CloseDone, GraceOver, Crash
    <2>2. /\ registered' = {} /\ UNCHANGED <<bound, onDisk>>
          /\ \A c \in Client : ~Busy(c)'
      BY <2>1 DEF Exit, Busy
    <2>3. Going' = {}
      BY <2>1 DEF Exit, Nothing, Going, Pending
    <2>4. RequestsKnown' /\ Coming' = {} /\ Runs' = {} /\ Handed' = Handed
      BY <2>2 DEF RequestsKnown, Coming, Creating, Runs, Handed, At
    <2> QED BY <2>2, <2>3, <2>4 DEF Life!End
  <1> QED BY <1>1, <1>2, <1>3 DEF ProcStep

LEMMA LifeInit == Init => RequestsKnown /\ Life!Init
  <1> SUFFICES ASSUME Init PROVE RequestsKnown /\ Life!Init
    OBVIOUS
  <1>1. /\ registered = {} /\ onDisk \cap Id = {} /\ Handed = {}
        /\ \A c \in Client : ~Busy(c)
    BY SessionsAssumption DEF Init, Busy, Handed
  <1>2. Going = {}
    BY DEF Init, Nothing, Going, Pending
  <1>3. RequestsKnown /\ Coming = {} /\ Runs = {}
    BY <1>1 DEF RequestsKnown, Coming, Creating, Runs, At
  <1> QED BY <1>1, <1>2, <1>3 DEF Life!Init

LEMMA LifeStep ==
  IInv /\ RequestsKnown /\ [Next]_vars => RequestsKnown' /\ [Life!Next]_Life!vars
  <1> SUFFICES ASSUME IInv, RequestsKnown, [Next]_vars
               PROVE  RequestsKnown' /\ [Life!Next]_Life!vars
    OBVIOUS
  <1>1. ASSUME NEW c \in Client, NewRequest(c) \/ Progress(c)
        PROVE  RequestsKnown' /\ [Life!Next]_Life!vars
    <2>1. CASE NewRequest(c)
      <3>1. ASSUME NEW i \in Id, NEW op \in {"chat", "create"},
                   Make(c, i, op) \/ \E d \in Directory : Nominate(c, i, op, d)
            PROVE  RequestsKnown' /\ Life!Next
        <4>1. RequestsKnown' /\ Life!Come(i)
          BY <3>1, ComeStep
        <4>2. i \in Id \ Handed
          BY <4>1 DEF Life!Come
        <4> QED BY <4>1, <4>2 DEF Life!Next
      <3> QED BY <2>1, <3>1, QuietStep DEF NewRequest
    <2>2. CASE BeginRun(c) \/ LockNew(c)
      BY <2>2, UseStep DEF Life!Next
    <2>3. CASE EndRun(c)
      BY <2>3, LeaveStep DEF Life!Next
    <2>4. CASE OpenFails(c) \/ Reject(c)
      BY <2>4, AbortStep DEF Life!Next
    <2>5. CASE Adopt(c)
      BY <2>5, PublishStep DEF Life!Next
    <2>6. CASE Remove(c)
      <3>1. RequestsKnown' /\ Life!Retire({req[c].id})
        BY <2>6, DeleteStep
      <3>2. {req[c].id} \in SUBSET registered
        BY <3>1 DEF Life!Retire
      <3> QED BY <3>1, <3>2 DEF Life!Next
    <2> QED BY <1>1, <2>1, <2>2, <2>3, <2>4, <2>5, <2>6, QuietStep DEF Progress
  <1>2. ASSUME NEW a \in Actor, Destroy(a)
        PROVE  RequestsKnown' /\ [Life!Next]_Life!vars
    BY <1>2, BuryStep DEF Destroy, Life!Next
  <1>3. ASSUME NEW i \in Id, Age(i)
        PROVE  RequestsKnown' /\ [Life!Next]_Life!vars
    <2>1. UNCHANGED <<registered, bound, onDisk, req, doomed, removing>>
      BY <1>3 DEF Age
    <2> QED BY <2>1, RequestsAlone, SameGoing DEF Life!vars
  <1>4. CASE SweepStep
    <2>1. ASSUME Life!Retire({sweep.id})
          PROVE  Life!Next
      <3>1. {sweep.id} \in SUBSET registered
        BY <2>1 DEF Life!Retire
      <3> QED BY <2>1, <3>1 DEF Life!Next
    <2> QED BY <1>4, <2>1, SweepIsLife
  <1>5. CASE ProcStep
    <2>1. registered \in SUBSET registered
      OBVIOUS
    <2> QED BY <1>5, <2>1, ProcIsLife DEF Life!Next
  <1>6. CASE UNCHANGED vars
    <2>1. UNCHANGED <<registered, bound, onDisk, req, doomed, removing>>
      BY <1>6 DEF vars
    <2> QED BY <2>1, RequestsAlone, SameGoing DEF Life!vars
  <1> QED BY <1>1, <1>2, <1>3, <1>4, <1>5, <1>6 DEF Next

\* The registry keeps what SessionLife promises: a session comes, is live, goes
\* and is gone, once; it runs one request at a time and none before it is
\* published; and its tree is removed only as it goes.
THEOREM RegistryImplementsLife == Spec => LifeImplemented
  BY Inductive, LifeInit, LifeStep, PTL DEF Spec, LifeImplemented, Life!Spec
=============================================================================
