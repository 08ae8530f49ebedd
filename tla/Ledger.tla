------------------------------- MODULE Ledger -------------------------------
(***************************************************************************)
(* The observation ledger of one session (internal/workspace/ledger.go):   *)
(* what the session has observed of each path of its workspace, and the    *)
(* compare-and-swap rule that decides whether a path may be modified.      *)
(*                                                                         *)
(* A ledger is a partial function from paths to observations, as the Go    *)
(* map is.  The recorded SHA-256 is abstracted to the content it is the    *)
(* hash of, so two contents have equal hashes only when they are equal.    *)
(* Exists = FALSE is recorded as the pseudo-content Absent.  Size and      *)
(* modification time are diagnostics and are left out.  Each operator is   *)
(* one critical section of the ledger's mutex.                             *)
(***************************************************************************)
EXTENDS Naturals

CONSTANTS
  Path,     \* workspace-relative paths, as Jail.Rel returns them
  Content,  \* what a file may hold
  Absent    \* stands for "there is no such file"

ASSUME AbsentAssumption == Absent \notin Content

FileState == Content \cup {Absent}

Observation == [seen : FileState, turn : Nat, stale : BOOLEAN]

IsLedger(led) ==
  /\ DOMAIN led \subseteq Path
  /\ led \in [DOMAIN led -> Observation]

NewLedger == [p \in {} |-> [seen |-> Absent, turn |-> 0, stale |-> FALSE]]

\* Observe and ObserveAbsent: overwrite whatever was recorded, fresh.
Observe(led, p, state, t) ==
  [q \in DOMAIN led \cup {p} |->
     IF q = p THEN [seen |-> state, turn |-> t, stale |-> FALSE] ELSE led[q]]

ObserveAbsent(led, p, t) == Observe(led, p, Absent, t)

MarkStaleBefore(led, t) ==
  [p \in DOMAIN led |-> [led[p] EXCEPT !.stale = @ \/ led[p].turn < t]]

\* A name that is not a key of the map is skipped.
MarkStale(led, names) ==
  [p \in DOMAIN led |-> [led[p] EXCEPT !.stale = @ \/ p \in names]]

(***************************************************************************)
(* Authorize, given the state of the path the caller has just read.  The   *)
(* two refusals carry different codes: FS_NOT_OBSERVED and                 *)
(* FS_STALE_VERSION.                                                       *)
(***************************************************************************)
NotObservedForgetsStale(led, p, current) ==  \* deliberately wrong
  p \notin DOMAIN led /\ current # Absent

NotObserved(led, p, current) ==
  IF p \in DOMAIN led THEN led[p].stale ELSE current # Absent

StaleVersionSkipsHash(led, p, current) == FALSE  \* deliberately wrong

StaleVersion(led, p, current) ==
  /\ p \in DOMAIN led
  /\ led[p].seen # current

Authorize(led, p, current) ==
  /\ ~NotObserved(led, p, current)
  /\ ~StaleVersion(led, p, current)

\* What the ledger vouches the path holds: a path it has no entry for may
\* only be created.
Vouched(led, p) == IF p \in DOMAIN led THEN led[p].seen ELSE Absent

IsStale(led, p) == p \in DOMAIN led /\ led[p].stale
=============================================================================
