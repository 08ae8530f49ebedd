---------------------------- MODULE SessionLife -----------------------------
(***************************************************************************)
(* What the session registry promises, apart from how it keeps it: an id   *)
(* names one workspace, once.  A session comes, is live, goes and is gone, *)
(* and never comes back; it runs one request at a time, and none before it *)
(* is published; the tree made for it is removed only as it goes, or when  *)
(* it never became live.  Sessions implements this (LifeImplemented).      *)
(*                                                                         *)
(* Nothing here says that a session stays live while a request runs in it: *)
(* the registry does not keep that.                                        *)
(***************************************************************************)
CONSTANTS
  Client,  \* requests
  Id       \* session ids

VARIABLES
  known,   \* ids handed out
  coming,  \* sessions being created
  live,    \* sessions that can be looked up
  going,   \* sessions being destroyed; the other known ones are gone
  runs,    \* pairs of a request and the session it runs in
  tree     \* ids whose server-made directory exists

vars == <<known, coming, live, going, runs, tree>>

Init ==
  /\ known = {} /\ coming = {} /\ live = {} /\ going = {}
  /\ runs = {} /\ tree = {}

\* An id is handed out, with a directory of its own or one of the caller's.
Come(i) ==
  /\ i \notin known
  /\ known' = known \cup {i} /\ coming' = coming \cup {i}
  /\ tree' \in {tree, tree \cup {i}}
  /\ UNCHANGED <<live, going, runs>>

Publish(i) ==
  /\ i \in coming
  /\ coming' = coming \ {i} /\ live' = live \cup {i}
  /\ UNCHANGED <<known, going, runs, tree>>

Abort(i) ==
  /\ i \in coming
  /\ coming' = coming \ {i}
  /\ tree' \in {tree, tree \ {i}}
  /\ UNCHANGED <<known, live, going, runs>>

\* A request starts in a session that was published and that no other uses.
Use(c, i) ==
  /\ i \in known \ coming
  /\ \A r \in runs : r[1] # c /\ r[2] # i
  /\ runs' = runs \cup {<<c, i>>}
  /\ UNCHANGED <<known, coming, live, going, tree>>

Leave(r) ==
  /\ r \in runs
  /\ runs' = runs \ {r}
  /\ UNCHANGED <<known, coming, live, going, tree>>

\* Sessions leave the registry: one deleted or evicted, or all when it closes.
Retire(gone) ==
  /\ gone \subseteq live /\ live' = live \ gone
  /\ going' = going \cup gone
  /\ UNCHANGED <<known, coming, runs, tree>>

Bury(i) ==
  /\ i \in going
  /\ going' = going \ {i}
  /\ tree' \in {tree, tree \ {i}}
  /\ UNCHANGED <<known, coming, live, runs>>

\* The process ends: no session survives it, and trees stay.
End ==
  /\ coming' = {} /\ live' = {} /\ going' = {} /\ runs' = {}
  /\ UNCHANGED <<known, tree>>

Next ==
  \/ \E gone \in SUBSET live : Retire(gone)
  \/ \E i \in Id \ known : Come(i)
  \/ \E i \in coming : Publish(i) \/ Abort(i)
  \/ \E i \in known \ coming, c \in Client : Use(c, i)
  \/ \E i \in going : Bury(i)
  \/ \E r \in runs : Leave(r)
  \/ End

Spec == Init /\ [][Next]_vars
=============================================================================
