------------------------ MODULE ReadBeforeEditProofs ------------------------
(***************************************************************************)
(* Theorems about ReadBeforeEdit, for every set of sessions, directories,  *)
(* paths and contents, every limit and every number of requests.           *)
(***************************************************************************)
EXTENDS ReadBeforeEdit, TLAPS, FiniteSetTheorems, WellFoundedInduction

-----------------------------------------------------------------------------
(* The ledger's operations, for every path and content.                    *)

\* A new ledger is a ledger.
LEMMA NewLedgerType == IsLedger(NewLedger)
  BY DEF IsLedger, NewLedger

\* Observing a path keeps the ledger well formed.
LEMMA ObserveType ==
  ASSUME NEW led, IsLedger(led), NEW p \in Path, NEW state \in FileState,
         NEW t \in Nat
  PROVE  IsLedger(Observe(led, p, state, t))
  BY DEF IsLedger, Observe, Observation

\* Observing an absence keeps the ledger well formed.
LEMMA ObserveAbsentType ==
  ASSUME NEW led, IsLedger(led), NEW p \in Path, NEW t \in Nat
  PROVE  IsLedger(ObserveAbsent(led, p, t))
  BY ObserveType DEF ObserveAbsent, FileState

\* Marking observations stale changes nothing but the mark.
LEMMA MarkStaleBeforeType ==
  ASSUME NEW led, IsLedger(led), NEW t \in Nat
  PROVE  IsLedger(MarkStaleBefore(led, t))
  BY DEF IsLedger, MarkStaleBefore, Observation

LEMMA MarkStaleType ==
  ASSUME NEW led, IsLedger(led), NEW names
  PROVE  IsLedger(MarkStale(led, names))
  BY DEF IsLedger, MarkStale, Observation

\* A modification the ledger authorises finds exactly what the ledger vouches
\* for, and the observation it rests on is not stale.
LEMMA AuthorizeVouches ==
  ASSUME NEW led, NEW p, NEW current, Authorize(led, p, current)
  PROVE  current = Vouched(led, p) /\ ~IsStale(led, p)
  BY DEF Authorize, NotObserved, StaleVersion, Vouched, IsStale
-----------------------------------------------------------------------------
(* Numbers: a set of them that is not empty has a least one, by the        *)
(* well-founded ordering of finite sets, and a greatest one if it is       *)
(* bounded.                                                                *)

LEMMA NatMin ==
  ASSUME NEW T \in SUBSET Nat, T # {}
  PROVE  \E n \in T : \A m \in T : n <= m
  <1> DEFINE U == {1..n : n \in T}
  <1>1. IsWellFoundedOn(StrictSubsetOrdering(Nat), FiniteSubsetsOf(Nat))
    BY FS_StrictSubsetOrderingWellFounded
  <1>2. U \subseteq FiniteSubsetsOf(Nat)
    <2> SUFFICES ASSUME NEW n \in T PROVE 1..n \in FiniteSubsetsOf(Nat)
      OBVIOUS
    <2> QED BY FS_Interval DEF FiniteSubsetsOf
  <1>3. U # {}
    OBVIOUS
  <1> HIDE DEF U
  <1>4. PICK x \in U : \A y \in U : ~(<<y, x>> \in StrictSubsetOrdering(Nat))
    BY <1>1, <1>2, <1>3, WFMin, Zenon
  <1> USE DEF U
  <1>5. PICK n \in T : x = 1..n
    OBVIOUS
  <1>6. ASSUME NEW m \in T, m < n PROVE FALSE
    <2>1. 1..m \in U
      OBVIOUS
    <2>2. /\ 1..m \subseteq 1..n /\ 1..m # 1..n
          /\ 1..m \in SUBSET Nat /\ 1..n \in SUBSET Nat
      BY <1>6
    <2>3. <<1..m, 1..n>> \in StrictSubsetOrdering(Nat)
      BY <2>2, <1>2, <1>5 DEF StrictSubsetOrdering, FiniteSubsetsOf
    <2> QED BY <1>4, <1>5, <2>1, <2>3
  <1> QED BY <1>6

LEMMA Greatest ==
  ASSUME NEW n \in Nat, NEW T \in SUBSET (1..n), T # {}
  PROVE  \E i \in T : \A j \in T : j <= i
  <1> DEFINE D == {n - i : i \in T}
  <1>1. D \in SUBSET Nat /\ D # {}
    <2>1. \A i \in T : n - i \in Nat
      OBVIOUS
    <2> QED BY <2>1
  <1>2. \A i \in T : n - i \in D
    OBVIOUS
  <1>3. PICK d \in D : \A e \in D : d <= e
    <2> HIDE DEF D
    <2> QED BY <1>1, NatMin, Zenon
  <1>4. PICK i \in T : d = n - i
    OBVIOUS
  <1>5. ASSUME NEW j \in T PROVE j <= i
    <2>1. n - i <= n - j
      BY <1>2, <1>3, <1>4
    <2> QED BY <2>1
  <1> QED BY <1>5
-----------------------------------------------------------------------------
(* Type correctness.                                                       *)

\* The bounds and tables of the instance, as the assumption gives them.
USE DEF Phase, Method

LEMMA CallTypes ==
  ASSUME TypeOK, NEW s \in Session, NEW c \in calls[s]
  PROVE  /\ c \in Call
         /\ DirOf[s] \in Dir
         /\ Rel[c.raw] \in Path
         /\ File(s, c) \in FileState
         /\ turn[s] \in Nat
         /\ IsLedger(ledger[s])
  BY WorkspaceAssumption DEF TypeOK, Call, File, Turn

LEMMA AdvanceType ==
  ASSUME TypeOK, NEW s \in Session, NEW c \in calls[s],
         NEW step \in {"stat", "absent", "load", "observe", "check", "store"},
         NEW cur \in FileState, Advance(s, c, step, cur)
  PROVE  calls' \in [Session -> SUBSET Call]
  <1>1. c \in Call
    BY CallTypes
  <1>2. [c EXCEPT !.step = step, !.cur = cur] \in Call
    BY <1>1 DEF Call
  <1> QED BY <1>2 DEF TypeOK, Advance

LEMMA ReturnType ==
  ASSUME TypeOK, NEW s \in Session, NEW c, NEW results \in SUBSET Evidence,
         Return(s, c, results)
  PROVE  /\ calls' \in [Session -> SUBSET Call]
         /\ batch' \in [Session -> SUBSET Evidence]
  BY DEF TypeOK, Return

\* What a call leaves in the conversation is a result.
LEMMA MessageType ==
  ASSUME TypeOK, NEW s \in Session, NEW id \in Id,
         NEW shows \in Path \cup {NoName}, NEW big \in BOOLEAN
  PROVE  Message(s, id, shows, big) \in Evidence
  BY DEF TypeOK, Message, Evidence

LEMMA UnseenType ==
  ASSUME TypeOK, NEW s \in Session, NEW id \in Id, NEW results \in Unseen(s, id)
  PROVE  results \in SUBSET Evidence
  <1>1. Message(s, id, NoName, TRUE) \in Evidence
    BY MessageType
  <1> QED BY <1>1 DEF Unseen

LEMMA TellType ==
  ASSUME TypeOK, NEW s \in Session, NEW c \in calls[s], Tell(s, c)
  PROVE  /\ calls' \in [Session -> SUBSET Call]
         /\ batch' \in [Session -> SUBSET Evidence]
  <1>1. c.id \in Id
    BY DEF TypeOK, Call
  <1>2. PICK results \in Unseen(s, c.id) : Return(s, c, results)
    BY DEF Tell
  <1> QED BY <1>1, <1>2, UnseenType, ReturnType

\* The last call with an id is one of those that have it.
LEMMA LastNamedIs ==
  ASSUME NEW n \in Nat, NEW asks, NEW id, LastNamed(asks, n, id) # {}
  PROVE  LET i == CHOOSE j \in LastNamed(asks, n, id) : TRUE
         IN  i \in 1..n /\ asks[i].id = id /\ Name(asks[i].raw) # NoName
  BY DEF LastNamed

\* What the conversation's calls name, after those of one group more.
LEMMA RecordType ==
  ASSUME TypeOK, NEW s \in Session, NEW n \in Nat, NEW asks \in [1..n -> Ask],
         Record(s, n, asks)
  PROVE  /\ readPaths' \in [Session -> [Id -> Naming]]
         /\ asked' \in [Session -> SUBSET Ask]
  <1> DEFINE last(id) == CHOOSE j \in LastNamed(asks, n, id) : TRUE
             Later == [id \in Id |->
                         IF LastNamed(asks, n, id) = {} THEN readPaths[s][id]
                         ELSE [path |-> Name(asks[last(id)].raw),
                               turn |-> turn[s]]]
  <1>1. ASSUME NEW id \in Id PROVE Later[id] \in Naming
    <2>1. CASE LastNamed(asks, n, id) = {}
      BY <2>1 DEF TypeOK
    <2>2. CASE LastNamed(asks, n, id) # {}
      <3>1. asks[last(id)] \in Ask
        BY <2>2, LastNamedIs
      <3>2. Name(asks[last(id)].raw) \in Spelling \cup {NoName}
        BY <3>1 DEF Name, Ask
      <3> HIDE DEF last
      <3> QED BY <2>2, <3>2 DEF TypeOK, Naming
    <2> QED BY <2>1, <2>2
  <1>2. Later \in [Id -> Naming]
    BY <1>1
  <1>3. readPaths' = [readPaths EXCEPT ![s] = Later]
    BY DEF Record
  <1>4. asked' \in [Session -> SUBSET Ask]
    BY DEF Record, TypeOK
  <1> HIDE DEF Later
  <1> QED BY <1>2, <1>3, <1>4 DEF TypeOK

LEMMA PutType ==
  ASSUME TypeOK, NEW s \in Session, NEW c \in calls[s], NEW state \in FileState,
         Put(s, c, state)
  PROVE  disk' \in [Dir -> [Path -> FileState]]
  BY CallTypes DEF TypeOK, Put

\* Whatever a compaction does to a ledger, it is a ledger.
LEMMA InvalidateType ==
  ASSUME TypeOK, NEW s \in Session, NEW t \in Nat, NEW cut, NEW m,
         Invalidate(s, t, cut, m)
  PROVE  DOMAIN ledger' = Session /\ \A x \in Session : IsLedger(ledger'[x])
  <1>1. IsLedger(MarkStaleBefore(ledger[s], t))
    BY MarkStaleBeforeType DEF TypeOK
  <1>2. IsLedger(MarkStale(ledger[s], PrunedPaths(s, cut)))
    BY MarkStaleType DEF TypeOK
  <1> QED BY <1>1, <1>2 DEF TypeOK, Invalidate

LEMMA NoPathsType == NoPaths \in [Id -> Naming]
  BY WorkspaceAssumption DEF NoPaths, Naming, Turn

LEMMA CompactType ==
  ASSUME TypeOK, NEW s \in Session, NEW t \in Nat, Compact(s, t)
  PROVE  /\ DOMAIN ledger' = Session /\ \A x \in Session : IsLedger(ledger'[x])
         /\ method' \in [Session -> Method]
         /\ context' \in [Session -> SUBSET Evidence]
         /\ readPaths' \in [Session -> [Id -> Naming]]
  <1>1. PICK cut \in 0..t, m \in {"prune", "summarize"} :
          /\ Invalidate(s, t, cut, m)
          /\ method' = [method EXCEPT ![s] = m]
          /\ context' = [context EXCEPT ![s] = @ \ Dropped(s, cut, m)]
          /\ readPaths' = [readPaths EXCEPT ![s] = Forgotten(@, cut, m)]
    BY DEF Compact
  <1>2. DOMAIN ledger' = Session /\ \A x \in Session : IsLedger(ledger'[x])
    BY <1>1, InvalidateType
  <1>3. Forgotten(readPaths[s], cut, m) \in [Id -> Naming]
    BY NoPathsType DEF TypeOK, Forgotten
  <1> QED BY <1>1, <1>2, <1>3 DEF TypeOK

\* An observation of a call's path keeps the session's ledger well formed.
LEMMA ObservedType ==
  ASSUME TypeOK, NEW s \in Session, NEW c \in calls[s], NEW state \in FileState,
         ledger' = [ledger EXCEPT ![s] = Observe(@, Rel[c.raw], state, turn[s])]
  PROVE  DOMAIN ledger' = Session /\ \A x \in Session : IsLedger(ledger'[x])
  <1>1. IsLedger(Observe(ledger[s], Rel[c.raw], state, turn[s]))
    BY CallTypes, ObserveType
  <1> QED BY <1>1 DEF TypeOK

LEMMA EndRequestType ==
  ASSUME TypeOK, NEW s \in Session, EndRequest(s)
  PROVE  /\ phase' \in [Session -> Phase]
         /\ turn' \in [Session -> Turn]
         /\ context' \in [Session -> SUBSET Evidence]
         /\ readPaths' \in [Session -> [Id -> Naming]]
         /\ asked' \in [Session -> SUBSET Ask]
         /\ reads' \in [Session -> SUBSET Ask]
         /\ method' \in [Session -> Method]
  BY WorkspaceAssumption, NoPathsType DEF TypeOK, EndRequest, Turn

LEMMA LoopKeepsType ==
  ASSUME TypeOK, NEW s \in Session,
         \/ StartRequest(s) \/ BeginTurn(s) \/ Overflow(s) \/ OverflowFatal(s)
         \/ RequestTools(s) \/ Finish(s) \/ EndTurn(s)
  PROVE  TypeOK'
  <1>1. CASE StartRequest(s)
    <2>1. PICK made \in SUBSET Id, answered \in SUBSET Id :
            \E name \in [made -> Spelling] :
              /\ readPaths' = [readPaths EXCEPT ![s] =
                    [id \in Id |->
                       [path |-> IF id \in made THEN name[id] ELSE NoName,
                        turn |-> 0]]]
              /\ context' = [context EXCEPT ![s] =
                    {[id |-> id, turn |-> 0, shows |-> NoName, big |-> TRUE] :
                       id \in answered}]
      BY <1>1 DEF StartRequest
    <2>. PICK name \in [made -> Spelling] :
            /\ readPaths' = [readPaths EXCEPT ![s] =
                  [id \in Id |->
                     [path |-> IF id \in made THEN name[id] ELSE NoName,
                      turn |-> 0]]]
            /\ context' = [context EXCEPT ![s] =
                  {[id |-> id, turn |-> 0, shows |-> NoName, big |-> TRUE] :
                     id \in answered}]
      BY <2>1
    <2>2. 0 \in Turn
      BY WorkspaceAssumption DEF Turn
    <2>3. [id \in Id |-> [path |-> IF id \in made THEN name[id] ELSE NoName,
                         turn |-> 0]] \in [Id -> Naming]
      BY <2>2 DEF Naming
    <2>4. {[id |-> id, turn |-> 0, shows |-> NoName, big |-> TRUE] :
             id \in answered} \in SUBSET Evidence
      <3>1. \A id \in answered :
              [id |-> id, turn |-> 0, shows |-> NoName, big |-> TRUE] \in Evidence
        BY <2>2 DEF Evidence
      <3> QED BY <3>1
    <2>5. /\ readPaths' \in [Session -> [Id -> Naming]]
          /\ context' \in [Session -> SUBSET Evidence]
      BY <2>3, <2>4 DEF TypeOK
    <2>6. /\ phase' \in [Session -> Phase]
          /\ requests' \in [Session -> 0..MaxRequests]
      BY <1>1, WorkspaceAssumption DEF TypeOK, StartRequest
    <2>7. UNCHANGED <<disk, ledger, turn, batch, calls, started, method, outside,
                      asked, reads>>
      BY <1>1 DEF StartRequest
    <2> QED BY <2>5, <2>6, <2>7 DEF TypeOK
  <1>2. CASE BeginTurn(s)
    <2>1. turn[s] + 1 \in Nat
      BY DEF TypeOK, Turn
    <2>2. turn' \in [Session -> Turn]
      BY <1>2, WorkspaceAssumption DEF TypeOK, BeginTurn, Turn
    <2>3. CASE Compact(s, turn[s] + 1)
      <3>1. /\ DOMAIN ledger' = Session /\ \A x \in Session : IsLedger(ledger'[x])
            /\ method' \in [Session -> Method]
            /\ context' \in [Session -> SUBSET Evidence]
            /\ readPaths' \in [Session -> [Id -> Naming]]
        BY <2>1, <2>3, CompactType
      <3> QED BY <1>2, <2>2, <3>1 DEF TypeOK, BeginTurn
    <2>4. CASE NoCompaction(s)
      BY <1>2, <2>2, <2>4 DEF TypeOK, BeginTurn, NoCompaction
    <2> QED BY <1>2, <2>3, <2>4 DEF BeginTurn
  <1>3. CASE Overflow(s)
    <2>1. turn[s] \in Nat
      BY DEF TypeOK, Turn
    <2>2. /\ DOMAIN ledger' = Session /\ \A x \in Session : IsLedger(ledger'[x])
          /\ method' \in [Session -> Method]
          /\ context' \in [Session -> SUBSET Evidence]
          /\ readPaths' \in [Session -> [Id -> Naming]]
      BY <1>3, <2>1, CompactType DEF Overflow
    <2> QED BY <1>3, <2>2 DEF TypeOK, Overflow
  <1>4. CASE OverflowFatal(s)
    <2>1. turn[s] \in Nat
      BY DEF TypeOK, Turn
    <2>2. DOMAIN ledger' = Session /\ \A x \in Session : IsLedger(ledger'[x])
      BY <1>4, <2>1, InvalidateType DEF OverflowFatal
    <2> QED BY <1>4, <2>2, EndRequestType DEF TypeOK, OverflowFatal
  <1>5. CASE RequestTools(s)
    BY <1>5 DEF TypeOK, RequestTools
  <1>6. CASE Finish(s)
    BY <1>6, EndRequestType DEF TypeOK, Finish
  <1>7. CASE EndTurn(s)
    BY <1>7, WorkspaceAssumption DEF TypeOK, EndTurn
  <1> QED BY <1>1, <1>2, <1>3, <1>4, <1>5, <1>6, <1>7

LEMMA StartKeepsType ==
  ASSUME TypeOK, NEW s \in Session,
         StartReads(s) \/ StartModify(s) \/ OtherCall(s) \/ Bash(s)
  PROVE  TypeOK'
  <1>1. started' \in [Session -> 0..MaxCalls]
    <2>1. MayStart(s)
      BY DEF StartReads, StartModify, OtherCall, Bash
    <2> QED BY <2>1, WorkspaceAssumption DEF TypeOK, MayStart
  <1>2. CASE StartReads(s)
    <2>1. PICK n \in Slot : \E asks \in [1..n -> Ask] :
            /\ calls' = [calls EXCEPT ![s] =
                           {NewCall(i, "read", asks[i], "stat") : i \in 1..n}]
            /\ Record(s, n, asks)
      BY <1>2 DEF StartReads
    <2>. PICK asks \in [1..n -> Ask] :
            /\ calls' = [calls EXCEPT ![s] =
                           {NewCall(i, "read", asks[i], "stat") : i \in 1..n}]
            /\ Record(s, n, asks)
      BY <2>1
    <2>2. 1..n \subseteq Slot /\ n \in Nat
      BY WorkspaceAssumption DEF Slot
    <2>3. \A i \in 1..n : NewCall(i, "read", asks[i], "stat") \in Call
      BY <2>2 DEF NewCall, Call, FileState, Ask
    <2>4. {NewCall(i, "read", asks[i], "stat") : i \in 1..n} \in SUBSET Call
      BY <2>3
    <2>5. calls' \in [Session -> SUBSET Call]
      BY <2>4 DEF TypeOK
    <2> QED BY <1>1, <1>2, <2>2, <2>5, RecordType DEF TypeOK, StartReads
  <1>3. CASE StartModify(s)
    <2>1. PICK tool \in {"write", "edit"}, ask \in Ask :
            /\ calls' = [calls EXCEPT ![s] = {NewCall(1, tool, ask, "check")}]
            /\ Record(s, 1, [i \in 1..1 |-> ask])
      BY <1>3 DEF StartModify
    <2>2. NewCall(1, tool, ask, "check") \in Call
      BY WorkspaceAssumption DEF NewCall, Call, FileState, Slot, Ask
    <2>3. calls' \in [Session -> SUBSET Call]
      BY <2>1, <2>2 DEF TypeOK
    <2> QED BY <1>1, <1>3, <2>1, <2>3, RecordType DEF TypeOK, StartModify
  <1>4. CASE OtherCall(s)
    <2>1. PICK ask \in Ask : \E results \in Unseen(s, ask.id) :
            /\ batch' = [batch EXCEPT ![s] = @ \cup results]
            /\ Record(s, 1, [i \in 1..1 |-> ask])
      BY <1>4 DEF OtherCall
    <2>. PICK results \in Unseen(s, ask.id) :
            /\ batch' = [batch EXCEPT ![s] = @ \cup results]
            /\ Record(s, 1, [i \in 1..1 |-> ask])
      BY <2>1
    <2>2. results \in SUBSET Evidence
      BY UnseenType DEF Ask
    <2>3. batch' \in [Session -> SUBSET Evidence]
      BY <2>2 DEF TypeOK
    <2> QED BY <1>1, <1>4, <2>3, RecordType DEF TypeOK, OtherCall
  <1>5. CASE Bash(s)
    <2>1. disk' \in [Dir -> [Path -> FileState]]
      BY <1>5, WorkspaceAssumption DEF TypeOK, Bash
    <2>2. PICK id \in Id : \E results \in Unseen(s, id) :
            batch' = [batch EXCEPT ![s] = @ \cup results]
      BY <1>5 DEF Bash
    <2>3. batch' \in [Session -> SUBSET Evidence]
      BY <2>2, UnseenType DEF TypeOK
    <2> QED BY <1>1, <1>5, <2>1, <2>3 DEF TypeOK, Bash
  <1> QED BY <1>2, <1>3, <1>4, <1>5

LEMMA ToolKeepsType ==
  ASSUME TypeOK, NEW s \in Session, NEW c \in calls[s], ToolStep(s, c)
  PROVE  TypeOK'
  <1> USE DEF loopVars
  <1>a. /\ c \in Call /\ Rel[c.raw] \in Path /\ File(s, c) \in FileState
        /\ turn[s] \in Nat /\ Absent \in FileState
    BY CallTypes DEF FileState
  <1>b. /\ c.raw \in Spelling /\ c.id \in Id /\ c.cur \in FileState
        /\ \A big \in BOOLEAN :
             {Message(s, c.id, Rel[c.raw], big)} \in SUBSET Evidence
    <2>1. c.raw \in Spelling /\ c.id \in Id /\ c.cur \in FileState
      BY <1>a DEF Call
    <2> QED BY <1>a, <2>1, MessageType
  <1>1. CASE ReadStat(s, c)
    <2>1. calls' \in [Session -> SUBSET Call]
      BY <1>1, <1>a, AdvanceType DEF ReadStat
    <2> QED BY <1>1, <2>1 DEF TypeOK, ReadStat
  <1>2. CASE ReadAbsent(s, c)
    BY <1>2, <1>a, TellType, ObservedType
    DEF TypeOK, ReadAbsent, ObserveAbsent
  <1>3. CASE ReadLoad(s, c)
    <2>1. /\ calls' \in [Session -> SUBSET Call]
          /\ batch' \in [Session -> SUBSET Evidence]
      BY <1>3, <1>a, AdvanceType, TellType DEF ReadLoad, TypeOK
    <2> QED BY <1>3, <2>1 DEF TypeOK, ReadLoad
  <1>4. CASE ReadObserve(s, c)
    <2>1. /\ calls' \in [Session -> SUBSET Call]
          /\ batch' \in [Session -> SUBSET Evidence]
      BY <1>4, <1>b, ReturnType DEF ReadObserve
    <2>2. reads' \in [Session -> SUBSET Ask]
      BY <1>4, <1>b DEF TypeOK, ReadObserve, Ask
    <2> QED BY <1>4, <1>b, <2>1, <2>2, ObservedType DEF TypeOK, ReadObserve
  <1>5. CASE EditMissing(s, c)
    BY <1>5, <1>a, TellType, ObservedType
    DEF TypeOK, EditMissing, ObserveAbsent
  <1>6. CASE ModifyRefused(s, c)
    BY <1>6, TellType DEF TypeOK, ModifyRefused
  <1>7. CASE ModifyCheck(s, c)
    <2>1. calls' \in [Session -> SUBSET Call]
      BY <1>7, <1>a, AdvanceType DEF ModifyCheck
    <2> QED BY <1>7, <2>1 DEF TypeOK, ModifyCheck
  <1>8. CASE ModifyStore(s, c)
    <2>1. PICK new \in Content : Put(s, c, new) /\ Advance(s, c, "observe", new)
      BY <1>8 DEF ModifyStore
    <2>2. new \in FileState
      BY DEF FileState
    <2>3. calls' \in [Session -> SUBSET Call]
      BY <2>1, <2>2, AdvanceType
    <2>4. disk' \in [Dir -> [Path -> FileState]]
      BY <2>1, <2>2, PutType
    <2> QED BY <1>8, <2>3, <2>4 DEF TypeOK, ModifyStore
  <1>9. CASE StoreFails(s, c)
    <2>1. PICK left \in Content \cup {File(s, c)} : Put(s, c, left)
      BY <1>9 DEF StoreFails
    <2>2. left \in FileState
      BY <1>a DEF FileState
    <2>3. disk' \in [Dir -> [Path -> FileState]]
      BY <2>1, <2>2, PutType
    <2>4. /\ calls' \in [Session -> SUBSET Call]
          /\ batch' \in [Session -> SUBSET Evidence]
      BY <1>9, TellType DEF StoreFails
    <2> QED BY <1>9, <2>3, <2>4 DEF TypeOK, StoreFails
  <1>10. CASE ModifyObserve(s, c)
    <2>1. /\ calls' \in [Session -> SUBSET Call]
          /\ batch' \in [Session -> SUBSET Evidence]
      BY <1>10, <1>b, ReturnType, TellType DEF ModifyObserve
    <2> QED BY <1>10, <1>b, <2>1, ObservedType DEF TypeOK, ModifyObserve
  <1> QED BY <1>1, <1>2, <1>3, <1>4, <1>5, <1>6, <1>7, <1>8, <1>9, <1>10
          DEF ToolStep

LEMMA OutsideKeepsType ==
  ASSUME TypeOK, NEW d \in Dir, NEW p \in Path, Outside(d, p)
  PROVE  TypeOK'
  <1>1. disk' \in [Dir -> [Path -> FileState]]
    BY DEF TypeOK, Outside
  <1>2. outside' \in 0..MaxOutside
    BY WorkspaceAssumption DEF TypeOK, Outside
  <1> QED BY <1>1, <1>2 DEF TypeOK, Outside

\* Every reachable state is well typed: in particular a ledger is only ever
\* keyed by cleaned workspace paths, whatever spelling a tool was given.
THEOREM TypeCorrect == Spec => []TypeOK
  <1>1. Init => TypeOK
    BY WorkspaceAssumption, NewLedgerType, NoPathsType DEF Init, TypeOK, Turn
  <1>2. TypeOK /\ [Next]_vars => TypeOK'
    <2> SUFFICES ASSUME TypeOK, [Next]_vars PROVE TypeOK'
      OBVIOUS
    <2>1. ASSUME NEW s \in Session, SessionStep(s) PROVE TypeOK'
      BY <2>1, LoopKeepsType, StartKeepsType, ToolKeepsType DEF SessionStep
    <2>2. ASSUME NEW d \in Dir, NEW p \in Path, Outside(d, p) PROVE TypeOK'
      BY <2>2, OutsideKeepsType
    <2>3. CASE UNCHANGED vars
      BY <2>3 DEF TypeOK, vars
    <2> QED BY <2>1, <2>2, <2>3 DEF Next
  <1> QED BY <1>1, <1>2, PTL DEF Spec

-----------------------------------------------------------------------------
(* The inductive invariant.  Each part is about one session and reads only *)
(* that session's variables, so a step of another session cannot disturb   *)
(* it; DiskHeld, about the files, is the exception and is kept apart.      *)

\* Calls run only during a turn's tool phase, a call that modifies runs
\* alone, and what the tools returned is appended before the next phase.
CallsDisciplined(s) ==
  /\ calls[s] # {} => phase[s] = "tools"
  /\ phase[s] # "tools" => batch[s] = {}
  /\ \A c \in calls[s] :
       /\ c.tool = "read" => c.step \notin {"check", "store"}
       /\ c.step \in {"stat", "absent", "load"} => c.tool = "read"
       /\ c.tool # "read" => calls[s] = {c}

\* Between the check and the observation of a modification, the ledger keeps
\* vouching for what the check was made against.
Vetted(s) ==
  \A c \in calls[s] : c.tool # "read" =>
    /\ c.step = "store" => Vouched(ledger[s], Rel[c.raw]) = c.cur
    /\ c.step \in {"store", "observe"} => ~IsStale(ledger[s], Rel[c.raw])
    /\ c.step \in {"store", "observe"} /\ c.tool = "edit" =>
         Trusted(s, Rel[c.raw])

\* Every file the running request read has an entry dated by this request.
ReadIsDated(s) ==
  \A x \in reads[s] :
    /\ Rel[x.raw] \in DOMAIN ledger[s]
    /\ ledger[s][Rel[x.raw]].turn <= turn[s]
    /\ phase[s] \in {"sent", "resent"} => ledger[s][Rel[x.raw]].turn < turn[s]

\* What the id stands for was named by a call of this request, in turn t or
\* later.
NamedSince(s, id, t) ==
  \E y \in asked[s] :
    /\ y.id = id /\ Name(y.raw) # NoName
    /\ readPaths[s][id].path = Name(y.raw)
    /\ readPaths[s][id].turn >= t

CallsAreNamed(s) ==
  \A c \in calls[s] : Name(c.raw) # NoName => NamedSince(s, c.id, turn[s])

\* Only reads of this request show a file in a result that a prune would drop,
\* and as long as such a result is there, so is the call that names it.
BigIsRead(s) ==
  \A e \in context[s] \cup batch[s] : e.shows # NoName =>
    /\ e.turn <= turn[s]
    /\ e.big => \E x \in reads[s] :
                  /\ x.id = e.id /\ Rel[x.raw] = e.shows
                  /\ Name(x.raw) # NoName => NamedSince(s, e.id, e.turn)

\* Between requests nothing is left of the last one.
IdleIsClean(s) == phase[s] = "idle" => reads[s] = {}

\* PlainlyVouchedIsVisible, for one session.
Visible(s) ==
  \A p \in Path :
    ReadNow(s, p) /\ PlainlyNamed(s, p) /\ Trusted(s, p) => InContext(s, p)

Local(s) ==
  /\ CallsDisciplined(s)
  /\ Vetted(s)
  /\ ReadIsDated(s)
  /\ CallsAreNamed(s)
  /\ BigIsRead(s)
  /\ IdleIsClean(s)
  /\ Visible(s)

IInv == TypeOK /\ \A s \in Session : Local(s)

\* The file a call is about to write is still what it was checked against.
DiskHeld ==
  \A s \in Session : \A c \in calls[s] : c.step = "store" => File(s, c) = c.cur
-----------------------------------------------------------------------------
(* Steps of other sessions, and of the world outside.                      *)

\* What Local(t) reads is as it was.
Untouched(t) ==
  /\ ledger'[t] = ledger[t] /\ calls'[t] = calls[t] /\ phase'[t] = phase[t]
  /\ turn'[t] = turn[t] /\ context'[t] = context[t] /\ batch'[t] = batch[t]
  /\ readPaths'[t] = readPaths[t]
  /\ asked'[t] = asked[t] /\ reads'[t] = reads[t]

LEMMA LocalFrame ==
  ASSUME NEW t, Local(t), Untouched(t)
  PROVE  Local(t)'
  <1>1. CallsDisciplined(t)'
    BY DEF Local, Untouched, CallsDisciplined
  <1>2. Vetted(t)'
    BY DEF Local, Untouched, Vetted, Vouched, IsStale, Trusted
  <1>3. ReadIsDated(t)'
    BY DEF Local, Untouched, ReadIsDated
  <1>4. \A id, k : NamedSince(t, id, k) => NamedSince(t, id, k)'
    BY DEF Untouched, NamedSince
  <1>5. CallsAreNamed(t)'
    BY <1>4 DEF Local, Untouched, CallsAreNamed
  <1>6. BigIsRead(t)'
    BY <1>4 DEF Local, Untouched, BigIsRead
  <1>7. Visible(t)'
    BY DEF Local, Untouched, Visible, ReadNow, PlainlyNamed, Trusted, InContext
  <1>8. IdleIsClean(t)'
    BY DEF Local, Untouched, IdleIsClean
  <1> QED BY <1>1, <1>2, <1>3, <1>5, <1>6, <1>7, <1>8 DEF Local

LEMMA OthersUntouched ==
  ASSUME TypeOK, NEW s \in Session, NEW t \in Session, s # t, SessionStep(s)
  PROVE  Untouched(t)
  <1> USE DEF TypeOK, Untouched
  <1>1. CASE StartRequest(s)
    BY <1>1 DEF StartRequest
  <1>2. CASE BeginTurn(s)
    BY <1>2 DEF BeginTurn, Compact, NoCompaction, Invalidate
  <1>3. CASE Overflow(s)
    BY <1>3 DEF Overflow, Compact, Invalidate
  <1>4. CASE OverflowFatal(s)
    BY <1>4 DEF OverflowFatal, EndRequest, Invalidate
  <1>5. CASE RequestTools(s)
    BY <1>5 DEF RequestTools
  <1>6. CASE Finish(s)
    BY <1>6 DEF Finish, EndRequest
  <1>7. CASE EndTurn(s)
    BY <1>7 DEF EndTurn
  <1>8. CASE StartReads(s)
    BY <1>8 DEF StartReads, Record
  <1>9. CASE StartModify(s)
    BY <1>9 DEF StartModify, Record
  <1>10. CASE Bash(s)
    BY <1>10 DEF Bash
  <1>11. CASE OtherCall(s)
    BY <1>11 DEF OtherCall, Record
  <1>12. ASSUME NEW c \in calls[s], ToolStep(s, c) PROVE Untouched(t)
    <2> USE DEF loopVars, Return, Tell, Advance
    <2>1. CASE ReadStat(s, c)
      BY <2>1 DEF ReadStat
    <2>2. CASE ReadAbsent(s, c)
      BY <2>2 DEF ReadAbsent
    <2>3. CASE ReadLoad(s, c)
      BY <2>3 DEF ReadLoad
    <2>4. CASE ReadObserve(s, c)
      BY <2>4 DEF ReadObserve
    <2>5. CASE EditMissing(s, c)
      BY <2>5 DEF EditMissing
    <2>6. CASE ModifyRefused(s, c)
      BY <2>6 DEF ModifyRefused
    <2>7. CASE ModifyCheck(s, c)
      BY <2>7 DEF ModifyCheck
    <2>8. CASE ModifyStore(s, c)
      BY <2>8 DEF ModifyStore
    <2>9. CASE StoreFails(s, c)
      BY <2>9 DEF StoreFails
    <2>10. CASE ModifyObserve(s, c)
      BY <2>10 DEF ModifyObserve
    <2> QED BY <1>12, <2>1, <2>2, <2>3, <2>4, <2>5, <2>6, <2>7, <2>8, <2>9,
               <2>10 DEF ToolStep
  <1> QED BY <1>1, <1>2, <1>3, <1>4, <1>5, <1>6, <1>7, <1>8, <1>9, <1>10, <1>11,
             <1>12 DEF SessionStep
-----------------------------------------------------------------------------
(* Compaction.                                                             *)

\* A compaction only ever marks: no entry appears, disappears, is redated or
\* is trusted again.
LEMMA InvalidateOnlyMarks ==
  ASSUME TypeOK, NEW s \in Session, NEW t \in Nat, NEW cut, NEW m,
         Invalidate(s, t, cut, m)
  PROVE  /\ DOMAIN ledger'[s] = DOMAIN ledger[s]
         /\ \A p \in DOMAIN ledger[s] :
              /\ ledger'[s][p].turn = ledger[s][p].turn
              /\ ledger'[s][p].seen = ledger[s][p].seen
              /\ ledger[s][p].stale => ledger'[s][p].stale
              /\ m = "summarize" /\ ledger[s][p].turn < t => ledger'[s][p].stale
              /\ m # "summarize" /\ p \in PrunedPaths(s, cut)
                 => ledger'[s][p].stale
  <1>0. ledger[s] \in [DOMAIN ledger[s] -> Observation] /\ s \in DOMAIN ledger
    BY DEF TypeOK, IsLedger
  <1>1. CASE m = "summarize"
    <2>1. ledger'[s] = MarkStaleBefore(ledger[s], t)
      BY <1>0, <1>1 DEF Invalidate
    <2> QED BY <1>0, <1>1, <2>1 DEF MarkStaleBefore, Observation
  <1>2. CASE m # "summarize"
    <2> DEFINE names == PrunedPaths(s, cut)
    <2>1. ledger'[s] = MarkStale(ledger[s], names)
      BY <1>0, <1>2 DEF Invalidate
    <2> HIDE DEF names
    <2>2. DOMAIN ledger'[s] = DOMAIN ledger[s]
      BY <2>1 DEF MarkStale
    <2>3. \A p \in DOMAIN ledger[s] :
            ledger'[s][p] = [ledger[s][p] EXCEPT !.stale = @ \/ p \in names]
      BY <2>1 DEF MarkStale
    <2>4. \A p \in DOMAIN ledger[s] : ledger[s][p] \in Observation
      BY <1>0
    <2>5. ASSUME NEW p \in DOMAIN ledger[s]
          PROVE  /\ ledger'[s][p].turn = ledger[s][p].turn
                 /\ ledger'[s][p].seen = ledger[s][p].seen
                 /\ ledger[s][p].stale => ledger'[s][p].stale
                 /\ p \in names => ledger'[s][p].stale
      BY <2>3, <2>4, <2>5 DEF Observation
    <2> QED BY <1>2, <2>2, <2>5 DEF names
  <1> QED BY <1>1, <1>2

\* A result that showed a plainly named file is pruned under the file's name,
\* whatever the other calls and the client's messages named.
LEMMA PlainlyPruned ==
  ASSUME TypeOK, NEW s \in Session, Local(s), NEW p \in Path,
         PlainlyNamed(s, p), NEW cut,
         NEW e \in Dropped(s, cut, "prune"), e.shows = p
  PROVE  p \in PrunedPaths(s, cut)
  <1>1. e \in context[s] /\ e.big
    BY DEF Dropped
  <1>2. p # NoName
    BY WorkspaceAssumption
  <1>3. PICK x \in reads[s] :
          /\ x.id = e.id /\ Rel[x.raw] = p
          /\ Name(x.raw) # NoName => NamedSince(s, e.id, e.turn)
    BY <1>1, <1>2 DEF Local, BigIsRead
  <1>4. x.raw = p /\ \A y \in asked[s] : y.id = x.id => Name(y.raw) \in {p, NoName}
    BY <1>3 DEF PlainlyNamed
  <1>5. Name(x.raw) # NoName
    BY <1>2, <1>4, WorkspaceAssumption DEF Name
  <1>6. readPaths[s][e.id].path = p
    BY <1>3, <1>4, <1>5 DEF NamedSince
  <1> QED BY <1>2, <1>6 DEF PrunedPaths

\* What a compaction drops from the conversation it also marks in the ledger,
\* for the files the request named plainly.
LEMMA CompactionMarksWhatItDrops ==
  ASSUME TypeOK, NEW s \in Session, Local(s), NEW t \in Nat, NEW cut,
         NEW m \in {"prune", "summarize"},
         \A x \in reads[s] : ledger[s][Rel[x.raw]].turn < t,
         Invalidate(s, t, cut, m),
         context' = [context EXCEPT ![s] = @ \ Dropped(s, cut, m)],
         UNCHANGED <<batch, asked, reads>>
  PROVE  Visible(s)'
  <1> SUFFICES ASSUME NEW p \in Path, ReadNow(s, p), PlainlyNamed(s, p),
                      Trusted(s, p)'
               PROVE  InContext(s, p)'
    BY DEF Visible, ReadNow, PlainlyNamed
  <1>1. p \in DOMAIN ledger[s] /\ ledger[s][p].turn < t
    BY DEF Local, ReadIsDated, ReadNow
  <1>2. ~ledger'[s][p].stale
    BY DEF Trusted
  <1>3. m = "prune" /\ p \notin PrunedPaths(s, cut)
    BY <1>1, <1>2, InvalidateOnlyMarks
  <1>4. Trusted(s, p)
    BY <1>1, <1>2, InvalidateOnlyMarks DEF Trusted
  <1>5. PICK e \in context[s] \cup batch[s] : e.shows = p
    BY <1>4 DEF Local, Visible, InContext
  <1>6. e \notin Dropped(s, cut, m)
    BY <1>3, <1>5, PlainlyPruned
  <1>7. e \in context'[s] \cup batch'[s]
    BY <1>5, <1>6 DEF TypeOK
  <1> QED BY <1>5, <1>7 DEF InContext

\* A name given in a turn that a compaction does not cut stays given.
LEMMA CompactionKeepsNames ==
  ASSUME TypeOK, NEW s \in Session, NEW id \in Id, NEW k \in Nat, NEW cut \in Nat,
         NEW m, NamedSince(s, id, k), m = "summarize" => k >= cut,
         readPaths' = [readPaths EXCEPT ![s] = Forgotten(@, cut, m)],
         UNCHANGED asked
  PROVE  NamedSince(s, id, k)'
  <1>1. readPaths[s][id].turn \in Nat
    BY DEF TypeOK, Naming, Turn
  <1>2. readPaths[s][id].turn >= k
    BY DEF NamedSince
  <1>3. ~(m = "summarize" /\ readPaths[s][id].turn < cut)
    BY <1>1, <1>2
  <1>4. readPaths'[s][id] = readPaths[s][id]
    BY <1>3 DEF TypeOK, Forgotten
  <1> QED BY <1>4 DEF NamedSince

LEMMA CompactKeepsLocal ==
  ASSUME TypeOK, NEW s \in Session, Local(s), NEW t \in Nat,
         phase[s] # "tools", t >= turn[s],
         \A x \in reads[s] : ledger[s][Rel[x.raw]].turn < t,
         Compact(s, t),
         UNCHANGED <<calls, batch, asked, reads>>,
         phase' \in {[phase EXCEPT ![s] = "sent"], [phase EXCEPT ![s] = "resent"]},
         turn'[s] = t
  PROVE  Local(s)'
  <1>1. PICK cut \in 0..t, m \in {"prune", "summarize"} :
          /\ Invalidate(s, t, cut, m)
          /\ context' = [context EXCEPT ![s] = @ \ Dropped(s, cut, m)]
          /\ readPaths' = [readPaths EXCEPT ![s] = Forgotten(@, cut, m)]
    BY DEF Compact
  <1>2. calls[s] = {} /\ batch[s] = {}
    BY DEF Local, CallsDisciplined
  <1>3. CallsDisciplined(s)' /\ Vetted(s)' /\ CallsAreNamed(s)'
    BY <1>2 DEF CallsDisciplined, Vetted, CallsAreNamed
  <1>4. ReadIsDated(s)'
    <2>1. \A x \in reads[s] : Rel[x.raw] \in DOMAIN ledger[s]
      BY DEF Local, ReadIsDated
    <2>2. ledger[s] \in [DOMAIN ledger[s] -> Observation]
      BY DEF TypeOK, IsLedger
    <2>3. \A x \in reads[s] : ledger[s][Rel[x.raw]].turn \in Nat
      BY <2>1, <2>2 DEF Observation
    <2>4. \A x \in reads[s] :
            /\ Rel[x.raw] \in DOMAIN ledger'[s]
            /\ ledger'[s][Rel[x.raw]].turn = ledger[s][Rel[x.raw]].turn
      BY <1>1, <2>1, InvalidateOnlyMarks
    <2> QED BY <2>3, <2>4 DEF ReadIsDated
  <1>5. BigIsRead(s)'
    <2> SUFFICES ASSUME NEW e \in context'[s] \cup batch'[s], e.shows # NoName
                 PROVE  /\ e.turn <= t
                        /\ e.big => \E x \in reads[s] :
                             /\ x.id = e.id /\ Rel[x.raw] = e.shows
                             /\ Name(x.raw) # NoName
                                  => NamedSince(s, e.id, e.turn)'
      BY DEF BigIsRead
    <2>1. e \in context[s] \ Dropped(s, cut, m)
      BY <1>1, <1>2 DEF TypeOK
    <2>2. e.id \in Id /\ e.turn \in Nat /\ turn[s] \in Nat
      BY <2>1 DEF TypeOK, Evidence, Turn
    <2>3. e.turn <= t
      BY <2>1, <2>2 DEF Local, BigIsRead
    <2>4. m = "summarize" => e.turn >= cut
      BY <1>1, <2>1, <2>2 DEF Dropped
    <2>5. NamedSince(s, e.id, e.turn) => NamedSince(s, e.id, e.turn)'
      <3> SUFFICES ASSUME NamedSince(s, e.id, e.turn)
                   PROVE  NamedSince(s, e.id, e.turn)'
        OBVIOUS
      <3>1. cut \in Nat
        OBVIOUS
      <3> DEFINE k == e.turn
                 i == e.id
      <3>2. k \in Nat /\ i \in Id /\ NamedSince(s, i, k)
        BY <2>2
      <3>3. m = "summarize" => k >= cut
        BY <2>4
      <3> HIDE DEF k, i
      <3>4. NamedSince(s, i, k)'
        BY <1>1, <3>1, <3>2, <3>3, CompactionKeepsNames
      <3> QED BY <3>4 DEF k, i
    <2> QED BY <2>1, <2>3, <2>5 DEF Local, BigIsRead
  <1>6. Visible(s)'
    BY <1>1, CompactionMarksWhatItDrops
  <1>7. IdleIsClean(s)'
    BY DEF TypeOK, IdleIsClean
  <1> QED BY <1>3, <1>4, <1>5, <1>6, <1>7 DEF Local
-----------------------------------------------------------------------------
(* The other steps of the session itself.                                  *)

\* A step after which the same is named.
SameNames(s) == UNCHANGED <<turn, readPaths, asked>>

LEMMA NamesKept ==
  ASSUME NEW s, SameNames(s)
  PROVE  \A id, k : NamedSince(s, id, k) => NamedSince(s, id, k)'
  BY DEF SameNames, NamedSince

\* Ending a request leaves nothing the invariant speaks of.
LEMMA EndRequestKeepsLocal ==
  ASSUME TypeOK, NEW s \in Session, Local(s), phase[s] # "tools", EndRequest(s),
         UNCHANGED <<calls, batch>>
  PROVE  Local(s)'
  <1>1. calls'[s] = {} /\ batch'[s] = {} /\ context'[s] = {} /\ reads'[s] = {}
    BY DEF TypeOK, Local, CallsDisciplined, EndRequest
  <1> QED BY <1>1 DEF Local, CallsDisciplined, Vetted, ReadIsDated,
                      CallsAreNamed, BigIsRead, Visible, ReadNow, IdleIsClean

\* A step that leaves the ledger and what was read alone, and adds only results
\* that show no file.
Quiet(s) ==
  /\ UNCHANGED <<ledger, phase, turn, context, reads>>
  /\ batch[s] \subseteq batch'[s]
  /\ \A e \in batch'[s] \ batch[s] : e.shows = NoName

LEMMA QuietKeepsTrust ==
  ASSUME NEW s, Local(s), Quiet(s), asked[s] \subseteq asked'[s],
         \A e \in context[s] \cup batch[s] :
           e.shows # NoName /\ e.big /\ NamedSince(s, e.id, e.turn)
             => NamedSince(s, e.id, e.turn)'
  PROVE  ReadIsDated(s)' /\ BigIsRead(s)' /\ Visible(s)'
  <1> USE DEF Quiet
  <1>1. ReadIsDated(s)'
    BY DEF Local, ReadIsDated
  <1>2. BigIsRead(s)'
    BY DEF Local, BigIsRead
  <1>3. \A p : ReadNow(s, p)' /\ PlainlyNamed(s, p)' /\ Trusted(s, p)'
                 => ReadNow(s, p) /\ PlainlyNamed(s, p) /\ Trusted(s, p)
    BY DEF ReadNow, PlainlyNamed, Trusted
  <1>4. \A p : InContext(s, p) => InContext(s, p)'
    BY DEF InContext
  <1>5. Visible(s)'
    BY <1>3, <1>4 DEF Local, Visible
  <1> QED BY <1>1, <1>2, <1>5

LEMMA LoopKeepsLocal ==
  ASSUME TypeOK, NEW s \in Session, Local(s),
         \/ StartRequest(s) \/ BeginTurn(s) \/ Overflow(s) \/ OverflowFatal(s)
         \/ RequestTools(s) \/ Finish(s) \/ EndTurn(s)
  PROVE  Local(s)'
  <1> USE DEF Local
  <1>0. /\ turn[s] \in Nat
        /\ \A x \in reads[s] : /\ ledger[s][Rel[x.raw]].turn \in Nat
                             /\ ledger[s][Rel[x.raw]].turn <= turn[s]
    <2>1. ledger[s] \in [DOMAIN ledger[s] -> Observation]
      BY DEF TypeOK, IsLedger
    <2> QED BY <2>1 DEF TypeOK, ReadIsDated, Observation, Turn
  <1>1. CASE StartRequest(s)
    <2>1. /\ phase'[s] = "ready" /\ phase[s] = "idle"
          /\ calls[s] = {} /\ batch[s] = {}
          /\ UNCHANGED <<ledger, turn, batch, calls, asked, reads>>
      BY <1>1 DEF TypeOK, StartRequest, CallsDisciplined
    <2>2. \A e \in context'[s] : e.shows = NoName
      BY <1>1 DEF TypeOK, StartRequest
    <2>3. reads[s] = {}
      BY <2>1 DEF IdleIsClean
    <2> QED BY <2>1, <2>2, <2>3 DEF CallsDisciplined, Vetted, ReadIsDated,
               CallsAreNamed, BigIsRead, Visible, ReadNow, IdleIsClean
  <1>2. CASE BeginTurn(s)
    <2>1. /\ phase[s] = "ready" /\ turn'[s] = turn[s] + 1
          /\ phase' = [phase EXCEPT ![s] = "sent"]
          /\ UNCHANGED <<calls, batch, asked, reads>>
      BY <1>2 DEF TypeOK, BeginTurn
    <2>2. CASE Compact(s, turn[s] + 1)
      <3>1. turn[s] + 1 \in Nat /\ turn[s] + 1 >= turn[s]
        BY <1>0
      <3>2. \A x \in reads[s] : ledger[s][Rel[x.raw]].turn < turn[s] + 1
        BY <1>0
      <3>3. phase[s] # "tools"
        BY <2>1
      <3> QED BY <2>1, <2>2, <3>1, <3>2, <3>3, CompactKeepsLocal
    <2>3. CASE NoCompaction(s)
      <3>1. calls[s] = {} /\ phase'[s] = "sent" /\ batch[s] = {}
        BY <2>1 DEF TypeOK, CallsDisciplined
      <3>2. UNCHANGED <<ledger, context, readPaths>>
        BY <2>3 DEF NoCompaction
      <3>3. ReadIsDated(s)'
        BY <1>0, <2>1, <3>1, <3>2 DEF ReadIsDated
      <3>4. \A id, k : NamedSince(s, id, k) => NamedSince(s, id, k)'
        BY <2>1, <3>2 DEF NamedSince
      <3>5. \A e \in context[s] : e.turn \in Nat
        BY DEF TypeOK, Evidence, Turn
      <3>6. BigIsRead(s)'
        BY <1>0, <2>1, <3>1, <3>2, <3>4, <3>5 DEF BigIsRead
      <3>7. Visible(s)'
        BY <2>1, <3>2 DEF Visible, ReadNow, PlainlyNamed, Trusted, InContext
      <3> QED BY <2>1, <3>1, <3>3, <3>6, <3>7
              DEF CallsDisciplined, Vetted, CallsAreNamed, IdleIsClean
    <2> QED BY <1>2, <2>2, <2>3 DEF BeginTurn
  <1>3. CASE Overflow(s)
    <2>1. /\ phase[s] = "sent" /\ turn'[s] = turn[s]
          /\ phase' = [phase EXCEPT ![s] = "resent"]
          /\ UNCHANGED <<calls, batch, asked, reads>>
          /\ Compact(s, turn[s])
      BY <1>3 DEF Overflow
    <2>2. \A x \in reads[s] : ledger[s][Rel[x.raw]].turn < turn[s]
      BY <2>1 DEF ReadIsDated
    <2>3. /\ turn[s] \in Nat /\ turn[s] >= turn[s] /\ phase[s] # "tools"
          /\ phase' \in {[phase EXCEPT ![s] = "sent"],
                        [phase EXCEPT ![s] = "resent"]}
      BY <2>1 DEF TypeOK, Turn
    <2> QED BY <2>1, <2>2, <2>3, CompactKeepsLocal
  <1>4. CASE OverflowFatal(s)
    BY <1>4, EndRequestKeepsLocal DEF OverflowFatal
  <1>5. CASE RequestTools(s)
    <2>1. /\ calls[s] = {} /\ batch[s] = {} /\ phase'[s] = "tools"
          /\ UNCHANGED <<ledger, turn, context, batch, readPaths, calls, asked,
                         reads>>
      BY <1>5 DEF TypeOK, RequestTools, CallsDisciplined
    <2>2. \A id, k : NamedSince(s, id, k) => NamedSince(s, id, k)'
      BY <2>1, NamesKept DEF SameNames
    <2>3. BigIsRead(s)'
      BY <2>1, <2>2 DEF BigIsRead
    <2>4. Visible(s)'
      BY <2>1 DEF Visible, ReadNow, PlainlyNamed, Trusted, InContext
    <2> QED BY <2>1, <2>3, <2>4 DEF CallsDisciplined, Vetted, ReadIsDated,
               CallsAreNamed, IdleIsClean
  <1>6. CASE Finish(s)
    BY <1>6, EndRequestKeepsLocal DEF Finish
  <1>7. CASE EndTurn(s)
    <2>1. /\ calls[s] = {} /\ phase'[s] = "ready" /\ batch'[s] = {}
          /\ context'[s] = context[s] \cup batch[s]
          /\ UNCHANGED <<ledger, turn, readPaths, calls, asked, reads>>
      BY <1>7 DEF TypeOK, EndTurn
    <2>2. \A id, k : NamedSince(s, id, k) => NamedSince(s, id, k)'
      BY <2>1, NamesKept DEF SameNames
    <2>3. BigIsRead(s)'
      BY <2>1, <2>2 DEF BigIsRead
    <2>4. Visible(s)'
      BY <2>1 DEF Visible, ReadNow, PlainlyNamed, Trusted, InContext
    <2> QED BY <2>1, <2>3, <2>4 DEF CallsDisciplined, Vetted, ReadIsDated,
               CallsAreNamed, IdleIsClean
  <1> QED BY <1>1, <1>2, <1>3, <1>4, <1>5, <1>6, <1>7

\* What the calls of a new group name is named from now on, and what was named
\* before still is, if by another call.
LEMMA RecordNames ==
  ASSUME TypeOK, NEW s \in Session, NEW n \in Nat, NEW asks \in [1..n -> Ask],
         Record(s, n, asks), turn' = turn
  PROVE  /\ \A id \in Id : \A k \in Nat : k <= turn[s] /\ NamedSince(s, id, k)
              => NamedSince(s, id, k)'
         /\ \A i \in 1..n : Name(asks[i].raw) # NoName
              => NamedSince(s, asks[i].id, turn[s])'
  <1> DEFINE last(id) == CHOOSE j \in LastNamed(asks, n, id) : TRUE
  <1>1. turn[s] \in Nat /\ \A i \in 1..n : asks[i] \in asked'[s]
    BY DEF TypeOK, Turn, Record
  <1>2. asked[s] \subseteq asked'[s]
    BY DEF TypeOK, Record
  <1>3. \A id \in Id :
          readPaths'[s][id] = IF LastNamed(asks, n, id) = {} THEN readPaths[s][id]
                              ELSE [path |-> Name(asks[last(id)].raw),
                                    turn |-> turn[s]]
    BY DEF TypeOK, Record
  <1>4. ASSUME NEW id \in Id, LastNamed(asks, n, id) # {},
               NEW k \in Nat, k <= turn[s]
        PROVE  NamedSince(s, id, k)'
    <2>1. /\ last(id) \in 1..n /\ asks[last(id)].id = id
          /\ Name(asks[last(id)].raw) # NoName
      BY <1>4, LastNamedIs
    <2>2. readPaths'[s][id] = [path |-> Name(asks[last(id)].raw),
                               turn |-> turn[s]]
      BY <1>3, <1>4, Zenon
    <2> HIDE DEF last
    <2>3. /\ readPaths'[s][id].path = Name(asks[last(id)].raw)
          /\ readPaths'[s][id].turn = turn[s]
      BY <2>2
    <2> QED BY <1>1, <1>4, <2>1, <2>3 DEF NamedSince
  <1>5. ASSUME NEW id \in Id, LastNamed(asks, n, id) = {}, NEW k \in Nat,
               NamedSince(s, id, k)
        PROVE  NamedSince(s, id, k)'
    <2>1. readPaths'[s][id] = readPaths[s][id]
      BY <1>3, <1>5
    <2> QED BY <1>2, <1>5, <2>1 DEF NamedSince
  <1>6. ASSUME NEW i \in 1..n, Name(asks[i].raw) # NoName
        PROVE  asks[i].id \in Id /\ LastNamed(asks, n, asks[i].id) # {}
    <2> DEFINE own == {j \in 1..n : asks[j].id = asks[i].id
                                      /\ Name(asks[j].raw) # NoName}
    <2>1. own \in SUBSET (1..n) /\ own # {}
      BY <1>6
    <2>2. \E j \in own : \A k \in own : k <= j
      <3> HIDE DEF own
      <3> QED BY <2>1, Greatest
    <2> QED BY <2>2 DEF LastNamed, Ask
  <1> QED BY <1>1, <1>4, <1>5, <1>6

\* A group of calls without a result yet, or a call whose result shows no file.
LEMMA StartKeepsTrust ==
  ASSUME TypeOK, NEW s \in Session, Local(s), Quiet(s),
         NEW n \in Nat, NEW asks \in [1..n -> Ask], Record(s, n, asks)
  PROVE  ReadIsDated(s)' /\ BigIsRead(s)' /\ Visible(s)'
  <1>1. ASSUME NEW e \in context[s] \cup batch[s], e.shows # NoName,
               NamedSince(s, e.id, e.turn)
        PROVE  NamedSince(s, e.id, e.turn)'
    <2>1. e.id \in Id /\ e.turn \in Nat
      BY DEF TypeOK, Evidence, Turn
    <2>2. e.turn <= turn[s]
      BY <1>1 DEF Local, BigIsRead
    <2>3. turn' = turn
      BY DEF Quiet
    <2> QED BY <1>1, <2>1, <2>2, <2>3, RecordNames
  <1>2. asked[s] \subseteq asked'[s]
    BY DEF TypeOK, Record
  <1> QED BY <1>1, <1>2, QuietKeepsTrust

LEMMA UnseenShowsNothing ==
  ASSUME NEW s, NEW id, NEW results \in Unseen(s, id)
  PROVE  \A e \in results : e.shows = NoName
  BY DEF Unseen, Message

LEMMA StartKeepsLocal ==
  ASSUME TypeOK, NEW s \in Session, Local(s),
         StartReads(s) \/ StartModify(s) \/ OtherCall(s) \/ Bash(s)
  PROVE  Local(s)'
  <1>1. /\ phase[s] = "tools" /\ calls[s] = {}
        /\ UNCHANGED <<ledger, phase, turn, context, reads>>
    BY DEF StartReads, StartModify, OtherCall, Bash, MayStart
  <1>2. IdleIsClean(s)'
    BY <1>1 DEF IdleIsClean
  <1>3. CASE StartReads(s)
    <2>1. PICK n \in Slot : \E asks \in [1..n -> Ask] :
            /\ calls' = [calls EXCEPT ![s] =
                           {NewCall(i, "read", asks[i], "stat") : i \in 1..n}]
            /\ Record(s, n, asks)
      BY <1>3 DEF StartReads
    <2>. PICK asks \in [1..n -> Ask] :
            /\ calls' = [calls EXCEPT ![s] =
                           {NewCall(i, "read", asks[i], "stat") : i \in 1..n}]
            /\ Record(s, n, asks)
      BY <2>1
    <2>2. n \in Nat
      BY DEF Slot
    <2>3. Quiet(s)
      BY <1>1, <1>3 DEF Quiet, StartReads
    <2>4. \A c \in calls'[s] : \E i \in 1..n :
            /\ c.tool = "read" /\ c.step = "stat"
            /\ c.id = asks[i].id /\ c.raw = asks[i].raw
      <3>1. calls'[s] = {NewCall(i, "read", asks[i], "stat") : i \in 1..n}
        BY DEF TypeOK
      <3> QED BY <3>1 DEF NewCall
    <2>5. CallsAreNamed(s)'
      BY <1>1, <2>2, <2>4, RecordNames DEF CallsAreNamed
    <2>6. ReadIsDated(s)' /\ BigIsRead(s)' /\ Visible(s)'
      BY <2>2, <2>3, StartKeepsTrust
    <2> QED BY <1>1, <1>2, <2>4, <2>5, <2>6 DEF Local, CallsDisciplined, Vetted
  <1>4. CASE StartModify(s)
    <2>1. PICK tool \in {"write", "edit"}, ask \in Ask :
            /\ calls' = [calls EXCEPT ![s] = {NewCall(1, tool, ask, "check")}]
            /\ Record(s, 1, [i \in 1..1 |-> ask])
      BY <1>4 DEF StartModify
    <2>2. \A c \in calls'[s] : /\ c.tool # "read" /\ c.step = "check"
                             /\ c.id = ask.id /\ c.raw = ask.raw
                             /\ calls'[s] = {c}
      BY <2>1 DEF TypeOK, NewCall
    <2>3. Quiet(s)
      BY <1>1, <1>4 DEF Quiet, StartModify
    <2>4. CallsAreNamed(s)'
      <3> DEFINE asks == [i \in 1..1 |-> ask]
      <3>1. /\ asks \in [1..1 -> Ask] /\ Record(s, 1, asks)
            /\ asks[1] = ask /\ 1 \in 1..1 /\ 1 \in Nat /\ turn' = turn
        BY <1>1, <2>1
      <3> HIDE DEF asks
      <3>2. Name(ask.raw) # NoName => NamedSince(s, ask.id, turn[s])'
        BY <3>1, RecordNames
      <3> QED BY <1>1, <2>2, <3>1, <3>2 DEF CallsAreNamed
    <2>5. ReadIsDated(s)' /\ BigIsRead(s)' /\ Visible(s)'
      BY <2>1, <2>3, StartKeepsTrust
    <2> QED BY <1>1, <1>2, <2>2, <2>4, <2>5 DEF Local, CallsDisciplined, Vetted
  <1>5. CASE OtherCall(s)
    <2>1. PICK ask \in Ask : \E results \in Unseen(s, ask.id) :
            /\ batch' = [batch EXCEPT ![s] = @ \cup results]
            /\ Record(s, 1, [i \in 1..1 |-> ask])
      BY <1>5 DEF OtherCall
    <2>2. Quiet(s)
      BY <1>1, <2>1, UnseenShowsNothing DEF Quiet, TypeOK
    <2>3. ReadIsDated(s)' /\ BigIsRead(s)' /\ Visible(s)'
      BY <2>1, <2>2, StartKeepsTrust
    <2>4. calls'[s] = {}
      BY <1>1, <1>5 DEF OtherCall
    <2> QED BY <1>1, <1>2, <2>3, <2>4
            DEF Local, CallsDisciplined, Vetted, CallsAreNamed
  <1>6. CASE Bash(s)
    <2>1. calls'[s] = {} /\ UNCHANGED <<readPaths, asked>>
      BY <1>1, <1>6 DEF Bash
    <2>2. PICK id \in Id : \E results \in Unseen(s, id) :
            batch' = [batch EXCEPT ![s] = @ \cup results]
      BY <1>6 DEF Bash
    <2>3. Quiet(s)
      BY <1>1, <2>2, UnseenShowsNothing DEF Quiet, TypeOK
    <2>4. ReadIsDated(s)' /\ BigIsRead(s)' /\ Visible(s)'
      BY <1>1, <2>1, <2>3, NamesKept, QuietKeepsTrust DEF SameNames
    <2> QED BY <1>1, <1>2, <2>1, <2>4
            DEF Local, CallsDisciplined, Vetted, CallsAreNamed
  <1> QED BY <1>3, <1>4, <1>5, <1>6
-----------------------------------------------------------------------------
(* The steps of a tool call.                                               *)

\* A read is in flight only beside other reads.
LEMMA ReadsOnly ==
  ASSUME NEW s, CallsDisciplined(s), NEW c \in calls[s], c.tool = "read"
  PROVE  \A e \in calls[s] : e.tool = "read"
  BY DEF CallsDisciplined

LEMMA ReturnKeepsDiscipline ==
  ASSUME TypeOK, NEW s \in Session, Local(s), NEW c \in calls[s],
         NEW results, Return(s, c, results), phase' = phase, SameNames(s)
  PROVE  /\ CallsDisciplined(s)' /\ CallsAreNamed(s)'
         /\ c.tool # "read" => calls'[s] = {}
         /\ calls'[s] \subseteq calls[s]
         /\ batch'[s] = batch[s] \cup results
  <1>1. calls'[s] = calls[s] \ {c} /\ phase[s] = "tools"
    BY DEF TypeOK, Local, CallsDisciplined, Return
  <1>2. \A e \in calls'[s] : e.tool = "read"
    BY <1>1 DEF Local, CallsDisciplined
  <1>3. CallsAreNamed(s)'
    BY <1>1, NamesKept DEF Local, CallsAreNamed, SameNames
  <1>4. batch'[s] = batch[s] \cup results
    BY DEF TypeOK, Return
  <1> QED BY <1>1, <1>2, <1>3, <1>4 DEF Local, CallsDisciplined

\* A call that ends without showing a file.
LEMMA TellKeepsDiscipline ==
  ASSUME TypeOK, NEW s \in Session, Local(s), NEW c \in calls[s],
         Tell(s, c), phase' = phase, SameNames(s)
  PROVE  /\ CallsDisciplined(s)' /\ CallsAreNamed(s)'
         /\ c.tool # "read" => calls'[s] = {}
         /\ calls'[s] \subseteq calls[s]
         /\ batch[s] \subseteq batch'[s]
         /\ \A e \in batch'[s] \ batch[s] : e.shows = NoName
  <1>1. PICK results \in Unseen(s, c.id) : Return(s, c, results)
    BY DEF Tell
  <1> QED BY <1>1, ReturnKeepsDiscipline, UnseenShowsNothing

LEMMA AdvanceKeepsDiscipline ==
  ASSUME TypeOK, NEW s \in Session, Local(s), NEW c \in calls[s],
         NEW step \in {"absent", "load", "observe", "store"},
         NEW cur, Advance(s, c, step, cur), phase' = phase, SameNames(s),
         c.tool = "read" => step # "store",
         step \in {"absent", "load"} => c.tool = "read"
  PROVE  /\ CallsDisciplined(s)' /\ CallsAreNamed(s)'
         /\ c.tool = "read" => \A e \in calls'[s] : e.tool = "read"
         /\ c.tool # "read" => \E n : /\ calls'[s] = {n}
                                    /\ n.tool = c.tool /\ n.raw = c.raw
                                    /\ n.step = step /\ n.cur = cur
  <1> DEFINE n == [c EXCEPT !.step = step, !.cur = cur]
  <1>1. calls'[s] = (calls[s] \ {c}) \cup {n} /\ phase[s] = "tools"
    BY DEF TypeOK, Local, CallsDisciplined, Advance
  <1>2. /\ n.tool = c.tool /\ n.raw = c.raw /\ n.id = c.id
        /\ n.step = step /\ n.cur = cur
    BY CallTypes DEF Call
  <1> HIDE DEF n
  <1>3. CallsAreNamed(s)'
    BY <1>1, <1>2, NamesKept DEF Local, CallsAreNamed, SameNames
  <1>4. CASE c.tool = "read"
    <2>1. \A e \in calls[s] : e.tool = "read"
      BY <1>4, ReadsOnly DEF Local
    <2> QED BY <1>1, <1>2, <1>3, <1>4, <2>1 DEF Local, CallsDisciplined
  <1>5. CASE c.tool # "read"
    <2>1. calls'[s] = {n}
      BY <1>1, <1>5 DEF Local, CallsDisciplined
    <2> QED BY <1>1, <1>2, <1>3, <1>5, <2>1 DEF CallsDisciplined
  <1> QED BY <1>4, <1>5

\* A quiet step that leaves the names alone too.
LEMMA StillKeepsTrust ==
  ASSUME NEW s, Local(s), Quiet(s), SameNames(s)
  PROVE  ReadIsDated(s)' /\ BigIsRead(s)' /\ Visible(s)'
  BY NamesKept, QuietKeepsTrust DEF SameNames

\* An observation dates its path by the running turn.
LEMMA ObservationKeepsDates ==
  ASSUME TypeOK, NEW s \in Session, Local(s), NEW c \in calls[s], NEW state,
         ledger' = [ledger EXCEPT ![s] = Observe(@, Rel[c.raw], state, turn[s])],
         UNCHANGED <<phase, turn>>,
         \A x \in reads'[s] \ reads[s] : x.raw = c.raw
  PROVE  ReadIsDated(s)'
  <1>1. ledger'[s] = Observe(ledger[s], Rel[c.raw], state, turn[s])
    BY DEF TypeOK
  <1>2. /\ DOMAIN ledger'[s] = DOMAIN ledger[s] \cup {Rel[c.raw]}
        /\ ledger'[s][Rel[c.raw]].turn = turn[s]
        /\ \A q \in DOMAIN ledger[s] \ {Rel[c.raw]} : ledger'[s][q] = ledger[s][q]
    BY <1>1 DEF Observe
  <1>3. phase[s] = "tools" /\ turn[s] \in Nat
    BY DEF TypeOK, Local, CallsDisciplined, Turn
  <1> QED BY <1>2, <1>3 DEF Local, ReadIsDated

\* An observed absence is nothing to be seen.
LEMMA AbsenceKeepsTrust ==
  ASSUME TypeOK, NEW s \in Session, Local(s), NEW c \in calls[s],
         ledger' = [ledger EXCEPT ![s] =
                      ObserveAbsent(@, Rel[c.raw], turn[s])],
         batch[s] \subseteq batch'[s],
         \A e \in batch'[s] \ batch[s] : e.shows = NoName,
         SameNames(s), UNCHANGED <<phase, context, reads>>
  PROVE  ReadIsDated(s)' /\ BigIsRead(s)' /\ Visible(s)'
  <1>1. ledger'[s] = Observe(ledger[s], Rel[c.raw], Absent, turn[s])
    BY DEF TypeOK, ObserveAbsent
  <1>2. /\ DOMAIN ledger'[s] = DOMAIN ledger[s] \cup {Rel[c.raw]}
        /\ ledger'[s][Rel[c.raw]].seen = Absent
        /\ \A q \in DOMAIN ledger[s] \ {Rel[c.raw]} : ledger'[s][q] = ledger[s][q]
    BY <1>1 DEF Observe
  <1>3. \A p : Trusted(s, p)' => Trusted(s, p)
    BY <1>2 DEF Trusted
  <1>4. Visible(s)'
    BY <1>3 DEF Local, Visible, InContext, ReadNow, PlainlyNamed, SameNames
  <1>5. BigIsRead(s)'
    BY NamesKept DEF Local, BigIsRead, SameNames
  <1>6. ReadIsDated(s)'
    BY ObservationKeepsDates DEF ObserveAbsent, SameNames
  <1> QED BY <1>4, <1>5, <1>6

LEMMA ToolKeepsLocal ==
  ASSUME TypeOK, NEW s \in Session, Local(s), NEW c \in calls[s], ToolStep(s, c)
  PROVE  Local(s)'
  <1> USE DEF loopVars
  <1>a. c \in Call /\ Rel[c.raw] \in Path /\ s \in DOMAIN ledger
    BY CallTypes DEF TypeOK
  <1>b. /\ c.step \in {"check", "store"} => c.tool # "read"
        /\ c.step \in {"stat", "absent", "load"} => c.tool = "read"
    BY DEF Local, CallsDisciplined
  <1>c. SameNames(s) /\ UNCHANGED <<phase, context>>
    BY DEF SameNames, ToolStep, ReadStat, ReadAbsent, ReadLoad, ReadObserve,
           EditMissing, ModifyRefused, ModifyCheck, ModifyStore, StoreFails,
           ModifyObserve
  <1>d. phase[s] = "tools" /\ IdleIsClean(s)'
    BY <1>c DEF Local, CallsDisciplined, IdleIsClean
  <1>e. UNCHANGED <<turn, readPaths, asked>>
    BY <1>c DEF SameNames
  <1>1. CASE ReadStat(s, c)
    <2>1. Advance(s, c, "absent", Absent) \/ Advance(s, c, "load", Absent)
      BY <1>1 DEF ReadStat
    <2>2. c.tool = "read" /\ Quiet(s)
      BY <1>1, <1>b, <1>c, <1>e DEF ReadStat, Quiet
    <2>3. CallsDisciplined(s)' /\ CallsAreNamed(s)'
          /\ \A e \in calls'[s] : e.tool = "read"
      BY <1>c, <2>1, <2>2, AdvanceKeepsDiscipline
    <2> QED BY <1>c, <1>d, <2>2, <2>3, StillKeepsTrust DEF Local, Vetted
  <1>2. CASE ReadAbsent(s, c)
    <2>1. Tell(s, c) /\ reads' = reads
      BY <1>2 DEF ReadAbsent
    <2>2. /\ CallsDisciplined(s)' /\ CallsAreNamed(s)'
          /\ batch[s] \subseteq batch'[s]
          /\ \A e \in batch'[s] \ batch[s] : e.shows = NoName
          /\ \A e \in calls'[s] : e.tool = "read"
      BY <1>2, <1>b, <1>c, <2>1, ReadsOnly, TellKeepsDiscipline
      DEF ReadAbsent, Local
    <2>3. ReadIsDated(s)' /\ BigIsRead(s)' /\ Visible(s)'
      BY <1>2, <1>c, <2>1, <2>2, AbsenceKeepsTrust DEF ReadAbsent
    <2> QED BY <1>d, <2>2, <2>3 DEF Local, Vetted
  <1>3. CASE ReadLoad(s, c)
    <2>1. c.tool = "read" /\ UNCHANGED <<ledger, reads>>
      BY <1>3, <1>b DEF ReadLoad
    <2>2. CASE Tell(s, c)
      <3>1. /\ CallsDisciplined(s)' /\ CallsAreNamed(s)' /\ Quiet(s)
            /\ \A e \in calls'[s] : e.tool = "read"
        BY <1>c, <1>e, <2>1, <2>2, ReadsOnly, TellKeepsDiscipline
        DEF Local, Quiet
      <3> QED BY <1>c, <1>d, <3>1, StillKeepsTrust DEF Local, Vetted
    <2>3. CASE Advance(s, c, "observe", File(s, c)) /\ UNCHANGED batch
      <3>1. /\ CallsDisciplined(s)' /\ CallsAreNamed(s)'
            /\ \A e \in calls'[s] : e.tool = "read"
        BY <1>c, <2>1, <2>3, AdvanceKeepsDiscipline
      <3>2. Quiet(s)
        BY <1>c, <1>e, <2>1, <2>3 DEF Quiet
      <3> QED BY <1>c, <1>d, <3>1, <3>2, StillKeepsTrust DEF Local, Vetted
    <2> QED BY <1>3, <2>2, <2>3 DEF ReadLoad
  <1>4. CASE ReadObserve(s, c)
    <2> DEFINE x == [id |-> c.id, raw |-> c.raw]
    <2>1. PICK big \in BOOLEAN :
            Return(s, c, {Message(s, c.id, Rel[c.raw], big)})
      BY <1>4 DEF ReadObserve
    <2> DEFINE m == Message(s, c.id, Rel[c.raw], big)
    <2>2. /\ CallsDisciplined(s)' /\ CallsAreNamed(s)'
          /\ \A e \in calls'[s] : e.tool = "read"
          /\ batch'[s] = batch[s] \cup {m}
      BY <1>4, <1>c, <2>1, ReadsOnly, ReturnKeepsDiscipline
      DEF ReadObserve, Local
    <2>3. reads'[s] = reads[s] \cup {x}
      BY <1>4 DEF ReadObserve, TypeOK
    <2>4. ReadIsDated(s)'
      <3>1. \A y \in reads'[s] \ reads[s] : y.raw = c.raw
        BY <2>3
      <3>2. /\ ledger' = [ledger EXCEPT
                  ![s] = Observe(@, Rel[c.raw], c.cur, turn[s])]
            /\ UNCHANGED <<phase, turn>>
        BY <1>4 DEF ReadObserve
      <3> QED BY <3>1, <3>2, ObservationKeepsDates
    <2>5. /\ m.id = c.id /\ m.shows = Rel[c.raw] /\ m.turn = turn[s]
          /\ x.id = c.id /\ x.raw = c.raw /\ turn[s] <= turn[s]
      BY DEF Message, TypeOK, Turn
    <2>6. Name(c.raw) # NoName => NamedSince(s, c.id, turn[s])
      BY DEF Local, CallsAreNamed
    <2> HIDE DEF x, m
    <2>7. BigIsRead(s)'
      <3>1. \A id, k : NamedSince(s, id, k) => NamedSince(s, id, k)'
        BY <1>c, NamesKept
      <3> SUFFICES ASSUME NEW e \in context'[s] \cup batch'[s], e.shows # NoName
                   PROVE  /\ e.turn <= turn[s]
                          /\ e.big => \E y \in reads'[s] :
                               /\ y.id = e.id /\ Rel[y.raw] = e.shows
                               /\ Name(y.raw) # NoName
                                    => NamedSince(s, e.id, e.turn)'
        BY <1>e DEF BigIsRead
      <3>2. CASE e = m
        BY <2>3, <2>5, <2>6, <3>1, <3>2
      <3>3. CASE e # m
        <4>1. e \in context[s] \cup batch[s]
          BY <1>c, <2>2, <3>3
        <4> QED BY <2>3, <3>1, <4>1 DEF Local, BigIsRead
      <3> QED BY <3>2, <3>3
    <2>8. ASSUME NEW p \in Path, ReadNow(s, p)', PlainlyNamed(s, p)',
                 Trusted(s, p)'
          PROVE  InContext(s, p)'
      <3>1. CASE p = Rel[c.raw]
        BY <2>2, <2>5, <3>1 DEF InContext
      <3>2. CASE p # Rel[c.raw]
        <4>1. ReadNow(s, p) /\ PlainlyNamed(s, p)
          BY <1>e, <2>3, <2>5, <2>8, <3>2 DEF ReadNow, PlainlyNamed
        <4>2. Trusted(s, p)
          BY <1>4, <1>a, <2>8, <3>2 DEF ReadObserve, Observe, Trusted
        <4>3. InContext(s, p)
          BY <4>1, <4>2 DEF Local, Visible
        <4> QED BY <1>c, <2>2, <4>3 DEF InContext
      <3> QED BY <3>1, <3>2
    <2>9. Visible(s)'
      BY <2>8 DEF Visible
    <2> QED BY <1>d, <2>2, <2>4, <2>7, <2>9 DEF Local, Vetted
  <1>5. CASE EditMissing(s, c)
    <2>1. Tell(s, c) /\ reads' = reads
      BY <1>5 DEF EditMissing
    <2>2. /\ CallsDisciplined(s)' /\ CallsAreNamed(s)' /\ calls'[s] = {}
          /\ batch[s] \subseteq batch'[s]
          /\ \A e \in batch'[s] \ batch[s] : e.shows = NoName
      BY <1>5, <1>b, <1>c, <2>1, TellKeepsDiscipline DEF EditMissing
    <2>3. ReadIsDated(s)' /\ BigIsRead(s)' /\ Visible(s)'
      BY <1>5, <1>c, <2>1, <2>2, AbsenceKeepsTrust DEF EditMissing
    <2> QED BY <1>d, <2>2, <2>3 DEF Local, Vetted
  <1>6. CASE ModifyRefused(s, c)
    <2>1. Tell(s, c) /\ UNCHANGED <<ledger, reads>>
      BY <1>6 DEF ModifyRefused
    <2>2. /\ CallsDisciplined(s)' /\ CallsAreNamed(s)' /\ calls'[s] = {}
          /\ Quiet(s)
      BY <1>6, <1>b, <1>c, <1>e, <2>1, TellKeepsDiscipline
      DEF ModifyRefused, Quiet
    <2> QED BY <1>c, <1>d, <2>2, StillKeepsTrust DEF Local, Vetted
  <1>7. CASE ModifyCheck(s, c)
    <2>1. CallsDisciplined(s)' /\ CallsAreNamed(s)'
      BY <1>7, <1>b, <1>c, AdvanceKeepsDiscipline DEF ModifyCheck
    <2>2. PICK n : /\ calls'[s] = {n} /\ n.raw = c.raw /\ n.tool = c.tool
                   /\ n.cur = File(s, c)
      BY <1>7, <1>b, <1>c, AdvanceKeepsDiscipline DEF ModifyCheck
    <2>3. /\ File(s, c) = Vouched(ledger[s], Rel[c.raw])
          /\ ~IsStale(ledger[s], Rel[c.raw])
      BY <1>7, AuthorizeVouches DEF ModifyCheck
    <2>4. c.tool = "edit" => Trusted(s, Rel[c.raw])
      BY <1>7, <2>3 DEF ModifyCheck, Vouched, IsStale, Trusted
    <2>5. ledger' = ledger /\ Quiet(s)
      BY <1>7, <1>c, <1>e DEF ModifyCheck, Quiet
    <2>6. Vetted(s)'
      BY <2>1, <2>2, <2>3, <2>4, <2>5 DEF Vetted, Vouched, IsStale, Trusted
    <2> QED BY <1>c, <1>d, <2>1, <2>5, <2>6, StillKeepsTrust DEF Local
  <1>8. CASE ModifyStore(s, c)
    <2>1. PICK new \in Content : Advance(s, c, "observe", new)
      BY <1>8 DEF ModifyStore
    <2>2. c.tool # "read" /\ c.step = "store"
      BY <1>8, <1>b DEF ModifyStore
    <2>3. ledger' = ledger /\ Quiet(s)
      BY <1>8, <1>c, <1>e DEF ModifyStore, Quiet
    <2>4. CallsDisciplined(s)' /\ CallsAreNamed(s)'
      BY <1>c, <2>1, <2>2, AdvanceKeepsDiscipline
    <2>5. PICK n : /\ calls'[s] = {n} /\ n.raw = c.raw /\ n.tool = c.tool
                   /\ n.step = "observe"
      BY <1>c, <2>1, <2>2, AdvanceKeepsDiscipline
    <2>6. Vetted(s)'
      BY <2>2, <2>3, <2>4, <2>5 DEF Local, Vetted, Vouched, IsStale, Trusted
    <2> QED BY <1>c, <1>d, <2>3, <2>4, <2>6, StillKeepsTrust DEF Local
  <1>9. CASE StoreFails(s, c)
    <2>1. Tell(s, c) /\ UNCHANGED <<ledger, reads>>
      BY <1>9 DEF StoreFails
    <2>2. /\ CallsDisciplined(s)' /\ CallsAreNamed(s)' /\ calls'[s] = {}
          /\ Quiet(s)
      BY <1>9, <1>b, <1>c, <1>e, <2>1, TellKeepsDiscipline
      DEF StoreFails, Quiet
    <2> QED BY <1>c, <1>d, <2>2, StillKeepsTrust DEF Local, Vetted
  <1>10. CASE ModifyObserve(s, c)
    <2> DEFINE m == Message(s, c.id, Rel[c.raw], FALSE)
    <2>1. /\ CallsDisciplined(s)' /\ CallsAreNamed(s)' /\ calls'[s] = {}
          /\ batch[s] \subseteq batch'[s]
          /\ c.tool # "write" =>
               \A e \in batch'[s] \ batch[s] : e.shows = NoName
          /\ c.tool = "write" => batch'[s] = batch[s] \cup {m}
      BY <1>10, <1>c, ReturnKeepsDiscipline, TellKeepsDiscipline
      DEF ModifyObserve
    <2>2. reads' = reads
      BY <1>10 DEF ModifyObserve
    <2>3. ReadIsDated(s)'
      BY <1>10, <1>c, <1>e, <2>2, ObservationKeepsDates DEF ModifyObserve
    <2>4. m.shows = Rel[c.raw] /\ m.turn = turn[s] /\ m.big = FALSE
          /\ turn[s] <= turn[s]
      BY DEF Message, TypeOK, Turn
    <2> HIDE DEF m
    <2>5. BigIsRead(s)'
      <3>1. \A id, k : NamedSince(s, id, k) => NamedSince(s, id, k)'
        BY <1>c, NamesKept
      <3>2. ASSUME NEW e \in context'[s] \cup batch'[s], e.shows # NoName
            PROVE  e \in context[s] \cup batch[s] \/ e = m
        BY <1>c, <2>1, <3>2
      <3> QED BY <1>e, <2>2, <2>4, <3>1, <3>2 DEF Local, BigIsRead
    <2>6. ASSUME NEW p \in Path, ReadNow(s, p)', PlainlyNamed(s, p)',
                 Trusted(s, p)'
          PROVE  InContext(s, p)'
      <3>1. CASE p = Rel[c.raw] /\ c.tool = "write"
        BY <2>1, <2>4, <3>1 DEF InContext
      <3>2. CASE p # Rel[c.raw] \/ c.tool # "write"
        <4>1. ReadNow(s, p) /\ PlainlyNamed(s, p)
          BY <1>e, <2>2, <2>6 DEF ReadNow, PlainlyNamed
        <4>2. p # Rel[c.raw] => Trusted(s, p)
          BY <1>10, <1>a, <2>6 DEF ModifyObserve, Observe, Trusted
        <4>3. p = Rel[c.raw] => Trusted(s, p)
          BY <1>10, <1>a, <3>2 DEF ModifyObserve, Call, Local, Vetted
        <4>4. InContext(s, p)
          BY <4>1, <4>2, <4>3 DEF Local, Visible
        <4> QED BY <1>c, <2>1, <4>4 DEF InContext
      <3> QED BY <3>1, <3>2
    <2>7. Visible(s)'
      BY <2>6 DEF Visible
    <2> QED BY <1>d, <2>1, <2>3, <2>5, <2>7 DEF Local, Vetted
  <1> QED BY <1>1, <1>2, <1>3, <1>4, <1>5, <1>6, <1>7, <1>8, <1>9, <1>10
          DEF ToolStep
-----------------------------------------------------------------------------
(* The theorems.                                                           *)

LEMMA IInvInit == Init => IInv
  <1> SUFFICES ASSUME Init PROVE IInv
    OBVIOUS
  <1>1. TypeOK
    BY WorkspaceAssumption, NewLedgerType, NoPathsType DEF Init, TypeOK, Turn
  <1>2. \A s \in Session : Local(s)
    BY DEF Init, Local, CallsDisciplined, Vetted, ReadIsDated, CallsAreNamed,
           BigIsRead, IdleIsClean, Visible, ReadNow
  <1> QED BY <1>1, <1>2 DEF IInv

LEMMA IInvStep == IInv /\ [Next]_vars => IInv'
  <1> SUFFICES ASSUME IInv, [Next]_vars PROVE IInv'
    OBVIOUS
  <1> USE DEF IInv
  <1>1. ASSUME NEW s \in Session, SessionStep(s) PROVE IInv'
    <2>1. TypeOK'
      BY <1>1, LoopKeepsType, StartKeepsType, ToolKeepsType DEF SessionStep
    <2>2. Local(s)'
      BY <1>1, LoopKeepsLocal, StartKeepsLocal, ToolKeepsLocal DEF SessionStep
    <2>3. \A t \in Session \ {s} : Local(t)'
      BY <1>1, OthersUntouched, LocalFrame
    <2> QED BY <2>1, <2>2, <2>3
  <1>2. ASSUME NEW d \in Dir, NEW p \in Path, Outside(d, p) PROVE IInv'
    <2>1. \A t \in Session : Untouched(t)
      BY <1>2 DEF Outside, Untouched
    <2> QED BY <1>2, <2>1, OutsideKeepsType, LocalFrame
  <1>3. CASE UNCHANGED vars
    <2>1. TypeOK'
      BY <1>3 DEF TypeOK, vars
    <2>2. \A t \in Session : Untouched(t)
      BY <1>3 DEF vars, Untouched
    <2> QED BY <2>1, <2>2, LocalFrame
  <1> QED BY <1>1, <1>2, <1>3 DEF Next

\* The strengthening above holds in every reachable state.
THEOREM Inductive == Spec => []IInv
  BY IInvInit, IInvStep, PTL DEF Spec

\* Compaction never leaves the ledger vouching for a file whose contents it
\* dropped, although it names what it prunes by the last call that has the
\* result's id: as long as the reads of the request gave the file's cleaned path
\* and no other call of the request shared an id with them and named another
\* file, whatever the client's messages hold.
THEOREM VouchedStaysVisible == Spec => []PlainlyVouchedIsVisible
  <1>1. IInv => PlainlyVouchedIsVisible
    BY DEF IInv, Local, Visible, PlainlyVouchedIsVisible
  <1> QED BY <1>1, Inductive, PTL

\* A call that returns is no longer in flight.
LEMMA OneReturns ==
  ASSUME TypeOK, NEW s \in Session, NEW c, NEW results, Return(s, c, results)
  PROVE  calls'[s] = calls[s] \ {c}
  BY DEF TypeOK, Return

\* Once a compaction has withdrawn trust in a file, only looking at the file
\* restores it, whatever else the session and the world outside do.
THEOREM TrustIsEarned == Spec => OnlyALookRestoresTrust
  <1> DEFINE Looked(s, p) ==
        \E c \in calls[s] :
           /\ Rel[c.raw] = p
           /\ c \notin calls'[s]
           /\ \/ c.tool = "read" /\ c.step \in {"observe", "absent"}
              \/ c.step = "check" /\ File(s, c) = Absent
  <1>1. ASSUME IInv, [Next]_vars, NEW s \in Session, NEW p \in Path,
               IsStale(ledger[s], p), ~IsStale(ledger'[s], p)
        PROVE  Looked(s, p)
    <2> USE <1>1
    <2>1. ledger'[s] # ledger[s]
      OBVIOUS
    <2>2. SessionStep(s)
      <3>1. ASSUME NEW t \in Session, t # s, SessionStep(t) PROVE FALSE
        BY <2>1, <3>1, OthersUntouched DEF IInv, Untouched
      <3>2. ASSUME NEW d \in Dir, NEW q \in Path, Outside(d, q) PROVE FALSE
        BY <2>1, <3>2 DEF Outside
      <3>3. ~UNCHANGED vars
        BY <2>1 DEF vars
      <3> QED BY <3>1, <3>2, <3>3 DEF Next
    <2>3. \A t \in Nat : \A cut, m : ~Invalidate(s, t, cut, m)
      BY InvalidateOnlyMarks DEF IInv, IsStale
    <2>4. turn[s] \in Nat /\ turn[s] + 1 \in Nat
      BY DEF IInv, TypeOK, Turn
    <2>5. PICK c \in calls[s] : ToolStep(s, c)
      BY <2>1, <2>2, <2>3, <2>4
      DEF SessionStep, StartRequest, BeginTurn, Compact, NoCompaction, Overflow,
          OverflowFatal, RequestTools, Finish, EndTurn, StartReads, StartModify,
          OtherCall, Bash
    <2>6. \/ ReadAbsent(s, c) \/ ReadObserve(s, c) \/ EditMissing(s, c)
          \/ ModifyObserve(s, c)
      BY <2>1, <2>5
      DEF ToolStep, ReadStat, ReadLoad, ModifyRefused, ModifyCheck, ModifyStore,
          StoreFails
    <2>7. c \notin calls'[s]
      <3>1. \E results : Return(s, c, results)
        BY <2>6 DEF ReadAbsent, ReadObserve, EditMissing, ModifyObserve, Tell
      <3>2. calls'[s] = calls[s] \ {c}
        BY <3>1, OneReturns DEF IInv
      <3> QED BY <3>2
    <2>8. Rel[c.raw] = p
      BY <2>6
      DEF ReadAbsent, ReadObserve, EditMissing, ModifyObserve, ObserveAbsent,
          Observe, IInv, TypeOK, IsStale
    <2>9. ~ModifyObserve(s, c)
      BY <2>8 DEF ModifyObserve, IInv, Local, Vetted
    <2>10. \/ c.tool = "read" /\ c.step \in {"observe", "absent"}
           \/ c.step = "check" /\ File(s, c) = Absent
      BY <2>6, <2>9
      DEF ReadAbsent, ReadObserve, EditMissing, IInv, Local, CallsDisciplined
    <2> QED BY <2>7, <2>8, <2>10
  <1>2. IInv /\ [Next]_vars =>
          [\A s \in Session, p \in Path :
             IsStale(ledger[s], p) /\ ~IsStale(ledger'[s], p) => Looked(s, p)]_vars
    BY <1>1
  <1> QED BY <1>2, Inductive, PTL DEF Spec, OnlyALookRestoresTrust
-----------------------------------------------------------------------------
(* No blind overwrite, of a session that has its directory to itself and   *)
(* whose files nothing else changes between a check and the write.         *)

Exclusive ==
  /\ \A s, t \in Session : DirOf[s] = DirOf[t] => s = t
  /\ ~OutsideAnytime

\* A session's step changes files only in its own directory.
LEMMA OtherDirsUntouched ==
  ASSUME TypeOK, NEW s \in Session, SessionStep(s), NEW d \in Dir, d # DirOf[s]
  PROVE  disk'[d] = disk[d]
  BY DEF SessionStep, StartRequest, BeginTurn, Overflow, OverflowFatal,
         RequestTools, Finish, EndTurn, StartReads, StartModify, OtherCall, Bash, ToolStep,
         ReadStat, ReadAbsent, ReadLoad, ReadObserve, EditMissing,
         ModifyRefused, ModifyCheck, ModifyStore, StoreFails, ModifyObserve, Put,
         TypeOK

\* A call of the stepping session that is about to write was so before, with
\* the files as they were, or has just been checked against them.
LEMMA StoreIsFresh ==
  ASSUME IInv, NEW s \in Session, SessionStep(s), NEW c \in calls'[s],
         c.step = "store"
  PROVE  /\ disk' = disk
         /\ c \in calls[s] \/ File(s, c) = c.cur
  <1> USE DEF IInv
  <1>1. phase[s] # "tools" => calls[s] = {}
    BY DEF Local, CallsDisciplined
  <1>2. CASE \/ StartRequest(s) \/ BeginTurn(s) \/ Overflow(s)
             \/ OverflowFatal(s) \/ RequestTools(s) \/ Finish(s) \/ EndTurn(s)
    BY <1>2 DEF StartRequest, BeginTurn, Overflow, OverflowFatal, RequestTools,
                Finish, EndTurn
  <1>3. ~Bash(s) /\ ~OtherCall(s)
    BY DEF Bash, OtherCall, MayStart
  <1>4. ~StartReads(s)
    <2>1. StartReads(s) => \A e \in calls'[s] : e.step = "stat"
      BY DEF StartReads, NewCall, TypeOK
    <2> QED BY <2>1
  <1>5. ~StartModify(s)
    <2>1. StartModify(s) => \A e \in calls'[s] : e.step = "check"
      BY DEF StartModify, NewCall, TypeOK
    <2> QED BY <2>1
  <1>6. ASSUME NEW e \in calls[s], ToolStep(s, e)
        PROVE  disk' = disk /\ (c \in calls[s] \/ File(s, c) = c.cur)
    <2>1. e.step \in {"check", "store"} => e.tool # "read" /\ calls[s] = {e}
      BY DEF Local, CallsDisciplined
    <2>2. e \in Call
      BY CallTypes
    <2>3. CASE ReadStat(s, e)
      BY <2>3, <2>2 DEF ReadStat, Advance, TypeOK, Call
    <2>4. CASE ReadLoad(s, e)
      <3>1. CASE Tell(s, e)
        BY <2>4, <3>1 DEF ReadLoad, Tell, Return, TypeOK
      <3>2. CASE Advance(s, e, "observe", File(s, e))
        BY <2>2, <2>4, <3>2 DEF ReadLoad, Advance, TypeOK, Call
      <3> QED BY <2>4, <3>1, <3>2 DEF ReadLoad
    <2>5. CASE ModifyCheck(s, e)
      BY <2>5, <2>2 DEF ModifyCheck, Advance, TypeOK, Call, File
    <2>6. CASE ModifyStore(s, e)
      <3>1. PICK new \in Content : Advance(s, e, "observe", new)
        BY <2>6 DEF ModifyStore
      <3>2. [e EXCEPT !.step = "observe", !.cur = new].step = "observe"
        BY <2>2 DEF Call
      <3>3. calls'[s] = {[e EXCEPT !.step = "observe", !.cur = new]}
        BY <2>1, <2>6, <3>1 DEF ModifyStore, Advance, TypeOK
      <3> QED BY <3>2, <3>3
    <2>7. CASE StoreFails(s, e)
      BY <2>1, <2>7 DEF StoreFails, Tell, Return, TypeOK
    <2>8. CASE \/ ReadAbsent(s, e) \/ ReadObserve(s, e) \/ EditMissing(s, e)
               \/ ModifyRefused(s, e) \/ ModifyObserve(s, e)
      <3>1. disk' = disk /\ \E results : Return(s, e, results)
        BY <2>8 DEF ReadAbsent, ReadObserve, EditMissing, ModifyRefused,
                    ModifyObserve, Tell
      <3>2. calls'[s] = calls[s] \ {e}
        BY <3>1, OneReturns
      <3> QED BY <3>1, <3>2
    <2> QED BY <1>6, <2>3, <2>4, <2>5, <2>6, <2>7, <2>8 DEF ToolStep
  <1> QED BY <1>2, <1>3, <1>4, <1>5, <1>6 DEF SessionStep

LEMMA DiskHeldStep ==
  ASSUME Exclusive, IInv, DiskHeld, [Next]_vars
  PROVE  DiskHeld'
  <1>1. ASSUME NEW s \in Session, SessionStep(s) PROVE DiskHeld'
    <2>1. SUFFICES ASSUME NEW t \in Session, NEW c \in calls'[t],
                          c.step = "store"
                   PROVE  File(t, c)' = c.cur
      BY DEF DiskHeld
    <2>2. CASE t = s
      <3>1. disk' = disk /\ (c \in calls[s] \/ File(s, c) = c.cur)
        BY <1>1, <2>1, <2>2, StoreIsFresh
      <3> QED BY <2>1, <2>2, <3>1 DEF DiskHeld, File
    <2>3. CASE t # s
      <3>1. calls'[t] = calls[t]
        BY <1>1, <2>3, OthersUntouched DEF IInv, Untouched
      <3>2. DirOf[t] # DirOf[s] /\ DirOf[t] \in Dir
        BY <2>3, WorkspaceAssumption DEF Exclusive
      <3>3. disk'[DirOf[t]] = disk[DirOf[t]]
        BY <1>1, <3>2, OtherDirsUntouched DEF IInv
      <3> QED BY <2>1, <3>1, <3>3 DEF DiskHeld, File
    <2> QED BY <2>2, <2>3
  <1>2. ASSUME NEW d \in Dir, NEW p \in Path, Outside(d, p) PROVE DiskHeld'
    <2>1. ~InWindow(d, p)
      BY <1>2 DEF Outside, Exclusive
    <2>2. SUFFICES ASSUME NEW t \in Session, NEW c \in calls[t],
                          c.step = "store"
                   PROVE  File(t, c)' = File(t, c)
      BY <1>2 DEF DiskHeld, Outside
    <2>3. DirOf[t] # d \/ Rel[c.raw] # p
      BY <2>1, <2>2 DEF InWindow
    <2>4. /\ DirOf[t] \in Dir /\ disk \in [Dir -> [Path -> FileState]]
          /\ Rel[c.raw] \in Path
      BY CallTypes DEF IInv, TypeOK
    <2> QED BY <1>2, <2>3, <2>4 DEF Outside, File
  <1>3. CASE UNCHANGED vars
    BY <1>3 DEF vars, DiskHeld, File
  <1> QED BY <1>1, <1>2, <1>3 DEF Next

\* A write or an edit only ever replaces bytes the session last observed of
\* that file, and only ever creates a file over nothing.
THEOREM NothingOverwrittenUnseen ==
  ASSUME Exclusive
  PROVE  Spec => NoBlindOverwrite
  <1>1. Init => DiskHeld
    BY DEF Init, DiskHeld
  <1>2. IInv /\ DiskHeld /\ [Next]_vars => DiskHeld'
    BY DiskHeldStep
  <1>3. IInv /\ DiskHeld /\ [Next]_vars =>
          [\A s \in Session : \A c \in calls[s] :
             Stores(s, c) => File(s, c) = Vouched(ledger[s], Rel[c.raw])]_vars
    <2>1. ASSUME IInv, DiskHeld, NEW s \in Session, NEW c \in calls[s],
                 c.step = "store"
          PROVE  File(s, c) = Vouched(ledger[s], Rel[c.raw])
      BY <2>1 DEF IInv, Local, CallsDisciplined, Vetted, DiskHeld
    <2> QED BY <2>1 DEF Stores
  <1> QED BY <1>1, <1>2, <1>3, Inductive, PTL DEF Spec, NoBlindOverwrite
=============================================================================
