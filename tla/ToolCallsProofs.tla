-------------------------- MODULE ToolCallsProofs ---------------------------
(***************************************************************************)
(* Theorems about ToolCalls, for any runs, calls, configurations and bounds*)
(***************************************************************************)
EXTENDS ToolCalls, TLAPS

-----------------------------------------------------------------------------
(* The inductive invariant.                                                *)

ToolCall ==
  [tool : STRING, command : {"empty", "useful", "denied"}, timeout : Nat,
   workdir : {"root", "inside", "missing", "outside", "file"},
   form : {"plain", "spaced", "extra", "trailing", "garbled"}]

CallBag == UNION {[D -> Nat] : D \in SUBSET ToolCall}

AuditEvent == [server : Nat, call : Nat]

Pending == {"invoked", "refused", "running", "ended"}

CurrentCall ==
  [at : {"none", "idle"}]
    \cup [at : Pending, call : Calls, left : Left, event : AuditEvent]
    \cup [at : {"answered"}, call : Calls, event : AuditEvent,
          started : BOOLEAN, code : {"ok", "denied", "error"}]

TypeOK ==
  /\ config \in Configs
  /\ server \in Nat /\ up \in BOOLEAN /\ failed \in BOOLEAN
  /\ file \in Seq([event : AuditEvent, whole : BOOLEAN])
  /\ offered \in [Request -> SUBSET DefaultTools]
  /\ prior \in [Request -> CallBag]
  /\ asked \in Nat
  /\ current \in [Request -> CurrentCall]
  /\ due \in SUBSET AuditEvent /\ reported \in SUBSET Nat

\* Where a line would be lost, by a torn one before it or by the failure of its
\* own write, this server or an earlier one has complained.
TornIsReported ==
  /\ file # <<>> /\ ~file[Len(file)].whole => \E n \in reported : n <= server
  /\ failed => server \in reported

\* What is known of the call of one run: it belongs to the server that is up;
\* what the guards let through is what they would let through still; only
\* commands run; and the run's parts of the two properties.
CallOK(r) ==
  LET p == current[r]
  IN  /\ p.at # "none" => up
      /\ p.at \in Pending => p.event.server = server
      /\ p.at = "invoked" =>
           Check(DefaultGuards, Execution(r, p.call, p.left)) = "none"
      /\ p.at \in {"running", "ended"} => p.call.tool = "bash"
      /\ At(r, "running") =>
           /\ config.shell /\ p.call.tool \in offered[r]
           /\ config.guards =>
                /\ Occurrences(p.call, prior[r]) < RepeatThreshold
                /\ p.call.command = "denied" => p.call.form = "trailing"
                /\ p.call.timeout > p.left => p.call.form = "trailing" \/ p.left = 0
      /\ At(r, "answered") =>
           /\ p.started <=> p.call.tool = "bash" /\ p.code = "ok"
           /\ config.audit /\ (p.started \/ p.code = "denied") => p.event \in due

CallInv ==
  /\ TypeOK /\ TornIsReported /\ GapsAreReported
  /\ \A r \in Request : CallOK(r)
-----------------------------------------------------------------------------
(* The guards.                                                             *)

LEMMA MinIsMember ==
  ASSUME NEW S \in SUBSET (1..3), S # {}
  PROVE  Min(S) \in S
  <1>1. \E x \in S : \A y \in S : x <= y
    <2>1. CASE 1 \in S
      BY <2>1
    <2>2. CASE 1 \notin S /\ 2 \in S
      <3>1. \A y \in S : 2 <= y
        BY <2>2
      <3> QED BY <2>2, <3>1
    <2>3. CASE 1 \notin S /\ 2 \notin S
      <3>1. PICK x \in S : TRUE
        OBVIOUS
      <3>2. \A y \in S : x <= y
        BY <2>3
      <3> QED BY <3>2
    <2> QED BY <2>1, <2>2, <2>3
  <1> QED BY <1>1 DEF Min

LEMMA Chains ==
  /\ DOMAIN <<>> = {}
  /\ DOMAIN <<"repeat-tool">> = {1} /\ <<"repeat-tool">>[1] = "repeat-tool"
  /\ LET chain == <<"repeat-tool", "command-denylist", "timeout-policy">>
     IN  /\ DOMAIN chain = {1, 2, 3} /\ chain[1] = "repeat-tool"
         /\ chain[2] = "command-denylist" /\ chain[3] = "timeout-policy"
  <1>1. 1..1 = {1} /\ 1..3 = {1, 2, 3}
    OBVIOUS
  <1> QED BY <1>1

\* A call that passes the chain is one that no guard in it objects to.
LEMMA PassesAll ==
  ASSUME NEW ex, Check(DefaultGuards, ex) = "none", NEW i \in DOMAIN DefaultGuards
  PROVE  ~Objects(DefaultGuards[i], ex)
  <1> DEFINE chain == DefaultGuards
             objecting == {j \in DOMAIN chain : Objects(chain[j], ex)}
  <1>1. DOMAIN chain \subseteq 1..3 /\ \A j \in DOMAIN chain : chain[j] # "none"
    <2>1. CASE DefaultGuards = <<>>
      BY <2>1, Chains
    <2>2. CASE DefaultGuards = <<"repeat-tool">>
      <3>1. DOMAIN DefaultGuards = {1} /\ DefaultGuards[1] # "none"
        BY <2>2, Chains
      <3> QED BY <3>1
    <2>3. CASE DefaultGuards = <<"repeat-tool", "command-denylist", "timeout-policy">>
      <3>1. /\ DOMAIN DefaultGuards = {1, 2, 3} /\ DefaultGuards[1] # "none"
            /\ DefaultGuards[2] # "none" /\ DefaultGuards[3] # "none"
        BY <2>3, Chains
      <3> QED BY <3>1
    <2> QED BY <2>1, <2>2, <2>3 DEF DefaultGuards
  <1> HIDE DEF chain
  <1>2. objecting # {} => Check(chain, ex) # "none"
    <2> SUFFICES ASSUME objecting # {} PROVE Check(chain, ex) # "none"
      OBVIOUS
    <2>1. Min(objecting) \in objecting
      BY <1>1, MinIsMember
    <2>2. Check(chain, ex) = chain[Min(objecting)]
      BY DEF Check
    <2> QED BY <1>1, <2>1, <2>2
  <1> QED BY <1>2 DEF chain

\* With guards configured, a bash call that passes is none of those refused.
LEMMA PassedCommand ==
  ASSUME CallInv, NEW r \in Request, NEW c \in ToolCall, NEW left \in Nat,
         c.tool = "bash",
         DefaultGuards = <<"repeat-tool", "command-denylist", "timeout-policy">>,
         Check(DefaultGuards, Execution(r, c, left)) = "none"
  PROVE  /\ Occurrences(c, prior[r]) < RepeatThreshold
         /\ GuardReads(c) => c.command # "denied"
         /\ GuardReads(c) /\ left > 0 => c.timeout <= left
  <1> DEFINE ex == Execution(r, c, left)
  <1>2. /\ ~Objects("repeat-tool", ex) /\ ~Objects("command-denylist", ex)
        /\ ~Objects("timeout-policy", ex)
    <2>1. /\ 1 \in DOMAIN DefaultGuards /\ DefaultGuards[1] = "repeat-tool"
          /\ 2 \in DOMAIN DefaultGuards /\ DefaultGuards[2] = "command-denylist"
          /\ 3 \in DOMAIN DefaultGuards /\ DefaultGuards[3] = "timeout-policy"
      BY Chains
    <2> HIDE DEF ex
    <2>2. \A i \in DOMAIN DefaultGuards : ~Objects(DefaultGuards[i], ex)
      BY PassesAll DEF ex
    <2> QED BY <2>1, <2>2
  <1>3. ~Repeated(ex) /\ ~OnDenylist(ex) /\ ~TooLong(ex)
    BY <1>2 DEF Objects
  <1>4. Occurrences(c, prior[r]) \in Nat
    <2>1. PICK D \in SUBSET ToolCall : prior[r] \in [D -> Nat]
      <3>1. prior[r] \in CallBag
        BY DEF CallInv, TypeOK
      <3> QED BY <3>1 DEF CallBag
    <2> QED BY <2>1 DEF Occurrences, BagIn, BagToSet
  <1>5. ex.call = c /\ ex.left = left /\ ex.prior = prior[r]
    BY DEF Execution
  <1>6. RepeatThreshold \in Nat /\ c.timeout \in Nat
    BY CallAssumption DEF ToolCall
  <1> HIDE DEF ex
  <1>7. ~(Occurrences(c, prior[r]) >= RepeatThreshold)
    BY <1>3, <1>5 DEF Repeated
  <1>8. /\ GuardReads(c) => c.command # "denied"
        /\ GuardReads(c) /\ left > 0 => ~(c.timeout > left)
    BY <1>3, <1>5 DEF OnDenylist, TooLong
  <1>9. Occurrences(c, prior[r]) < RepeatThreshold
    BY <1>4, <1>6, <1>7
  <1>10. GuardReads(c) /\ left > 0 => c.timeout <= left
    BY <1>6, <1>8
  <1> QED BY <1>8, <1>9, <1>10
-----------------------------------------------------------------------------
(* The log.                                                                *)

LogOK ==
  /\ failed \in BOOLEAN /\ file \in Seq([event : AuditEvent, whole : BOOLEAN])
  /\ due \in SUBSET AuditEvent /\ reported \in SUBSET Nat
  /\ TornIsReported /\ GapsAreReported

\* What a write may leave of an event keeps the log in order, and the event is
\* due.
LEMMA RecordKeepsLog ==
  ASSUME CallInv, NEW ev \in AuditEvent, ev.server = server, Record(ev),
         server' = server
  PROVE  LogOK' /\ due \subseteq due' /\ (config.audit => ev \in due')
  <1> DEFINE Piece == [event : AuditEvent, whole : BOOLEAN]
             Covered(e) == Legible(e) \/ \E n \in reported : n <= e.server
  <1>1. /\ failed \in BOOLEAN /\ file \in Seq(Piece) /\ server \in Nat
        /\ due \in SUBSET AuditEvent /\ reported \in SUBSET Nat
        /\ file # <<>> /\ ~file[Len(file)].whole => \E n \in reported : n <= server
        /\ failed => server \in reported
        /\ \A e \in due : Covered(e)
    BY DEF CallInv, TypeOK, TornIsReported, GapsAreReported
  <1>2. PICK l \in Nat : l = Len(file) /\ DOMAIN file = 1..l
    BY <1>1
  <1>3. CASE UNCHANGED log /\ ~config.audit
    <2>1. LogOK'
      BY <1>1, <1>3
         DEF log, LogOK, TornIsReported, GapsAreReported, Legible
    <2> QED BY <1>3, <2>1 DEF log
  \* However a piece is appended, what is legible stays so.
  <1>4. ASSUME NEW p \in Piece, file' = Append(file, p), NEW e \in AuditEvent,
               Legible(e)
        PROVE  Legible(e)'
    <2>1. /\ DOMAIN file' = 1..l + 1
          /\ \A i \in 1..l : file'[i] = file[i]
      BY <1>1, <1>2, <1>4
    <2>2. PICK i \in 1..l : /\ file[i].event = e /\ file[i].whole
                            /\ i = 1 \/ file[i - 1].whole
      BY <1>2, <1>4 DEF Legible
    <2>3. i \in 1..l + 1 /\ file'[i] = file[i]
      BY <2>1
    <2>4. i = 1 \/ (i - 1 \in 1..l /\ file'[i - 1] = file[i - 1])
      BY <2>1
    <2> QED BY <2>1, <2>2, <2>3, <2>4 DEF Legible
  <1>5. CASE /\ file' = Append(file, [event |-> ev, whole |-> TRUE])
             /\ UNCHANGED <<failed, reported>> /\ due' = due \cup {ev}
    <2>1. [event |-> ev, whole |-> TRUE] \in Piece
      OBVIOUS
    <2>2. /\ file' \in Seq(Piece) /\ Len(file') = l + 1 /\ DOMAIN file' = 1..l + 1
          /\ file'[l + 1] = [event |-> ev, whole |-> TRUE]
          /\ \A i \in 1..l : file'[i] = file[i]
      BY <1>1, <1>2, <1>5, <2>1
    <2>3. Covered(ev)'
      <3>1. CASE l = 0 \/ file[l].whole
        <4>1. l + 1 = 1 \/ file'[(l + 1) - 1].whole
          BY <2>2, <3>1
        <4> QED BY <2>2, <4>1 DEF Legible
      <3>2. CASE l # 0 /\ ~file[l].whole
        BY <1>1, <1>2, <1>5, <3>2
      <3> QED BY <3>1, <3>2
    <2>4. \A e \in due : Covered(e)'
      BY <1>1, <1>4, <1>5, <2>1
    <2>5. TornIsReported'
      BY <1>1, <1>5, <2>2 DEF TornIsReported
    <2>6. GapsAreReported'
      BY <1>5, <2>3, <2>4 DEF GapsAreReported
    <2> QED BY <1>1, <1>5, <2>2, <2>5, <2>6 DEF LogOK
  <1>6. CASE /\ \/ file' = Append(file, [event |-> ev, whole |-> FALSE])
                \/ UNCHANGED file
             /\ failed' = TRUE
             /\ reported' = IF failed THEN reported ELSE reported \cup {server}
             /\ due' = due \cup {ev}
    <2>1. [event |-> ev, whole |-> FALSE] \in Piece
      OBVIOUS
    <2>2. /\ server \in reported' /\ reported \subseteq reported'
          /\ reported' \in SUBSET Nat
      BY <1>1, <1>6
    <2>3. file' \in Seq(Piece)
      <3>1. CASE UNCHANGED file
        BY <1>1, <3>1
      <3>2. CASE file' = Append(file, [event |-> ev, whole |-> FALSE])
        BY <1>1, <2>1, <3>2
      <3> QED BY <1>6, <3>1, <3>2
    <2>4. TornIsReported'
      <3>1. \E n \in reported' : n <= server'
        BY <1>1, <2>2
      <3> QED BY <2>2, <3>1 DEF TornIsReported
    <2>5. \A e \in due : Covered(e)'
      <3> SUFFICES ASSUME NEW e \in due PROVE Covered(e)'
        OBVIOUS
      <3>1. Legible(e) => Legible(e)'
        BY <1>1, <1>4, <1>6, <2>1 DEF Legible
      <3> QED BY <1>1, <2>2, <3>1
    <2>6. Covered(ev)'
      BY <1>1, <2>2
    <2>7. GapsAreReported'
      BY <1>6, <2>5, <2>6 DEF GapsAreReported
    <2> QED BY <1>1, <1>6, <2>2, <2>3, <2>4, <2>7 DEF LogOK
  <1> QED BY <1>3, <1>5, <1>6 DEF Record

LEMMA LogUntouched ==
  ASSUME CallInv, UNCHANGED log, server' = server
  PROVE  LogOK' /\ due' = due
  <1>1. UNCHANGED <<failed, file, due, reported>>
    BY DEF log
  <1> QED BY <1>1 DEF CallInv, TypeOK, LogOK, TornIsReported, GapsAreReported, Legible
-----------------------------------------------------------------------------
(* One call.                                                               *)

LEMMA PendingIs ==
  ASSUME TypeOK, NEW r \in Request, current[r].at \in Pending
  PROVE  current[r] \in
           [at : Pending, call : Calls, left : Left, event : AuditEvent]
  <1>1. current[r] \in CurrentCall
    BY DEF TypeOK
  <1> QED BY <1>1 DEF CurrentCall, Pending

LEMMA AnswerIs ==
  ASSUME TypeOK, NEW r \in Request, current[r].at \in Pending,
         NEW code \in {"ok", "denied", "error"}, Answer(r, code)
  PROVE  /\ current' \in [Request -> CurrentCall]
         /\ \A q \in Request \ {r} : current'[q] = current[q]
         /\ current'[r].at = "answered" /\ current'[r].call = current[r].call
         /\ current'[r].event = current[r].event /\ current'[r].code = code
         /\ current'[r].started <=> current[r].at \in {"running", "ended"}
  <1> DEFINE p == current[r]
             a == [at |-> "answered", call |-> p.call, event |-> p.event,
                   started |-> p.at \in {"running", "ended"}, code |-> code]
  <1>1. p.call \in Calls /\ p.event \in AuditEvent
    BY PendingIs
  <1>2. current' = [current EXCEPT ![r] = a]
    BY DEF Answer
  <1>3. a \in [at : {"answered"}, call : Calls, event : AuditEvent,
               started : BOOLEAN, code : {"ok", "denied", "error"}]
    BY <1>1
  <1>4. a \in CurrentCall
    BY <1>3 DEF CurrentCall
  <1>5. current' \in [Request -> CurrentCall] /\ current'[r] = a
    BY <1>2, <1>4 DEF TypeOK
  <1>6. \A q \in Request \ {r} : current'[q] = current[q]
    BY <1>2 DEF TypeOK
  <1>7. a.started <=> p.at \in {"running", "ended"}
    BY Zenon
  <1>8. a.at = "answered" /\ a.call = p.call /\ a.event = p.event /\ a.code = code
    OBVIOUS
  <1> HIDE DEF a
  <1>9. current'[r].started <=> p.at \in {"running", "ended"}
    BY <1>5, <1>7, Zenon
  <1> QED BY <1>5, <1>6, <1>8, <1>9

LEMMA GoesIs ==
  ASSUME TypeOK, NEW r \in Request, current[r].at \in Pending,
         NEW place \in Pending, Goes(r, place)
  PROVE  /\ current' \in [Request -> CurrentCall]
         /\ \A q \in Request \ {r} : current'[q] = current[q]
         /\ current'[r].at = place /\ current'[r].call = current[r].call
         /\ current'[r].left = current[r].left
         /\ current'[r].event = current[r].event
  <1> DEFINE a == [current[r] EXCEPT !.at = place]
  <1>1. current[r] \in [at : Pending, call : Calls, left : Left, event : AuditEvent]
    BY PendingIs
  <1>2. current' = [current EXCEPT ![r] = a]
    BY DEF Goes
  <1>3. /\ a \in [at : Pending, call : Calls, left : Left, event : AuditEvent]
        /\ a.at = place /\ a.call = current[r].call /\ a.left = current[r].left
        /\ a.event = current[r].event
    BY <1>1
  <1>4. a \in CurrentCall
    BY <1>3 DEF CurrentCall
  <1>5. current' \in [Request -> CurrentCall] /\ current'[r] = a
    BY <1>2, <1>4 DEF TypeOK
  <1>6. \A q \in Request \ {r} : current'[q] = current[q]
    BY <1>2 DEF TypeOK
  <1> QED BY <1>3, <1>5, <1>6

\* A step of another run, or one that adds to what is due, changes nothing for
\* this one.
LEMMA OthersKept ==
  ASSUME NEW q, CallOK(q), UNCHANGED <<config, server, up>>,
         current'[q] = current[q], offered'[q] = offered[q], prior'[q] = prior[q],
         due \subseteq due'
  PROVE  CallOK(q)'
  <1> DEFINE p == current[q]
             passes == Check(DefaultGuards, Execution(q, p.call, p.left)) = "none"
             running == At(q, "running")
             answered == At(q, "answered")
             few == Occurrences(p.call, prior[q]) < RepeatThreshold
             offers == p.call.tool \in offered[q]
  <1>1. /\ passes' <=> passes
        /\ running' <=> running
        /\ answered' <=> answered
        /\ few' <=> few
        /\ offers' <=> offers
        /\ p' = p
    BY DEF Check, DefaultGuards, Execution, At, Occurrences
  <1>2. (p.event \in due) => (p.event \in due)'
    BY <1>1
  <1> HIDE DEF p, passes, running, answered, few, offers
  <1> QED BY <1>1, <1>2, Zenon
          DEF CallOK, p, passes, running, answered, few, offers
-----------------------------------------------------------------------------
(* Steps.                                                                  *)

LEMMA CallInit == Init => CallInv
  <1> SUFFICES ASSUME Init PROVE CallInv
    OBVIOUS
  <1>1. [at |-> "none"] \in CurrentCall
    BY DEF CurrentCall
  <1>2. EmptyBag \in CallBag
    <2>1. EmptyBag \in [{} -> Nat]
      BY DEF EmptyBag, SetToBag
    <2> QED BY <2>1 DEF CallBag
  <1>3. TypeOK
    <2>1. prior \in [Request -> CallBag]
      BY <1>2, Zenon DEF Init
    <2>2. current \in [Request -> CurrentCall] /\ offered \in [Request -> SUBSET DefaultTools]
      BY <1>1 DEF Init, NoCall
    <2>3. file \in Seq([event : AuditEvent, whole : BOOLEAN])
      BY DEF Init
    <2> QED BY <2>1, <2>2, <2>3 DEF Init, TypeOK
  <1>4. TornIsReported /\ GapsAreReported
    BY DEF Init, TornIsReported, GapsAreReported
  <1>5. ASSUME NEW r \in Request PROVE CallOK(r)
    <2>1. current[r].at = "none"
      BY DEF Init, NoCall
    <2> QED BY <2>1 DEF CallOK, At, Pending
  <1> QED BY <1>3, <1>4, <1>5 DEF CallInv

\* One run's step: it leaves the other runs and the server alone, the log as it
\* is or longer by an event, and its own call in order.
LEMMA RunStep ==
  ASSUME CallInv, NEW r \in Request,
         UNCHANGED <<config, server, up>>, asked' \in Nat,
         LogOK', due \subseteq due',
         offered' \in [Request -> SUBSET DefaultTools],
         prior' \in [Request -> CallBag],
         current' \in [Request -> CurrentCall],
         \A q \in Request \ {r} : /\ current'[q] = current[q]
                                  /\ offered'[q] = offered[q]
                                  /\ prior'[q] = prior[q],
         CallOK(r)'
  PROVE  CallInv'
  <1>1. DefaultTools' = DefaultTools
    BY DEF DefaultTools
  <1>2. TypeOK'
    BY <1>1 DEF CallInv, TypeOK, LogOK
  <1>3. ASSUME NEW q \in Request PROVE CallOK(q)'
    <2>1. CASE q = r
      BY <2>1
    <2>2. CASE q # r
      <3>1. CallOK(q)
        BY DEF CallInv
      <3> QED BY <2>2, <3>1, OthersKept
    <2> QED BY <2>1, <2>2
  <1> QED BY <1>2, <1>3 DEF CallInv, LogOK

\* The log is left alone.
LEMMA QuietStep ==
  ASSUME CallInv, NEW r \in Request,
         UNCHANGED <<config, server, up, offered, prior, asked, log>>,
         current' \in [Request -> CurrentCall],
         \A q \in Request \ {r} : current'[q] = current[q],
         CallOK(r)'
  PROVE  CallInv'
  <1>1. LogOK' /\ due \subseteq due'
    BY LogUntouched
  <1>2. /\ offered' \in [Request -> SUBSET DefaultTools]
        /\ prior' \in [Request -> CallBag] /\ asked' \in Nat
    BY DEF CallInv, TypeOK
  <1> QED BY <1>1, <1>2, RunStep

\* A call that has not run, answered with an error, or as another tool.
LEMMA AnsweredUnrun ==
  ASSUME CallInv, NEW r \in Request, At(r, "invoked"),
         NEW code \in {"ok", "error"}, Answer(r, code),
         code = "ok" => current[r].call.tool # "bash",
         UNCHANGED <<config, server, up, offered, prior, asked, log>>
  PROVE  CallInv'
  <1>1. TypeOK /\ current[r].at \in Pending /\ current[r].at = "invoked"
    BY DEF CallInv, At, Pending
  <1>2. /\ current' \in [Request -> CurrentCall]
        /\ \A q \in Request \ {r} : current'[q] = current[q]
        /\ current'[r].at = "answered" /\ current'[r].call = current[r].call
        /\ current'[r].code = code
        /\ current'[r].started <=> current[r].at \in {"running", "ended"}
    BY <1>1, AnswerIs
  <1>3. ~current'[r].started
    BY <1>1, <1>2
  <1>4. CallOK(r)'
    BY <1>2, <1>3 DEF CallOK, At, Pending
  <1> QED BY <1>2, <1>4, QuietStep

LEMMA StartRunStep ==
  ASSUME CallInv, NEW r \in Request, StartRun(r)
  PROVE  CallInv'
  <1> USE DEF CallInv
  <1>1. PICK list \in Allowlists :
          /\ list \subseteq DefaultTools
          /\ offered' = [offered EXCEPT ![r] = IF list = {} THEN DefaultTools ELSE list]
    BY DEF StartRun
  <1>2. /\ offered' \in [Request -> SUBSET DefaultTools]
        /\ \A q \in Request \ {r} : offered'[q] = offered[q]
    BY <1>1 DEF TypeOK
  <1>3. EmptyBag \in CallBag
    <2>1. EmptyBag \in [{} -> Nat]
      BY DEF EmptyBag, SetToBag
    <2> QED BY <2>1 DEF CallBag
  <1>4. /\ prior' \in [Request -> CallBag]
        /\ \A q \in Request \ {r} : prior'[q] = prior[q]
    BY <1>3, Zenon DEF StartRun, TypeOK
  <1>5. /\ current' \in [Request -> CurrentCall]
        /\ \A q \in Request \ {r} : current'[q] = current[q]
        /\ current'[r].at = "idle"
    <2>1. [at |-> "idle"] \in CurrentCall
      BY DEF CurrentCall
    <2> QED BY <2>1 DEF StartRun, TypeOK
  <1>6. CallOK(r)'
    <2>1. up'
      BY DEF StartRun, At
    <2> QED BY <1>5, <2>1 DEF CallOK, At, Pending
  <1>7. UNCHANGED <<config, server, up, asked, log>>
    BY DEF StartRun
  <1>8. LogOK' /\ due \subseteq due'
    BY <1>7, LogUntouched
  <1> QED BY <1>2, <1>4, <1>5, <1>6, <1>7, <1>8, RunStep DEF TypeOK

LEMMA AskStep ==
  ASSUME CallInv, NEW r \in Request, Ask(r)
  PROVE  CallInv'
  <1>1. TypeOK /\ server \in Nat /\ asked \in Nat
    BY DEF CallInv, TypeOK
  <1>2. PICK c \in Calls : \E left \in Left :
          LET by == Check(DefaultGuards, Execution(r, c, left))
          IN  current' = [current EXCEPT ![r] =
                [at |-> IF by = "none" THEN "invoked" ELSE "refused",
                 call |-> c, left |-> left, event |-> Event(asked + 1)]]
    BY DEF Ask
  <1>3. PICK left \in Left :
          LET by == Check(DefaultGuards, Execution(r, c, left))
          IN  current' = [current EXCEPT ![r] =
                [at |-> IF by = "none" THEN "invoked" ELSE "refused",
                 call |-> c, left |-> left, event |-> Event(asked + 1)]]
    BY <1>2
  <1> DEFINE passes == Check(DefaultGuards, Execution(r, c, left)) = "none"
             a == [at |-> IF passes THEN "invoked" ELSE "refused",
                   call |-> c, left |-> left, event |-> Event(asked + 1)]
  <1>4. Event(asked + 1) \in AuditEvent /\ Event(asked + 1).server = server
    BY <1>1 DEF Event, AuditEvent
  <1>5. passes' <=> passes
    BY DEF Ask, Check, DefaultGuards, Execution
  <1>6. current' = [current EXCEPT ![r] = a]
    BY <1>3
  <1> HIDE DEF passes
  <1>7. /\ a \in [at : Pending, call : Calls, left : Left, event : AuditEvent]
        /\ a.at \in {"invoked", "refused"} /\ a.event.server = server
        /\ a.call = c /\ a.left = left
    BY <1>4 DEF Pending
  <1>8. a.at = "invoked" => passes
    OBVIOUS
  <1> HIDE DEF a
  <1>9. a \in CurrentCall
    BY <1>7 DEF CurrentCall
  <1>10. /\ current' \in [Request -> CurrentCall]
         /\ \A q \in Request \ {r} : current'[q] = current[q]
         /\ current'[r] = a
    BY <1>1, <1>6, <1>9 DEF TypeOK
  <1>11. /\ UNCHANGED <<config, server, up, offered, prior, log>>
         /\ asked' \in Nat /\ up
    BY <1>1 DEF Ask, At
  <1>12. Check(DefaultGuards, Execution(r, c, left))' = "none" <=> passes'
    BY DEF passes
  <1>13. a.at = "invoked" =>
           (Check(DefaultGuards, Execution(r, current[r].call, current[r].left)) = "none")'
    BY <1>5, <1>7, <1>8, <1>10 DEF passes
  <1>14. CallOK(r)'
    <2>1. current'[r].at \in {"invoked", "refused"}
      BY <1>7, <1>10
    <2>2. current'[r].at = "invoked" =>
           (Check(DefaultGuards, Execution(r, current[r].call, current[r].left)) = "none")'
      BY <1>10, <1>13
    <2>3. up' /\ current'[r].event.server = server'
      BY <1>7, <1>10, <1>11
    <2> QED BY <2>1, <2>2, <2>3 DEF CallOK, At
  <1>15. LogOK' /\ due \subseteq due'
    BY <1>11, LogUntouched
  <1> QED BY <1>1, <1>10, <1>11, <1>14, <1>15, RunStep DEF TypeOK

\* The answer to a call on record: a refusal, or a command that ended.
LEMMA RecordStep ==
  ASSUME CallInv, NEW r \in Request, up, Record(current[r].event),
         NEW code \in {"ok", "denied"}, Answer(r, code),
         current[r].at = IF code = "ok" THEN "ended" ELSE "refused",
         UNCHANGED <<config, server, up, offered, prior, asked>>
  PROVE  CallInv'
  <1>1. TypeOK /\ CallOK(r) /\ current[r].at \in Pending
    BY DEF CallInv, Pending
  <1>2. /\ current' \in [Request -> CurrentCall]
        /\ \A q \in Request \ {r} : current'[q] = current[q]
        /\ current'[r].at = "answered" /\ current'[r].call = current[r].call
        /\ current'[r].event = current[r].event /\ current'[r].code = code
        /\ current'[r].started <=> current[r].at \in {"running", "ended"}
    BY <1>1, AnswerIs
  <1>3. current[r].event \in AuditEvent /\ current[r].event.server = server
    BY <1>1, PendingIs DEF CallOK
  <1>4. LogOK' /\ due \subseteq due' /\ (config.audit => current[r].event \in due')
    BY <1>3, RecordKeepsLog
  <1>5. current'[r].started <=> code = "ok"
    BY <1>2
  <1>6. code = "ok" => current[r].call.tool = "bash"
    BY <1>1 DEF CallOK
  <1>7. /\ config.audit' => current'[r].event \in due'
        /\ current'[r].started <=> current'[r].call.tool = "bash" /\ current'[r].code = "ok"
    BY <1>2, <1>4, <1>5, <1>6
  <1>8. CallOK(r)'
    BY <1>2, <1>7 DEF CallOK, At, Pending
  <1>9. /\ offered' \in [Request -> SUBSET DefaultTools]
        /\ prior' \in [Request -> CallBag] /\ asked' \in Nat
    BY <1>1 DEF TypeOK
  <1> QED BY <1>2, <1>4, <1>8, <1>9, RunStep

LEMMA RunCommandStep ==
  ASSUME CallInv, NEW r \in Request, Run(r)
  PROVE  CallInv'
  <1> DEFINE c == current[r].call
             left == current[r].left
  <1>1. /\ TypeOK /\ CallOK(r) /\ up
        /\ current[r].at = "invoked" /\ current[r].at \in Pending
        /\ c.tool \in offered[r] /\ c.tool = "bash" /\ Valid(c)
        /\ UNCHANGED <<config, server, up, offered, prior, asked, log>>
    BY DEF CallInv, Run, Tool, At, Pending
  <1>2. c \in ToolCall /\ left \in Nat
    BY <1>1, PendingIs, CallAssumption DEF ToolCall
  <1>3. /\ current' \in [Request -> CurrentCall]
        /\ \A q \in Request \ {r} : current'[q] = current[q]
        /\ current'[r].at = "running" /\ current'[r].call = c
        /\ current'[r].left = left /\ current'[r].event = current[r].event
    BY <1>1, GoesIs DEF Run, Pending
  <1>4. Check(DefaultGuards, Execution(r, c, left)) = "none"
    BY <1>1 DEF CallOK
  <1>5. config.shell
    <2>1. "bash" \in DefaultTools
      BY <1>1 DEF TypeOK
    <2> QED BY <2>1 DEF DefaultTools
  <1>6. config.guards =>
          DefaultGuards = <<"repeat-tool", "command-denylist", "timeout-policy">>
    BY <1>5 DEF DefaultGuards
  <1> HIDE DEF c, left
  <1>7. ToolReads(c) /\ (GuardReads(c) \/ c.form = "trailing")
    BY <1>1 DEF Valid, ToolReads, GuardReads
  <1>8. ASSUME config.guards
        PROVE  /\ Occurrences(c, prior[r]) < RepeatThreshold
               /\ c.command = "denied" => c.form = "trailing"
               /\ c.timeout > left => c.form = "trailing" \/ left = 0
    <2>1. /\ Occurrences(c, prior[r]) < RepeatThreshold
          /\ GuardReads(c) => c.command # "denied"
          /\ GuardReads(c) /\ left > 0 => c.timeout <= left
      BY <1>1, <1>2, <1>4, <1>6, <1>8, PassedCommand
    <2>2. c.timeout > left => c.form = "trailing" \/ left = 0
      <3>1. c.timeout \in Nat
        BY <1>2 DEF ToolCall
      <3> QED BY <1>2, <1>7, <2>1, <3>1
    <2> QED BY <1>7, <2>1, <2>2
  <1>9. Occurrences(c, prior[r])' = Occurrences(c, prior[r])
    BY <1>1, <1>3 DEF c
  <1>10. CallOK(r)'
    BY <1>1, <1>3, <1>5, <1>8 DEF CallOK, At, Pending
  <1> QED BY <1>1, <1>3, <1>10, QuietStep

LEMMA EndedStep ==
  ASSUME CallInv, NEW r \in Request, Ended(r)
  PROVE  CallInv'
  <1>1. /\ TypeOK /\ CallOK(r) /\ up
        /\ current[r].at = "running" /\ current[r].at \in Pending
        /\ UNCHANGED <<config, server, up, offered, prior, asked, log>>
    BY DEF CallInv, Ended, At, Pending
  <1>2. /\ current' \in [Request -> CurrentCall]
        /\ \A q \in Request \ {r} : current'[q] = current[q]
        /\ current'[r].at = "ended" /\ current'[r].call = current[r].call
        /\ current'[r].event = current[r].event
    BY <1>1, GoesIs DEF Ended, Pending
  <1>3. CallOK(r)'
    BY <1>1, <1>2 DEF CallOK, At, Pending
  <1> QED BY <1>1, <1>2, <1>3, QuietStep

\* What is counted is a call in its plain spelling.
LEMMA ReturnStep ==
  ASSUME CallInv, NEW r \in Request, Return(r)
  PROVE  CallInv'
  <1>1. /\ TypeOK /\ current[r].at = "answered"
        /\ UNCHANGED <<config, server, up, offered, asked, log>>
    BY DEF CallInv, Return, At
  <1>2. current[r].call \in ToolCall
    <2>1. current[r] \in CurrentCall
      BY <1>1 DEF TypeOK
    <2>2. current[r].call \in Calls
      BY <1>1, <2>1 DEF CurrentCall, Pending
    <2> QED BY <2>2, CallAssumption DEF ToolCall
  <1> DEFINE k == Canonical(current[r].call)
  <1>3. k \in ToolCall
    BY <1>2 DEF Canonical, ToolCall
  <1> HIDE DEF k
  <1>4. \A B \in CallBag : BagAdd(B, k) \in CallBag
    <2> SUFFICES ASSUME NEW B \in CallBag PROVE BagAdd(B, k) \in CallBag
      OBVIOUS
    <2>1. PICK D \in SUBSET ToolCall : B \in [D -> Nat]
      BY DEF CallBag
    <2>2. BagAdd(B, k) \in [D \cup {k} -> Nat]
      <3>1. CASE k \in D
        <4>1. BagAdd(B, k) = [e \in D |-> IF e = k THEN B[e] + 1 ELSE B[e]]
          BY <2>1, <3>1 DEF BagAdd
        <4>2. D \cup {k} = D
          BY <3>1
        <4> QED BY <2>1, <4>1, <4>2
      <3>2. CASE k \notin D
        <4>1. BagAdd(B, k) = [e \in D \cup {k} |-> IF e = k THEN 1 ELSE B[e]]
          BY <2>1, <3>2 DEF BagAdd
        <4> QED BY <2>1, <4>1
      <3> QED BY <3>1, <3>2
    <2>3. D \cup {k} \in SUBSET ToolCall
      BY <1>3
    <2> QED BY <2>2, <2>3 DEF CallBag
  <1>5. /\ prior' \in [Request -> CallBag]
        /\ \A q \in Request \ {r} : prior'[q] = prior[q]
    <2>1. prior' = [prior EXCEPT ![r] = BagAdd(prior[r], k)]
      BY DEF Return, k
    <2>2. BagAdd(prior[r], k) \in CallBag
      BY <1>1, <1>4 DEF TypeOK
    <2> QED BY <1>1, <2>1, <2>2 DEF TypeOK
  <1>6. /\ current' \in [Request -> CurrentCall]
        /\ \A q \in Request \ {r} : current'[q] = current[q]
        /\ current'[r].at = "idle"
    <2>1. [at |-> "idle"] \in CurrentCall
      BY DEF CurrentCall
    <2> QED BY <1>1, <2>1 DEF Return, TypeOK
  <1>7. CallOK(r)'
    <2>1. up'
      BY DEF Return, At
    <2> QED BY <1>6, <2>1 DEF CallOK, At, Pending
  <1>8. LogOK' /\ due \subseteq due'
    BY <1>1, LogUntouched
  <1>9. offered' \in [Request -> SUBSET DefaultTools] /\ asked' \in Nat
    BY <1>1 DEF TypeOK
  <1> QED BY <1>1, <1>5, <1>6, <1>7, <1>8, <1>9, RunStep

\* A server that starts finds the log as the one before it left it.
LEMMA RestartStep ==
  ASSUME CallInv, Stop \/ Start
  PROVE  CallInv'
  <1>1. /\ TypeOK /\ server \in Nat /\ reported \in SUBSET Nat
        /\ TornIsReported /\ GapsAreReported
    BY DEF CallInv, TypeOK
  <1>2. UNCHANGED <<config, asked, file, due, reported>>
    BY DEF Stop, Start, log, Opened
  <1>3. DefaultTools' = DefaultTools
    BY <1>2 DEF DefaultTools
  <1>4. GapsAreReported'
    BY <1>1, <1>2 DEF GapsAreReported, Legible
  <1>5. CASE Stop
    <2>1. [at |-> "none"] \in CurrentCall
      BY DEF CurrentCall
    <2>2. EmptyBag \in CallBag
      <3>1. EmptyBag \in [{} -> Nat]
        BY DEF EmptyBag, SetToBag
      <3> QED BY <3>1 DEF CallBag
    <2>3. prior' \in [Request -> CallBag]
      BY <1>5, <2>2, Zenon DEF Stop
    <2>4. /\ current' \in [Request -> CurrentCall]
          /\ offered' \in [Request -> SUBSET DefaultTools]
          /\ \A r \in Request : current'[r].at = "none"
      BY <1>5, <2>1 DEF Stop, NoCall
    <2>5. TypeOK'
      BY <1>1, <1>2, <1>3, <1>5, <2>3, <2>4 DEF Stop, TypeOK, log
    <2>6. TornIsReported'
      BY <1>1, <1>5 DEF Stop, TornIsReported, log
    <2>7. \A r \in Request : CallOK(r)'
      BY <2>4 DEF CallOK, At, Pending
    <2> QED BY <1>4, <2>5, <2>6, <2>7 DEF CallInv
  <1>6. CASE Start
    <2>1. server' = server + 1 /\ failed' = FALSE /\ ~up /\ up' = TRUE
          /\ UNCHANGED <<offered, prior, current>>
      BY <1>6 DEF Start
    <2>2. TypeOK'
      <3>1. server' \in Nat
        BY <1>1, <2>1
      <3>2. up' \in BOOLEAN /\ failed' \in BOOLEAN
        BY <2>1, Zenon
      <3> QED BY <1>1, <1>2, <1>3, <2>1, <3>1, <3>2 DEF TypeOK
    <2>3. TornIsReported'
      <3>1. ASSUME file # <<>>, ~file[Len(file)].whole
            PROVE  \E n \in reported : n <= server + 1
        <4>1. PICK n \in reported : n <= server
          BY <1>1, <3>1 DEF TornIsReported
        <4>2. n <= server + 1
          BY <1>1, <4>1
        <4> QED BY <4>2
      <3> QED BY <1>2, <2>1, <3>1 DEF TornIsReported
    <2>4. ASSUME NEW r \in Request PROVE CallOK(r)'
      <3>1. CallOK(r) /\ current[r] \in CurrentCall
        BY <1>1 DEF CallInv, TypeOK
      <3>2. current'[r].at = "none"
        BY <2>1, <3>1 DEF CallOK
      <3> QED BY <3>2 DEF CallOK, At, Pending
    <2> QED BY <1>4, <2>2, <2>3, <2>4 DEF CallInv
  <1> QED BY <1>5, <1>6

LEMMA CallStep == CallInv /\ [Next]_vars => CallInv'
  <1> SUFFICES ASSUME CallInv, [Next]_vars PROVE CallInv'
    OBVIOUS
  <1>1. ASSUME NEW r \in Request, Step(r) PROVE CallInv'
    <2>1. CASE StartRun(r)
      BY <2>1, StartRunStep
    <2>2. CASE Ask(r)
      BY <2>2, AskStep
    <2>3. CASE Refuse(r)
      BY <2>3, RecordStep DEF Refuse, Denied, At
    <2>4. CASE Unknown(r)
      BY <2>4, AnsweredUnrun DEF Unknown, Fails
    <2>5. CASE Other(r)
      <3>1. PICK code \in {"ok", "error"} : Answer(r, code)
        BY <2>5 DEF Other, Fails
      <3> QED BY <2>5, <3>1, AnsweredUnrun DEF Other, Tool
    <2>6. CASE NotRun(r)
      BY <2>6, AnsweredUnrun DEF NotRun, Tool, Fails
    <2>7. CASE Run(r)
      BY <2>7, RunCommandStep
    <2>8. CASE Ended(r)
      BY <2>8, EndedStep
    <2>9. CASE RecordCommand(r)
      BY <2>9, RecordStep DEF RecordCommand, At
    <2>10. CASE Return(r)
      BY <2>10, ReturnStep
    <2> QED BY <1>1, <2>1, <2>2, <2>3, <2>4, <2>5, <2>6, <2>7, <2>8, <2>9,
               <2>10 DEF Step
  <1>2. CASE Stop \/ Start
    BY <1>2, RestartStep
  <1>3. CASE UNCHANGED vars
    <2>1. /\ TypeOK /\ \A r \in Request : CallOK(r)
          /\ UNCHANGED <<config, server, up, offered, prior, asked, current, log>>
      BY <1>3 DEF CallInv, vars
    <2>2. LogOK' /\ due' = due
      BY <2>1, LogUntouched
    <2>3. TypeOK'
      BY <2>1, <2>2 DEF TypeOK, LogOK, DefaultTools
    <2>4. \A r \in Request : CallOK(r)'
      BY <2>1, <2>2, OthersKept
    <2> QED BY <2>2, <2>3, <2>4 DEF CallInv, LogOK
  <1> QED BY <1>1, <1>2, <1>3 DEF Next
-----------------------------------------------------------------------------
(* The theorems.                                                           *)

\* The types and the conditions above hold in every state.
THEOREM CallInvariant == Spec => []CallInv
  BY CallInit, CallStep, PTL DEF Spec

\* Over all runs and all restarts, no refusal and no command that ended is lost
\* from the audit log unless this server or an earlier one complained of it
\* (audit.go, Logger.Write; agent/loop.go, invoke).
THEOREM GapsReported == Spec => []GapsAreReported
  <1>1. CallInv => GapsAreReported
    BY DEF CallInv
  <1> QED BY <1>1, CallInvariant, PTL

\* No command runs that the configuration, the request or a guard that can read
\* the call forbids, and a bash call's answer says whether one ran to its end
\* (guard/command.go, guard/timeout.go, tools/bash.go).
THEOREM RunsAreAnswered == Spec => []RunsAsAnswered
  <1>1. CallInv => RunsAsAnswered
    <2> SUFFICES ASSUME CallInv PROVE RunsAsAnswered
      OBVIOUS
    <2>1. OnlyGuardedRuns
      BY DEF CallInv, CallOK, OnlyGuardedRuns
    <2>2. AnswerTellsWhatRan
      BY DEF CallInv, CallOK, AnswerTellsWhatRan
    <2> QED BY <2>1, <2>2 DEF RunsAsAnswered
  <1> QED BY <1>1, CallInvariant, PTL
=============================================================================
