------------------------------ MODULE Upstream ------------------------------
(***************************************************************************)
(* The client of the provider (internal/upstream/client.go, quirks.go):    *)
(* one Client, shared by every request the server handles.  A call shapes  *)
(* its request to the profile of its model, sends it, retries what may     *)
(* pass, and, when the provider rejects something it can do without,       *)
(* changes the profile and sends again.  What was learned is kept in the   *)
(* client, under a mutex, for every later call.                            *)
(*                                                                         *)
(* The provider is external.  It rejects the same features of a model's    *)
(* requests every time; which of them it complains about, when it fails    *)
(* for a while, and when it refuses for another reason, is its choice.     *)
(*                                                                         *)
(* Left out: delays, the text of messages, how a tool call without text is *)
(* represented, the number of stop sequences, reasoning, and streaming     *)
(* (no handler streams from the provider), with the fix for stream_options *)
(* that only a stream sends.                                               *)
(***************************************************************************)
EXTENDS Integers, Sequences, SequencesExt

CONSTANTS
  Call,          \* calls of Client.Complete that may be in progress
  Model,         \* models named by requests
  Unnamed,       \* the empty model name
  Configured,    \* the configured profile
  AgentRequest,  \* what turns of the agent loop ask for
  Rules,         \* what a provider may reject, for each model name
  MaxRetries,    \* upstream.max_retries
  MaxAutoFixes   \* maxAutoFixes, 3 in the code

\* What a request may carry that some provider rejects.
Feature == {"max_tokens", "max_completion_tokens", "system", "developer",
            "parallel_tool_calls", "temperature", "strict", "anyOf"}

Profile == [tokens : {"max_tokens", "max_completion_tokens"},
            role : {"system", "developer", "user"},
            parallel : BOOLEAN, sampling : BOOLEAN, strict : BOOLEAN,
            full : BOOLEAN]

Optional == {"limit", "parallel", "sampling", "strict", "tools"}

Request == [model : Model \cup {Unnamed}, has : SUBSET Optional]

ASSUME UpstreamAssumption ==
  /\ Unnamed \notin Model
  /\ Configured \in Profile
  /\ AgentRequest \subseteq Request
  /\ \A r \in AgentRequest : r.model \in Model
  /\ Rules \subseteq [Model \cup {Unnamed} -> SUBSET Feature]
  /\ MaxRetries \in Nat /\ MaxAutoFixes \in Nat

VARIABLES
  rejects,  \* rejects[m]: what the provider rejects of requests for m
  applied,  \* Client.applied
  learned,  \* Client.learned, and the configured profile where it has none
  call,     \* call[c]: the call in progress
  sends     \* sends[c]: requests it has sent (history)

clientVars == <<rejects, applied, learned, call, sends>>
-----------------------------------------------------------------------------
Named == Model \cup {Unnamed}

\* The request of contextmgr: a system and a user message, nothing else.
Summary == [model |-> Unnamed, has |-> {}]

(***************************************************************************)
(* The features of the body sent under profile p (Apply, BuildBody).  The  *)
(* schemas of the tools were written when the loop was built, with the     *)
(* configured dialect.                                                     *)
(***************************************************************************)
Body(p, r) ==
  (IF "limit" \in r.has THEN {p.tokens} ELSE {})
    \cup ({p.role} \ {"user"})
    \cup {f \in {"parallel_tool_calls"} : "parallel" \in r.has /\ p.parallel}
    \cup {f \in {"temperature"} : "sampling" \in r.has /\ p.sampling}
    \cup {f \in {"strict"} : "strict" \in r.has /\ p.strict}
    \cup {f \in {"anyOf"} : "tools" \in r.has /\ Configured.full}

TokenField == {"max_tokens", "max_completion_tokens"}

RoleName == {"system", "developer"}

\* What a fix replaces a field or a role by.
Opposite == [max_tokens |-> "max_completion_tokens",
             max_completion_tokens |-> "max_tokens",
             system |-> "developer", developer |-> "system"]

\* The change of profile that a complaint about f implies (autoFixes).  Each
\* fix answers the complaint about one feature, and is named by it here.
Fixed(p, f) ==
  [tokens   |-> IF f \in TokenField THEN Opposite[f] ELSE p.tokens,
   role     |-> IF f \in RoleName THEN Opposite[f] ELSE p.role,
   parallel |-> p.parallel /\ f # "parallel_tool_calls",
   sampling |-> p.sampling /\ f # "temperature",
   strict   |-> p.strict /\ f # "strict",
   full     |-> p.full /\ f # "anyOf"]

Idle == [at |-> "idle"]

\* An answer was returned, or an error that teaches nothing.
Over == [at |-> "over"]

At(c, where) == call[c].at = where

Live == [at : {"ready", "sent", "waiting", "rejected", "failed"},
         request : Request, profile : Profile, attempt : 0..MaxRetries,
         complaint : Feature \cup {"none"}]

ClientTypeOK ==
  /\ rejects \in [Named -> SUBSET Feature]
  /\ applied \in [Named -> Seq(Feature)]
  /\ learned \in [Named -> Profile]
  /\ call \in [Call -> Live \cup {Idle, Over}]
  /\ sends \in [Call -> Nat]

ClientInit ==
  /\ rejects \in Rules
  /\ applied = [m \in Named |-> <<>>]
  /\ learned = [m \in Named |-> Configured]
  /\ call = [c \in Call |-> Idle]
  /\ sends = [c \in Call |-> 0]
-----------------------------------------------------------------------------
(* One call of Complete.                                                   *)

Goes(c, where) == call' = [call EXCEPT ![c].at = where]

Ends(c) ==
  /\ call' = [call EXCEPT ![c] = Over]
  /\ UNCHANGED <<rejects, applied, learned, sends>>

\* The complaint is what the caller is told.
Fails(c) ==
  /\ Goes(c, "failed")
  /\ UNCHANGED <<rejects, applied, learned, sends>>

Begin(c, r) ==
  /\ At(c, "idle")
  /\ call' = [call EXCEPT ![c] =
                [at |-> "ready", request |-> r, profile |-> Configured,
                 attempt |-> 0, complaint |-> "none"]]
  /\ UNCHANGED <<rejects, applied, learned, sends>>

MostSends == (MaxRetries + 1) * (MaxAutoFixes + 1)

\* Counted no further than one too many.
Count(c) ==
  sends' = [sends EXCEPT ![c] = IF @ <= MostSends THEN @ + 1 ELSE @]

\* Client.Profile: copy what is in force now, shape the body to it, and send.
Shape(c) ==
  /\ At(c, "ready")
  /\ call' = [call EXCEPT ![c] =
                [at |-> "sent", request |-> @.request,
                 profile |-> learned[@.request.model],
                 attempt |-> 0, complaint |-> "none"]]
  /\ Count(c)
  /\ UNCHANGED <<rejects, applied, learned>>

Sent(c) == Body(call[c].profile, call[c].request)

Rejected(c) == Sent(c) \cap rejects[call[c].request.model]

\* A body that can be read is the end of it.
Accept(c) ==
  /\ At(c, "sent") /\ Rejected(c) = {}
  /\ Ends(c)

\* A 400 that names a feature of the body.
Reject(c, f) ==
  /\ At(c, "sent") /\ f \in Rejected(c)
  /\ call' = [call EXCEPT ![c].at = "rejected", ![c].complaint = f]
  /\ UNCHANGED <<rejects, applied, learned, sends>>

\* Any other refusal, an answer that is not JSON, or the caller went away.
Refuse(c) ==
  /\ At(c, "sent")
  /\ Ends(c)

\* The network or the provider fails in a way that may pass.
Fail(c) ==
  /\ At(c, "sent")
  /\ IF call[c].attempt < MaxRetries
     THEN call' = [call EXCEPT ![c].at = "waiting", ![c].attempt = @ + 1]
     ELSE call' = [call EXCEPT ![c] = Over]
  /\ UNCHANGED <<rejects, applied, learned, sends>>

\* The backoff is over: send the same body again.
Retry(c) ==
  /\ At(c, "waiting")
  /\ Goes(c, "sent")
  /\ Count(c)
  /\ UNCHANGED <<rejects, applied, learned>>

\* The caller goes away during the backoff.
GiveUp(c) ==
  /\ At(c, "waiting")
  /\ Ends(c)

Adopt(c, base) ==
  LET m == call[c].request.model
      f == call[c].complaint
  IN  /\ learned' = [learned EXCEPT ![m] = Fixed(base, f)]
      /\ applied' = [applied EXCEPT ![m] = Append(@, f)]
      /\ Goes(c, "ready")
      /\ UNCHANGED <<rejects, sends>>

Already(c) == call[c].complaint \in ToSet(applied[call[c].request.model])

LearnFromOwn(c) ==  \* deliberately wrong
  /\ At(c, "rejected")
  /\ IF Already(c) \/ Len(applied[call[c].request.model]) >= MaxAutoFixes
     THEN Fails(c)
     ELSE Adopt(c, call[c].profile)

LearnUncapped(c) ==  \* deliberately wrong
  /\ At(c, "rejected")
  /\ IF Already(c)
     THEN Fails(c)
     ELSE Adopt(c, learned[call[c].request.model])

LearnAgain(c) ==  \* deliberately wrong
  /\ At(c, "rejected")
  /\ IF Already(c)
     THEN Goes(c, "ready") /\ UNCHANGED <<rejects, applied, learned, sends>>
     ELSE IF Len(applied[call[c].request.model]) >= MaxAutoFixes
     THEN Fails(c)
     ELSE Adopt(c, learned[call[c].request.model])

\* learnFrom, one critical section: adopt the fix unless it was adopted before,
\* by whichever call, or too many were.
Learn(c) ==
  /\ At(c, "rejected")
  /\ IF Already(c) \/ Len(applied[call[c].request.model]) >= MaxAutoFixes
     THEN Fails(c)
     ELSE Adopt(c, learned[call[c].request.model])
-----------------------------------------------------------------------------
Progress(c) ==
  \/ Shape(c) \/ Accept(c) \/ Refuse(c) \/ Fail(c)
  \/ Retry(c) \/ GiveUp(c) \/ Learn(c)
  \/ \E f \in Feature : Reject(c, f)

ClientNext ==
  \E c \in Call :
    \/ \E r \in AgentRequest \cup {Summary} : Begin(c, r)
    \/ Progress(c)

ClientSpec == ClientInit /\ [][ClientNext]_clientVars

\* The HTTP client's timeout ends every exchange, and delays are finite.
FairClientSpec == ClientSpec /\ \A c \in Call : WF_clientVars(Progress(c))
-----------------------------------------------------------------------------
(* Properties.                                                             *)

\* A rejection is paid for once: a call that shapes its body later does not
\* send what was learned away, unless the provider rejected the replacement
\* too.  The tools' schemas are the exception: no profile rewrites them.
LearnedStaysAway ==
  [][\A c \in Call : At(c, "ready") /\ At(c, "sent")' =>
       \A f \in ToSet(applied[call[c].request.model]) \cap Sent(c)' :
         \/ /\ f \in DOMAIN Opposite
            /\ Opposite[f] \in ToSet(applied[call[c].request.model])
         \/ f = "anyOf"]_clientVars

\* However complaints, failures and other calls mix, a call sends a bounded
\* number of requests (client.go: "produces an unbounded retry loop that looks
\* like a hang and costs real money on every attempt").
SendsBounded ==
  \A c \in Call : sends[c] <= MostSends

\* Every call of Complete ends.
CompleteEnds ==
  \A c \in Call : At(c, "ready") ~> At(c, "over") \/ At(c, "failed")
=============================================================================
