----------------------------- MODULE AgentLoop ------------------------------
(***************************************************************************)
(* One request of the agent loop (internal/agent/loop.go, budget.go): the  *)
(* conversation it builds and sends, the tool calls it runs and in what    *)
(* order, the guards it asks (internal/guard), and when it stops.          *)
(*                                                                         *)
(* Left out: what the tools do (module ReadBeforeEdit), the session,       *)
(* events, usage figures, and Result.Messages, which no caller reads.  The *)
(* provider answers anything.  The clock, the token count and the caller   *)
(* going away are left out: where the loop looks at them it may find that  *)
(* a ceiling is reached or the request cancelled.                          *)
(***************************************************************************)
EXTENDS Compaction, FiniteSets

CONSTANTS
  Safe,             \* keys of calls that may overlap others
  Conversations,    \* what clients send: non-empty, without system messages
  ReplyCost,        \* costs of tool results
  MaxCalls,         \* bound: tool calls in the reply of each turn
  MaxParallel,      \* agent.max_parallel_tools
  MaxIterations,    \* agent.max_iterations, or the caller's lower cap
  RepeatThreshold   \* guards.repeat_threshold

ASSUME LoopAssumption ==
  /\ Safe \subseteq Key
  /\ Conversations \subseteq Seq(Message) \ {<<>>}
  /\ ReplyCost \subseteq Nat
  /\ MaxIterations \in Nat \ {0} /\ MaxCalls \in [1..MaxIterations -> Nat]
  /\ MaxParallel \in Nat \ {0} /\ RepeatThreshold \in Nat \ {0, 1}

VARIABLES
  history,     \* the messages of the next request upstream
  at,          \* where the loop is
  stop,        \* why it stopped
  iterations,  \* Tracker.iterations
  asked,       \* the tool calls of the turn
  next,        \* the first of them not started
  running,     \* those in flight
  results,     \* what they returned, by position
  prior,       \* every call of earlier turns
  ran          \* ran[k]: turns in which a call k was let through (history)

vars == <<history, at, stop, iterations, asked, next, running,
          results, prior, ran>>

toolVars == <<asked, next, running, results>>
-----------------------------------------------------------------------------
Ceiling == {"wall_clock", "max_tokens"}

Prompt == Msg("system", "prompt", 1)

Init ==
  /\ \E c \in Conversations : history = <<Prompt>> \o c
  /\ at = "begin" /\ stop = "none"
  /\ iterations = 0
  /\ asked = <<>> /\ next = 1 /\ running = {} /\ results = <<>>
  /\ prior = <<>>
  /\ ran = [k \in Key |-> {}]
-----------------------------------------------------------------------------
(* Turns.                                                                  *)

Done(reason) ==
  /\ at' = "done" /\ stop' = reason
  /\ UNCHANGED <<iterations, toolVars, prior, ran>>

\* BeginIteration says why another model call may not be made.
StopAtCeiling ==
  /\ at = "begin"
  /\ \/ iterations = MaxIterations /\ Done("max_iterations")
     \/ iterations < MaxIterations /\ \E c \in Ceiling : Done(c)
  /\ UNCHANGED history

\* The caller is gone.
Cancelled == at' = "done" /\ stop' = "cancelled"

\* The turn is counted before the loop looks whether the caller is still there.
BeginTurn ==
  /\ at = "begin" /\ iterations < MaxIterations
  /\ iterations' = iterations + 1
  /\ \/ Cancelled /\ UNCHANGED history
     \/ /\ at' = "sent" /\ UNCHANGED stop
        /\ \E answered \in BOOLEAN : history' = Maybe(history, answered)
  /\ UNCHANGED <<toolVars, prior, ran>>

Waiting == at \in {"sent", "resent"}

\* An answer without tool calls is the end.
Answer ==
  /\ Waiting
  /\ history' = Append(history, Msg("assistant", "talk", 1))
  /\ Done("complete")

\* The model asks for tools.
AskForTools ==
  /\ Waiting
  /\ \E n \in 1..MaxCalls[iterations] : \E calls \in [1..n -> Key] :
       /\ asked' = calls
       /\ history' = Append(history, [Msg("assistant", "talk", 1)
                                        EXCEPT !.calls = calls])
  /\ at' = "tools"
  /\ next' = 1 /\ running' = {} /\ results' = <<>>
  /\ UNCHANGED <<stop, iterations, prior, ran>>

\* The provider fails, for good and not because of the length, or answers
\* without a choice; or the call fails because the caller went away.
UpstreamFails ==
  /\ Waiting
  /\ Cancelled \/ (at' = "failed" /\ UNCHANGED stop)
  /\ UNCHANGED <<history, iterations, toolVars, prior, ran>>

\* The conversation was too long: compact whatever the estimate says, and send
\* once more if there are fewer messages now.
Overflow ==
  /\ at = "sent"
  /\ \E answered \in BOOLEAN :
       LET compacted == ForceCompaction(history, answered)
       IN  IF Len(compacted) = Len(history)
           THEN /\ Cancelled \/ (at' = "failed" /\ UNCHANGED stop)
                /\ UNCHANGED history
           ELSE /\ at' = "resent" /\ UNCHANGED stop
                /\ history' = compacted
  /\ UNCHANGED <<iterations, toolVars, prior, ran>>
-----------------------------------------------------------------------------
(* Tool calls.                                                             *)

\* The end of the group of calls that starts at i: a call that is not safe is
\* alone; safe ones that follow each other overlap, up to the limit.
GroupEndMixed(i) ==  \* deliberately wrong
  Min({i + MaxParallel, Len(asked) + 1})

GroupEndEmpty(i) ==  \* deliberately wrong
  Min({i + MaxParallel, Len(asked) + 1}
        \cup {j \in i..Len(asked) : asked[j] \notin Safe})

GroupEnd(i) ==
  IF asked[i] \notin Safe
  THEN i + 1
  ELSE Min({i + MaxParallel, Len(asked) + 1}
             \cup {j \in i..Len(asked) : asked[j] \notin Safe})

StartGroup ==
  /\ at = "tools"
  /\ running = {} /\ next <= Len(asked)
  /\ running' = next..GroupEnd(next) - 1
  /\ next' = GroupEnd(next)
  /\ UNCHANGED <<history, at, stop, iterations, asked, results,
                 prior, ran>>

\* The repeat-tool guard: the calls of earlier turns, run or refused, count.
TooOftenNever(k) == FALSE  \* deliberately wrong

TooOften(k) ==
  Cardinality({i \in DOMAIN prior : prior[i] = k}) >= RepeatThreshold

Resulting(i, cost) ==
  [Msg("tool", "result", cost) EXCEPT !.answers = i]

\* Call i returns: the repeat guard refused it, or let it through.  The other
\* guards only refuse more; to the loop a refusal is one more result.
Return(i) ==
  /\ i \in running
  /\ running' = running \ {i}
  /\ \E cost \in ReplyCost :
       results' = [j \in DOMAIN results \cup {i} |->
                     IF j = i THEN Resulting(i, cost) ELSE results[j]]
  /\ ran' = IF TooOften(asked[i]) THEN ran
            ELSE [ran EXCEPT ![asked[i]] = @ \cup {iterations}]
  /\ UNCHANGED <<history, at, stop, iterations, asked, next,
                 prior>>

\* Every call has returned: append the results in the order of the calls.
EndTurn ==
  /\ at = "tools"
  /\ running = {} /\ next > Len(asked)
  /\ history' = history \o results
  /\ prior' = prior \o asked
  /\ asked' = <<>> /\ next' = 1 /\ results' = <<>> /\ UNCHANGED running
  /\ Cancelled \/ (at' = "begin" /\ UNCHANGED stop)
  /\ UNCHANGED <<iterations, ran>>
-----------------------------------------------------------------------------
Next ==
  \/ StopAtCeiling \/ BeginTurn
  \/ Answer \/ AskForTools \/ UpstreamFails \/ Overflow
  \/ StartGroup \/ EndTurn
  \/ \E i \in running : Return(i)

Spec == Init /\ [][Next]_vars

\* A call upstream ends, by the HTTP client's timeout if not before, and so
\* does every tool call.
FairSpec == Spec /\ WF_vars(Next)
-----------------------------------------------------------------------------
(* Properties.                                                             *)

\* Each call an assistant message makes is answered right after it, in order,
\* and every tool result answers a call.
Answered(msgs) ==
  /\ \A i \in DOMAIN msgs : \A k \in DOMAIN msgs[i].calls :
       /\ i + k \in DOMAIN msgs
       /\ msgs[i + k].role = "tool" /\ msgs[i + k].answers = k
  /\ \A i \in DOMAIN msgs : msgs[i].role = "tool" =>
       \E j \in 1..i - 1 : /\ i = j + msgs[i].answers
                          /\ msgs[i].answers \in DOMAIN msgs[j].calls

\* Whatever is compacted and in whatever order parallel calls return, every
\* request sent pairs calls and results as strict providers demand (loop.go:
\* "Strict providers reject a request whose tool results do not correspond to
\* the preceding tool_calls array"; compact.go, retainIndex).
RequestsAnswered == Waiting => Answered(history)

\* The system prompt, and the task when the conversation starts with it, are
\* never touched, by any number of compactions (compact.go: "the task statement
\* is the one thing that must survive intact").
PromptAndTaskKept ==
  [][/\ history'[1] = history[1]
     /\ history[2].role = "user" => history'[2] = history[2]]_vars

\* A call that is not safe sees the effects of all calls before it and of none
\* after it, and no more than max_parallel_tools calls overlap.
WritesAreBarriers ==
  /\ Cardinality(running) <= MaxParallel
  /\ \A i \in running : asked[i] \notin Safe =>
       \A j \in DOMAIN asked \ {i} :
         IF j < i THEN j \in DOMAIN results ELSE j >= next

\* However the model mixes it with others, an identical call is executed in at
\* most RepeatThreshold turns of a request (builtin.go, RepeatTool).
RepeatsStop == \A k \in Key : Cardinality(ran[k]) <= RepeatThreshold

\* The loop ends although the model may ask for tools for ever.
RunEnds == <>(at \in {"done", "failed"})
=============================================================================
