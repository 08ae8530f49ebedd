-------------------------- MODULE AgentLoopProofs ---------------------------
(***************************************************************************)
(* Theorems about AgentLoop, for every model, client and tool: any calls,  *)
(* costs, limits and numbers of turns.  Theorems about Upstream, which     *)
(* makes the requests: what concurrent calls learn is kept, and no call    *)
(* sends more than its share, for any number of calls and models, any      *)
(* provider and any limits.                                                *)
(***************************************************************************)
EXTENDS AgentLoop, Upstream, TLAPS, FiniteSetTheorems,
        SequenceTheorems, WellFoundedInduction

-----------------------------------------------------------------------------
(* Least and greatest positions.                                           *)

LEMMA MinIsLeast ==
  ASSUME NEW S \in SUBSET Nat, S # {}
  PROVE  Min(S) \in S /\ \A y \in S : Min(S) <= y
  <1>1. PICK x \in S : \A y \in S : <<y, x>> \notin OpToRel(<, Nat)
    BY NatLessThanWellFounded, WFMin, Zenon
  <1>2. \A y \in S : x <= y
    <2> SUFFICES ASSUME NEW y \in S, ~(x <= y) PROVE FALSE
      OBVIOUS
    <2> DEFINE p == <<y, x>>
    <2>1. p \in Nat \X Nat /\ p[1] = y /\ p[2] = x
      OBVIOUS
    <2>2. y < x
      OBVIOUS
    <2>3. p \in OpToRel(<, Nat)
      BY <2>1, <2>2 DEF OpToRel
    <2> QED BY <1>1, <2>3
  <1> QED BY <1>2 DEF Min

LEMMA MaxOfTwo ==
  ASSUME NEW a \in Nat, NEW b \in Nat
  PROVE  Max({a, b}) \in {a, b} /\ Max({a, b}) >= a /\ Max({a, b}) >= b
  <1>1. \E x \in {a, b} : \A y \in {a, b} : x >= y
    <2>1. CASE a >= b
      BY <2>1
    <2>2. CASE b >= a
      BY <2>2
    <2> QED BY <2>1, <2>2
  <1> QED BY <1>1 DEF Max
-----------------------------------------------------------------------------
(* Compaction.                                                             *)

\* A cut falls on a message that is no tool result, or behind the last one.
LEMMA CutIsSafe ==
  ASSUME NEW msgs \in Seq(Message), NEW k \in 1..Len(msgs) + 1
  PROVE  /\ SafeCut(msgs, k) \in k..Len(msgs) + 1
         /\ SafeCut(msgs, k) <= Len(msgs) => msgs[SafeCut(msgs, k)].role # "tool"
  <1> DEFINE n == Len(msgs)
             S == {i \in k..n : msgs[i].role # "tool"} \cup {n + 1}
  <1>1. n \in Nat /\ S \in SUBSET Nat /\ S # {}
    OBVIOUS
  <1>2. Min(S) \in S
    BY <1>1, MinIsLeast
  <1> QED BY <1>1, <1>2 DEF SafeCut

LEMMA RetainIsSafe ==
  ASSUME NEW msgs \in Seq(Message), Len(msgs) >= 2
  PROVE  /\ RetainIndex(msgs) \in 3..Len(msgs) + 1
         /\ RetainIndex(msgs) <= Len(msgs) => msgs[RetainIndex(msgs)].role # "tool"
  <1> DEFINE n == Len(msgs)
             S == {k \in 1..n : Cost(SubSeq(msgs, k, n)) <= RetainBudget}
                    \cup {n + 1}
             kept == Min(S)
             last == Min({kept, n - 1})
             cut == Max({3, last})
  <1>1. n \in Nat /\ S \in SUBSET Nat /\ S # {}
    OBVIOUS
  <1>2. kept \in Nat
    BY <1>1, MinIsLeast
  <1> HIDE DEF S, kept
  <1>3. last \in Nat /\ last <= n - 1
    <2>1. {kept, n - 1} \in SUBSET Nat
      BY <1>1, <1>2
    <2> QED BY <1>1, <1>2, <2>1, MinIsLeast
  <1> HIDE DEF last
  <1>4. cut \in 3..n + 1
    BY <1>1, <1>3, MaxOfTwo
  <1>5. RetainIndex(msgs) = SafeCut(msgs, cut)
    BY DEF RetainIndex, S, kept, last
  <1> HIDE DEF cut
  <1>6. cut \in 1..n + 1
    BY <1>1, <1>4
  <1> QED BY <1>1, <1>4, <1>5, <1>6, CutIsSafe

\* What pruning leaves of a conversation: all but the text and cost of old
\* tool results.
LEMMA PrunedFacts ==
  ASSUME NEW msgs \in Seq(Message), NEW from \in Nat
  PROVE  LET p == PruneToolResults(msgs, from)
         IN  /\ p \in Seq(Message) /\ Len(p) = Len(msgs)
             /\ \A i \in 1..Len(msgs) :
                  /\ p[i].role = msgs[i].role /\ p[i].calls = msgs[i].calls
                  /\ p[i].answers = msgs[i].answers
                  /\ msgs[i].role # "tool" => p[i] = msgs[i]
  <1> DEFINE p == PruneToolResults(msgs, from)
  <1>1. DOMAIN msgs = 1..Len(msgs) /\ \A i \in 1..Len(msgs) : msgs[i] \in Message
    OBVIOUS
  <1>2. DOMAIN p = 1..Len(msgs)
    BY <1>1 DEF PruneToolResults
  <1>3. \A i \in 1..Len(msgs) :
          p[i] = IF i < from /\ msgs[i].role = "tool" /\ msgs[i].cost > PruneAbove
                 THEN [msgs[i] EXCEPT !.text = "stub", !.cost = 1] ELSE msgs[i]
    BY <1>1 DEF PruneToolResults
  <1>4. \A m \in Message :
          LET stub == [m EXCEPT !.text = "stub", !.cost = 1]
          IN  /\ stub \in Message /\ stub.role = m.role /\ stub.calls = m.calls
              /\ stub.answers = m.answers
    BY DEF Message, Text
  <1>5. \A i \in 1..Len(msgs) :
          /\ p[i] \in Message
          /\ p[i].role = msgs[i].role /\ p[i].calls = msgs[i].calls
          /\ p[i].answers = msgs[i].answers
          /\ msgs[i].role # "tool" => p[i] = msgs[i]
    BY <1>1, <1>3, <1>4
  <1>6. p = [i \in 1..Len(msgs) |-> p[i]]
    BY <1>2 DEF PruneToolResults
  <1> HIDE DEF p
  <1>7. p \in Seq(Message) /\ Len(p) = Len(msgs)
    BY <1>5, <1>6
  <1> QED BY <1>5, <1>7 DEF p
-----------------------------------------------------------------------------
(* Conversations in which calls and results are paired.                    *)

\* A conversation of the loop: the prompt first, calls only in an assistant's
\* messages, and every call answered.
Paired(msgs) ==
  /\ \A i \in DOMAIN msgs : msgs[i].calls # <<>> => msgs[i].role = "assistant"
  /\ Answered(msgs)

Conversation(msgs) ==
  /\ msgs \in Seq(Message) /\ Len(msgs) >= 2 /\ msgs[1] = Prompt

LEMMA MessageFacts ==
  /\ Prompt \in Message /\ Prompt.role = "system" /\ Prompt.calls = <<>>
  /\ Msg("user", "summary", 1) \in Message
  /\ Msg("user", "summary", 1).role = "user"
  /\ Msg("user", "summary", 1).calls = <<>>
  /\ Msg("assistant", "talk", 1) \in Message
  /\ Msg("assistant", "talk", 1).role = "assistant"
  /\ Msg("assistant", "talk", 1).calls = <<>>
  <1>1. <<>> \in Seq(Key)
    OBVIOUS
  <1> QED BY <1>1 DEF Prompt, Msg, Message, Role, Text

LEMMA ElementFacts ==
  ASSUME NEW msgs \in Seq(Message), NEW i \in 1..Len(msgs)
  PROVE  msgs[i].calls \in Seq(Key) /\ msgs[i].answers \in Nat
  <1>1. msgs[i] \in Message
    OBVIOUS
  <1> QED BY <1>1 DEF Message

LEMMA JoinedFacts ==
  ASSUME NEW a \in Seq(Message), NEW b \in Seq(Message)
  PROVE  /\ a \o b \in Seq(Message) /\ Len(a \o b) = Len(a) + Len(b)
         /\ \A i \in 1..Len(a) + Len(b) :
              (a \o b)[i] = IF i <= Len(a) THEN a[i] ELSE b[i - Len(a)]
  BY ConcatProperties

LEMMA PruneKeepsPairs ==
  ASSUME NEW msgs \in Seq(Message), NEW from \in Nat, Paired(msgs)
  PROVE  Paired(PruneToolResults(msgs, from))
  <1> DEFINE p == PruneToolResults(msgs, from)
  <1>1. /\ DOMAIN p = DOMAIN msgs
        /\ \A i \in DOMAIN msgs : /\ p[i].role = msgs[i].role
                                 /\ p[i].calls = msgs[i].calls
                                 /\ p[i].answers = msgs[i].answers
    BY PrunedFacts
  <1>2. \A i \in DOMAIN msgs : \A j \in 1..i - 1 : j \in DOMAIN msgs
    OBVIOUS
  <1> HIDE DEF p
  <1>3. \A i \in DOMAIN p : p[i].calls # <<>> => p[i].role = "assistant"
    BY <1>1 DEF Paired
  <1>4. ASSUME NEW i \in DOMAIN p, NEW k \in DOMAIN p[i].calls
        PROVE  /\ i + k \in DOMAIN p
               /\ p[i + k].role = "tool" /\ p[i + k].answers = k
    <2>1. i \in DOMAIN msgs /\ k \in DOMAIN msgs[i].calls
      BY <1>1
    <2>2. /\ i + k \in DOMAIN msgs
          /\ msgs[i + k].role = "tool" /\ msgs[i + k].answers = k
      BY <2>1 DEF Paired, Answered
    <2> QED BY <1>1, <2>2
  <1>5. ASSUME NEW i \in DOMAIN p, p[i].role = "tool"
        PROVE  \E j \in 1..i - 1 : /\ i = j + p[i].answers
                                   /\ p[i].answers \in DOMAIN p[j].calls
    <2>1. i \in DOMAIN msgs /\ msgs[i].role = "tool"
      BY <1>1, <1>5
    <2>2. PICK j \in 1..i - 1 : /\ i = j + msgs[i].answers
                               /\ msgs[i].answers \in DOMAIN msgs[j].calls
      BY <2>1 DEF Paired, Answered
    <2>3. p[j].calls = msgs[j].calls /\ p[i].answers = msgs[i].answers
      BY <1>1, <1>2, <2>1
    <2> QED BY <2>2, <2>3
  <1>6. Paired(p)
    BY <1>3, <1>4, <1>5 DEF Paired, Answered
  <1> QED BY <1>6 DEF p

\* s is the first k messages of msgs, a summary, and those of msgs from `from` on.
SummaryOf(msgs, from, k, s) ==
  /\ k = IF msgs[2].role = "user" THEN 2 ELSE 1
  /\ s \in Seq(Message) /\ Len(s) = k + 2 + Len(msgs) - from
  /\ \A i \in 1..k : s[i] = msgs[i]
  /\ s[k + 1] = Msg("user", "summary", 1)
  /\ \A i \in k + 2..Len(s) : s[i] = msgs[i + from - k - 2]

LEMMA SummarizedFacts ==
  ASSUME NEW msgs, Conversation(msgs), NEW from \in 3..Len(msgs) + 1
  PROVE  \E k \in 1..2 : SummaryOf(msgs, from, k, Summarize(msgs, from))
  <1> DEFINE n == Len(msgs)
             b == <<Msg("user", "summary", 1)>>
             c == SubSeq(msgs, from, n)
  <1>0. msgs \in Seq(Message) /\ n \in Nat /\ n >= 2
    BY DEF Conversation
  <1>1. PICK k \in 1..2 : k = IF msgs[2].role = "user" THEN 2 ELSE 1
    OBVIOUS
  <1> DEFINE a == SubSeq(msgs, 1, k)
             ab == a \o b
             s == ab \o c
  <1>2. a \in Seq(Message) /\ Len(a) = k /\ \A i \in 1..k : a[i] = msgs[i]
    BY <1>0, SubSeqProperties
  <1>3. b \in Seq(Message) /\ Len(b) = 1 /\ b[1] = Msg("user", "summary", 1)
    BY MessageFacts
  <1>4. /\ c \in Seq(Message) /\ Len(c) = n - from + 1
        /\ \A i \in 1..n - from + 1 : c[i] = msgs[from + i - 1]
    <2>1. \A i \in from..n : msgs[i] \in Message
      BY <1>0
    <2>2. /\ c \in Seq(Message)
          /\ Len(c) = IF from <= n THEN n - from + 1 ELSE 0
          /\ \A i \in 1..n - from + 1 : c[i] = msgs[from + i - 1]
      BY <1>0, <2>1, SubSeqProperties
    <2> QED BY <1>0, <2>2
  <1>5. Summarize(msgs, from) = s
    BY <1>1 DEF Summarize, Preserved
  <1> HIDE DEF a, b, c, n
  <1>6. /\ ab \in Seq(Message) /\ Len(ab) = k + 1
        /\ \A i \in 1..k + 1 : ab[i] = IF i <= k THEN a[i] ELSE b[i - k]
    BY <1>2, <1>3, ConcatProperties
  <1>7. /\ \A i \in 1..k : ab[i] = msgs[i]
        /\ ab[k + 1] = Msg("user", "summary", 1)
    BY <1>2, <1>3, <1>6
  <1> HIDE DEF ab
  <1>8. /\ s \in Seq(Message) /\ Len(s) = k + 1 + (n - from + 1)
        /\ \A i \in 1..k + 1 + (n - from + 1) :
             s[i] = IF i <= k + 1 THEN ab[i] ELSE c[i - (k + 1)]
    BY <1>4, <1>6, ConcatProperties
  <1> HIDE DEF s
  <1>9. \A i \in 1..k + 1 : s[i] = ab[i]
    BY <1>0, <1>8 DEF n
  <1>10. ASSUME NEW i \in k + 2..Len(s) PROVE s[i] = msgs[i + from - k - 2]
    <2>1. i - (k + 1) \in 1..n - from + 1
      BY <1>0, <1>8
    <2>2. c[i - (k + 1)] = msgs[from + (i - (k + 1)) - 1]
      BY <1>4, <2>1
    <2>3. from + (i - (k + 1)) - 1 = i + from - k - 2
      BY <1>0, <1>8
    <2>4. s[i] = c[i - (k + 1)]
      BY <1>0, <1>8
    <2> QED BY <2>2, <2>3, <2>4
  <1>11. Len(s) = k + 2 + n - from
    BY <1>0, <1>8
  <1>12. (\A i \in 1..k : s[i] = msgs[i]) /\ s[k + 1] = Msg("user", "summary", 1)
    BY <1>7, <1>9
  <1>13. SummaryOf(msgs, from, k, s)
    BY <1>1, <1>8, <1>10, <1>11, <1>12 DEF SummaryOf, n
  <1> QED BY <1>5, <1>13

LEMMA SummaryKeepsPairs ==
  ASSUME NEW msgs, Conversation(msgs), Paired(msgs),
         NEW from \in 3..Len(msgs) + 1,
         from <= Len(msgs) => msgs[from].role # "tool"
  PROVE  Paired(Summarize(msgs, from))
  <1> DEFINE s == Summarize(msgs, from)
             l == Len(msgs)
  <1>0. PICK k \in 1..2 : SummaryOf(msgs, from, k, s)
    BY SummarizedFacts
  <1>1. /\ k = 2 => msgs[2].role = "user"
        /\ s \in Seq(Message) /\ Len(s) = k + 2 + l - from
        /\ \A i \in 1..k : s[i] = msgs[i]
        /\ s[k + 1] = Msg("user", "summary", 1)
        /\ \A i \in k + 2..Len(s) : s[i] = msgs[i + from - k - 2]
    BY <1>0 DEF SummaryOf
  <1>2. /\ msgs \in Seq(Message) /\ l \in Nat /\ l >= 2 /\ DOMAIN msgs = 1..l
        /\ msgs[1] = Prompt
    BY DEF Conversation
  <1>3. \A i \in 1..l : msgs[i].calls \in Seq(Key) /\ msgs[i].answers \in Nat
    <2>1. \A i \in 1..l : msgs[i] \in Message
      BY <1>2
    <2> QED BY <2>1 DEF Message
  <1> DEFINE d == from - k - 2
  <1>4. d \in Int /\ Len(s) = l - d /\ DOMAIN s = 1..l - d /\ from - d = k + 2
    BY <1>1, <1>2
  <1>5. \A i \in 1..k + 1 : s[i].calls = <<>> /\ s[i].role # "tool"
    <2>1. msgs[1].calls = <<>> /\ msgs[1].role # "tool"
      BY <1>2, MessageFacts
    <2>2. msgs[2].role = "user" => msgs[2].calls = <<>>
      BY <1>2 DEF Paired
    <2>3. k = 1 \/ k = 2
      OBVIOUS
    <2> QED BY <1>1, <2>1, <2>2, <2>3, MessageFacts
  <1>6. \A i \in 1..l - d : i > k + 1 => i + d \in from..l /\ s[i] = msgs[i + d]
    <2> SUFFICES ASSUME NEW i \in 1..l - d, i > k + 1
                 PROVE  i + d \in from..l /\ s[i] = msgs[i + d]
      OBVIOUS
    <2>1. i + d \in from..l /\ i \in Nat /\ i \in k + 2..Len(s)
      BY <1>2, <1>4
    <2>2. i + from - k - 2 = i + d
      BY <2>1
    <2>3. s[i] = msgs[i + from - k - 2]
      BY <1>1, <2>1
    <2> QED BY <2>1, <2>2, <2>3
  <1>7. \A i \in from..l : i - d \in k + 2..l - d /\ s[i - d] = msgs[i]
    <2> TAKE i \in from..l
    <2>1. i - d \in k + 2..l - d
      BY <1>2, <1>4
    <2>2. (i - d) + from - k - 2 = i
      BY <1>2
    <2> QED BY <1>1, <1>4, <2>1, <2>2
  <1> HIDE DEF s, d, l
  <1>8. \A i \in 1..l - d : s[i].calls # <<>> => s[i].role = "assistant"
    <2> SUFFICES ASSUME NEW i \in 1..l - d, s[i].calls # <<>>
                 PROVE  s[i].role = "assistant"
      OBVIOUS
    <2>1. i > k + 1
      BY <1>2, <1>4, <1>5
    <2>2. i + d \in 1..l /\ s[i] = msgs[i + d]
      BY <1>2, <1>6, <2>1
    <2> QED BY <1>2, <2>2 DEF Paired
  <1>9. ASSUME NEW i \in 1..l - d, NEW m \in DOMAIN s[i].calls
        PROVE  /\ i + m \in 1..l - d
               /\ s[i + m].role = "tool" /\ s[i + m].answers = m
    <2>1. i > k + 1
      <3>1. s[i].calls # <<>>
        OBVIOUS
      <3> QED BY <1>2, <1>4, <1>5, <3>1
    <2>2. i + d \in from..l /\ i + d \in 1..l /\ s[i] = msgs[i + d]
      BY <1>2, <1>6, <2>1
    <2>3. m \in Nat /\ m >= 1
      BY <1>3, <2>2
    <2>4. /\ i + d + m \in 1..l
          /\ msgs[i + d + m].role = "tool" /\ msgs[i + d + m].answers = m
      BY <1>2, <2>2 DEF Paired, Answered
    <2>5. i + d + m \in from..l
      BY <1>2, <1>4, <2>2, <2>3, <2>4
    <2>6. (i + d + m) - d = i + m
      BY <1>4, <2>3
    <2>7. i + m \in k + 2..l - d /\ s[i + m] = msgs[i + d + m]
      BY <1>7, <2>5, <2>6
    <2> QED BY <1>4, <1>2, <2>4, <2>7
  <1>10. ASSUME NEW i \in 1..l - d, s[i].role = "tool"
         PROVE  \E j \in 1..i - 1 : /\ i = j + s[i].answers
                                   /\ s[i].answers \in DOMAIN s[j].calls
    <2>1. i > k + 1
      BY <1>2, <1>4, <1>5, <1>10
    <2>2. PICK q \in 1..l : q = i + d /\ q >= from /\ s[i] = msgs[q]
      <3>1. i + d \in from..l /\ s[i] = msgs[i + d]
        BY <1>6, <2>1
      <3> QED BY <1>2, <3>1
    <2>3. PICK r \in Nat : r = s[i].answers
      BY <1>3, <2>2
    <2>4. PICK j \in 1..q - 1 : q = j + r /\ r \in DOMAIN msgs[j].calls
      BY <1>2, <1>10, <2>2, <2>3 DEF Paired, Answered
    <2>5. j \in 1..l /\ from \in Nat
      BY <1>2
    <2>6. j >= from
      <3> SUFFICES ASSUME j < from PROVE FALSE
        BY <2>5
      <3>1. PICK m \in 1..r : j + m = from
        <4>1. from - j \in 1..r /\ j + (from - j) = from
          BY <2>2, <2>4, <2>5
        <4> QED BY <4>1
      <3>2. PICK calls \in Seq(Key) : calls = msgs[j].calls
        BY <1>3, <2>5
      <3>3. m \in DOMAIN calls
        BY <2>4, <3>2
      <3>4. msgs[j + m].role = "tool"
        BY <1>2, <2>5, <3>2, <3>3 DEF Paired, Answered
      <3> QED BY <2>2, <3>1, <3>4 DEF l
    <2>7. j \in from..l
      BY <2>5, <2>6
    <2>8. j - d \in k + 2..l - d /\ s[j - d] = msgs[j]
      BY <1>7, <2>7
    <2>9. j - d \in 1..i - 1 /\ i = (j - d) + r
      <3>1. d \in Int /\ i \in Int /\ q = i + d
        BY <1>2, <1>4, <2>2
      <3>2. q = j + r /\ j <= q - 1 /\ j \in Int
        BY <2>4, <2>5
      <3>3. j - d >= 1
        BY <1>2, <1>4, <2>8
      <3> QED BY <3>1, <3>2, <3>3
    <2> QED BY <2>3, <2>4, <2>8, <2>9
  <1>11. Paired(s)
    BY <1>4, <1>8, <1>9, <1>10 DEF Paired, Answered
  <1> QED BY <1>11 DEF s

LEMMA CompactionFacts ==
  ASSUME NEW msgs, Conversation(msgs), NEW answered \in BOOLEAN
  PROVE  LET f == ForceCompaction(msgs, answered)
         IN  /\ Conversation(f)
             /\ msgs[2].role = "user" => f[2] = msgs[2]
             /\ Paired(msgs) => Paired(f)
  <1> DEFINE from == RetainIndex(msgs)
             p == PruneToolResults(msgs, from)
             f == ForceCompaction(msgs, answered)
  <1>1. msgs \in Seq(Message) /\ Len(msgs) \in Nat /\ Len(msgs) >= 2 /\ msgs[1] = Prompt
    BY DEF Conversation
  <1>2. /\ from \in 3..Len(msgs) + 1
        /\ from <= Len(msgs) => msgs[from].role # "tool"
    BY <1>1, RetainIsSafe
  <1> HIDE DEF from
  <1>3. /\ p \in Seq(Message) /\ Len(p) = Len(msgs)
        /\ \A i \in 1..Len(msgs) :
             /\ p[i].role = msgs[i].role
             /\ msgs[i].role # "tool" => p[i] = msgs[i]
    BY <1>1, <1>2, PrunedFacts
  <1>4. f = p \/ f = Summarize(p, from)
    BY DEF ForceCompaction, from
  <1>5. Paired(msgs) => Paired(p)
    BY <1>1, <1>2, PruneKeepsPairs
  <1> HIDE DEF p, f
  <1>6. /\ Conversation(p)
        /\ msgs[2].role = "user" => p[2] = msgs[2]
        /\ p[2].role = msgs[2].role
    BY <1>1, <1>3, MessageFacts DEF Conversation
  <1>7. CASE f = p
    BY <1>5, <1>6, <1>7 DEF f
  <1>8. CASE f = Summarize(p, from)
    <2>1. from \in 3..Len(p) + 1 /\ (from <= Len(p) => p[from].role # "tool")
      BY <1>1, <1>2, <1>3
    <2>2. PICK k \in 1..2 : SummaryOf(p, from, k, f)
      BY <1>6, <1>8, <2>1, SummarizedFacts
    <2>3. f \in Seq(Message) /\ f[1] = p[1] /\ Len(f) = k + 2 + Len(p) - from
      BY <2>2 DEF SummaryOf
    <2>4. Conversation(f)
      BY <1>1, <1>2, <1>3, <1>6, <2>3 DEF Conversation
    <2>5. p[2].role = "user" => f[2] = p[2]
      BY <2>2 DEF SummaryOf
    <2>6. Paired(p) => Paired(f)
      BY <1>6, <1>8, <2>1, SummaryKeepsPairs
    <2> QED BY <1>5, <1>6, <2>4, <2>5, <2>6 DEF f
  <1> QED BY <1>4, <1>7, <1>8

LEMMA MaybeFacts ==
  ASSUME NEW msgs, Conversation(msgs), NEW answered \in BOOLEAN
  PROVE  LET f == Maybe(msgs, answered)
         IN  /\ Conversation(f)
             /\ msgs[2].role = "user" => f[2] = msgs[2]
             /\ Paired(msgs) => Paired(f)
  <1>1. Maybe(msgs, answered) = msgs
          \/ Maybe(msgs, answered) = ForceCompaction(msgs, answered)
    BY DEF Maybe
  <1> QED BY <1>1, CompactionFacts

LEMMA AppendFacts ==
  ASSUME NEW msgs, Conversation(msgs), NEW m \in Message
  PROVE  Conversation(Append(msgs, m)) /\ Append(msgs, m)[2] = msgs[2]
  BY AppendProperties DEF Conversation

\* The prompt before a conversation whose calls are answered.
LEMMA PromptKeepsPairs ==
  ASSUME NEW c \in Seq(Message), c # <<>>
  PROVE  Conversation(<<Prompt>> \o c) /\ (Paired(c) => Paired(<<Prompt>> \o c))
  <1> DEFINE p == <<Prompt>>
             h == p \o c
             l == Len(c)
  <1>1. l \in Nat /\ l >= 1 /\ DOMAIN c = 1..l
    OBVIOUS
  <1>2. p \in Seq(Message) /\ Len(p) = 1 /\ p[1] = Prompt
    BY MessageFacts
  <1> HIDE DEF p
  <1>3. /\ h \in Seq(Message) /\ Len(h) = 1 + l
        /\ \A i \in 1..1 + l : h[i] = IF i <= 1 THEN p[i] ELSE c[i - 1]
    BY <1>2, ConcatProperties
  <1> HIDE DEF h
  <1>4. DOMAIN h = 1..1 + l /\ h[1] = Prompt
    BY <1>1, <1>2, <1>3
  <1>5. \A i \in 1..l : h[i + 1] = c[i] /\ i + 1 \in 1..1 + l
    BY <1>1, <1>3
  <1>6. \A i \in 1..1 + l : i = 1 \/ (i - 1 \in 1..l /\ h[i] = c[i - 1])
    BY <1>1, <1>3
  <1> HIDE DEF l
  <1>7. Conversation(h)
    BY <1>1, <1>3, <1>4 DEF Conversation
  <1>8. ASSUME Paired(c) PROVE Paired(h)
    <2>1. \A i \in 1..1 + l : h[i].calls # <<>> => h[i].role = "assistant"
      BY <1>1, <1>4, <1>6, <1>8, MessageFacts DEF Paired
    <2>2. ASSUME NEW i \in 1..1 + l, NEW m \in DOMAIN h[i].calls
          PROVE  i + m \in 1..1 + l /\ h[i + m].role = "tool" /\ h[i + m].answers = m
      <3>1. i # 1
        BY <1>4, MessageFacts
      <3>2. PICK q \in 1..l : q = i - 1 /\ h[i] = c[q]
        BY <1>6, <3>1
      <3>3. q + m \in 1..l /\ c[q + m].role = "tool" /\ c[q + m].answers = m
        BY <1>1, <1>8, <3>2 DEF Paired, Answered
      <3>4. c[q].calls \in Seq(Key)
        BY ElementFacts DEF l
      <3>5. m \in Nat
        BY <3>2, <3>4
      <3>6. (q + m) + 1 = i + m
        BY <3>2, <3>5
      <3>7. h[(q + m) + 1] = c[q + m] /\ (q + m) + 1 \in 1..1 + l
        BY <1>5, <3>3
      <3> QED BY <3>3, <3>6, <3>7
    <2>3. ASSUME NEW i \in 1..1 + l, h[i].role = "tool"
          PROVE  \E j \in 1..i - 1 : /\ i = j + h[i].answers
                                    /\ h[i].answers \in DOMAIN h[j].calls
      <3>1. i # 1
        BY <1>4, <2>3, MessageFacts
      <3>2. PICK q \in 1..l : q = i - 1 /\ h[i] = c[q]
        BY <1>6, <3>1
      <3>3. PICK r \in Nat : r = h[i].answers
        BY <3>2, ElementFacts DEF l
      <3>4. PICK j \in 1..q - 1 : q = j + r /\ r \in DOMAIN c[j].calls
        BY <1>1, <1>8, <2>3, <3>2, <3>3 DEF Paired, Answered
      <3>5. j \in 1..l /\ j + 1 \in 1..i - 1 /\ i = (j + 1) + r
        BY <1>1, <3>2, <3>4
      <3>6. h[j + 1] = c[j]
        BY <1>5, <3>5
      <3> QED BY <3>3, <3>4, <3>5, <3>6
    <2> QED BY <1>4, <2>1, <2>2, <2>3 DEF Paired, Answered
  <1> QED BY <1>7, <1>8 DEF h, p

\* A turn: the calls and then their results, in the order of the calls.
LEMMA TurnKeepsPairs ==
  ASSUME NEW front \in Seq(Message), Paired(front),
         NEW m \in Message, m.role = "assistant",
         NEW rs \in Seq(Message), Len(rs) = Len(m.calls),
         \A i \in 1..Len(rs) : /\ rs[i].role = "tool" /\ rs[i].answers = i
                               /\ rs[i].calls = <<>>
  PROVE  Paired(Append(front, m) \o rs)
  <1> DEFINE a == Append(front, m)
             h == a \o rs
  <1>0. PICK l \in Nat, n \in Nat : l = Len(front) /\ n = Len(rs)
    OBVIOUS
  <1>1. /\ DOMAIN front = 1..l
        /\ m.calls \in Seq(Key) /\ DOMAIN m.calls = 1..n
    BY <1>0 DEF Message
  <1>2. /\ a \in Seq(Message) /\ Len(a) = l + 1 /\ a[l + 1] = m
        /\ \A i \in 1..l : a[i] = front[i]
    BY <1>0, AppendProperties
  <1> HIDE DEF a
  <1>3. /\ h \in Seq(Message) /\ Len(h) = l + 1 + n
        /\ \A i \in 1..l + 1 + n :
             h[i] = IF i <= l + 1 THEN a[i] ELSE rs[i - (l + 1)]
    <2>1. /\ a \o rs \in Seq(Message) /\ Len(a \o rs) = Len(a) + Len(rs)
          /\ \A i \in 1..Len(a) + Len(rs) :
               (a \o rs)[i] = IF i <= Len(a) THEN a[i] ELSE rs[i - Len(a)]
      <3>1. a \in Seq(Message)
        BY <1>2
      <3> QED BY <3>1, JoinedFacts
    <2>2. Len(a) = l + 1 /\ Len(rs) = n
      BY <1>0, <1>2
    <2> QED BY <2>1, <2>2
  <1> HIDE DEF h
  <1>4. DOMAIN h = 1..l + 1 + n
    BY <1>3
  <1>5. \A i \in 1..l : h[i] = front[i] /\ i \in 1..l + 1 + n
    BY <1>1, <1>2, <1>3
  <1>6. h[l + 1] = m
    BY <1>1, <1>2, <1>3
  <1>7. \A i \in 1..n : h[l + 1 + i] = rs[i] /\ l + 1 + i \in 1..l + 1 + n
    <2> TAKE i \in 1..n
    <2>1. l + 1 + i \in 1..l + 1 + n /\ l + 1 + i > l + 1 /\ (l + 1 + i) - (l + 1) = i
      BY <1>1
    <2> QED BY <1>3, <2>1
  <1>8. \A i \in 1..l + 1 + n :
          i \in 1..l \/ i = l + 1 \/ \E q \in 1..n : i = l + 1 + q
    <2> TAKE i \in 1..l + 1 + n
    <2>1. i \in 1..l \/ i = l + 1 \/ i > l + 1
      BY <1>1
    <2> SUFFICES ASSUME i > l + 1 PROVE \E q \in 1..n : i = l + 1 + q
      BY <2>1
    <2>2. i - (l + 1) \in 1..n /\ i = l + 1 + (i - (l + 1))
      BY <1>1
    <2> QED BY <2>2
  <1>9. \A i \in 1..l : front[i].calls \in Seq(Key) /\ front[i].answers \in Nat
    BY <1>0, ElementFacts
  <1>10. \A i \in 1..n : /\ rs[i].role = "tool" /\ rs[i].answers = i
                        /\ rs[i].calls = <<>>
    BY <1>0
  <1>11. \A i \in 1..l + 1 + n : h[i].calls # <<>> => h[i].role = "assistant"
    <2> TAKE i \in 1..l + 1 + n
    <2>1. CASE i \in 1..l
      BY <1>1, <1>5, <2>1 DEF Paired
    <2>2. CASE i = l + 1
      BY <1>6, <2>2
    <2>3. CASE \E q \in 1..n : i = l + 1 + q
      <3>1. PICK q \in 1..n : i = l + 1 + q
        BY <2>3
      <3>2. h[i] = rs[q] /\ rs[q].calls = <<>>
        BY <1>7, <1>10, <3>1
      <3> QED BY <3>2
    <2> QED BY <1>8, <2>1, <2>2, <2>3
  <1>12. ASSUME NEW i \in 1..l + 1 + n, NEW k \in DOMAIN h[i].calls
         PROVE  /\ i + k \in 1..l + 1 + n
                /\ h[i + k].role = "tool" /\ h[i + k].answers = k
    <2>1. CASE i \in 1..l
      <3>1. h[i] = front[i]
        BY <1>5, <2>1
      <3>2. i + k \in 1..l /\ front[i + k].role = "tool" /\ front[i + k].answers = k
        BY <1>1, <2>1, <3>1 DEF Paired, Answered
      <3> QED BY <1>5, <3>2
    <2>2. CASE i = l + 1
      <3>1. k \in 1..n
        BY <1>1, <1>6, <2>2
      <3>2. h[l + 1 + k] = rs[k] /\ l + 1 + k \in 1..l + 1 + n
        BY <1>7, <3>1
      <3> QED BY <1>10, <2>2, <3>1, <3>2
    <2>3. CASE \E q \in 1..n : i = l + 1 + q
      <3>1. PICK q \in 1..n : i = l + 1 + q
        BY <2>3
      <3>2. h[i] = rs[q] /\ rs[q].calls = <<>>
        BY <1>7, <1>10, <3>1
      <3> QED BY <3>2
    <2> QED BY <1>8, <2>1, <2>2, <2>3
  <1>13. ASSUME NEW i \in 1..l + 1 + n, h[i].role = "tool"
         PROVE  \E j \in 1..i - 1 : /\ i = j + h[i].answers
                                   /\ h[i].answers \in DOMAIN h[j].calls
    <2>1. CASE i \in 1..l
      <3>1. h[i] = front[i]
        BY <1>5, <2>1
      <3>2. PICK j \in 1..i - 1 : /\ i = j + h[i].answers
                                 /\ h[i].answers \in DOMAIN front[j].calls
        BY <1>1, <1>13, <2>1, <3>1 DEF Paired, Answered
      <3>3. j \in 1..l
        BY <1>1, <2>1
      <3> QED BY <1>5, <3>2, <3>3
    <2>2. CASE i = l + 1
      BY <1>6, <1>13, <2>2
    <2>3. CASE \E q \in 1..n : i = l + 1 + q
      <3>1. PICK q \in 1..n : i = l + 1 + q
        BY <2>3
      <3>2. h[i].answers = q /\ q \in DOMAIN h[l + 1].calls
        BY <1>1, <1>6, <1>7, <1>10, <3>1
      <3>3. l + 1 \in 1..i - 1
        BY <1>1, <3>1
      <3> QED BY <3>1, <3>2, <3>3
    <2> QED BY <1>8, <2>1, <2>2, <2>3
  <1>14. Paired(h)
    BY <1>4, <1>11, <1>12, <1>13 DEF Paired, Answered
  <1> QED BY <1>14 DEF h, a
-----------------------------------------------------------------------------
(* The inductive invariant.                                                *)

TypeOK ==
  /\ Conversation(history)
  /\ at \in {"begin", "sent", "resent", "tools", "done", "failed"}
  /\ iterations \in Nat /\ iterations <= MaxIterations
  /\ at \in {"sent", "resent", "tools"} => iterations >= 1
  /\ asked \in Seq(Key) /\ next \in 1..Len(asked) + 1
  /\ running \in SUBSET (1..next - 1)
  /\ results \in [(1..next - 1) \ running -> Message]
  /\ prior \in Seq(Key)
  /\ ran \in [Key -> SUBSET (1..iterations)]
  /\ at # "tools" => asked = <<>>

\* The results at hand answer the calls at their positions.
ResultsFit ==
  \A i \in DOMAIN results : /\ results[i].role = "tool" /\ results[i].answers = i
                           /\ results[i].calls = <<>>

\* Between turns every call is answered; while tools run, every call but those
\* of the last message.
PairedSoFar ==
  /\ at \in {"begin", "sent", "resent"} => Paired(history)
  /\ at = "tools" => \E front \in Seq(Message) : \E m \in Message :
       /\ history = Append(front, m) /\ Paired(front)
       /\ m.role = "assistant" /\ m.calls = asked

\* What runs is part of one group.
OneGroup ==
  /\ IsFiniteSet(running) /\ Cardinality(running) <= MaxParallel
  /\ \A i \in running : asked[i] \notin Safe => running = {i} /\ next = i + 1

CallsOf(calls, k) == {i \in DOMAIN calls : calls[i] = k}

\* The turns in which k was let through, this one aside.
EarlierTurns(k) == IF at = "tools" THEN ran[k] \ {iterations} ELSE ran[k]

\* Every turn that let k through, this one aside, left a call of it behind, and
\* in this one it is let through only if those are fewer than the threshold.
RepeatsCounted ==
  \A k \in Key :
    /\ Cardinality(EarlierTurns(k)) <= Cardinality(CallsOf(prior, k))
    /\ Cardinality(ran[k]) <= RepeatThreshold
    /\ at \in {"sent", "resent"} => iterations \notin ran[k]
    /\ at = "tools" /\ iterations \in ran[k] => \E i \in DOMAIN asked : asked[i] = k

LoopInv == TypeOK /\ ResultsFit /\ OneGroup /\ RepeatsCounted
-----------------------------------------------------------------------------
(* The initial state.                                                      *)

LEMMA LoopInit == Init => LoopInv
  <1> SUFFICES ASSUME Init PROVE LoopInv
    OBVIOUS
  <1>1. PICK c \in Conversations : history = <<Prompt>> \o c
    BY DEF Init
  <1>2. c \in Seq(Message) /\ c # <<>>
    BY LoopAssumption
  <1>3. Conversation(history)
    BY <1>1, <1>2, PromptKeepsPairs
  <1>4. <<>> \in Seq(Key) /\ Len(<<>>) = 0 /\ <<>> \in [{} -> Message]
    OBVIOUS
  <1>5. TypeOK
    <2>1. 1..next - 1 = {} /\ running = {} /\ results = <<>> /\ asked = <<>>
      BY DEF Init
    <2>2. results \in [(1..next - 1) \ running -> Message]
      BY <1>4, <2>1
    <2> QED BY <1>3, <1>4, <2>1, <2>2, LoopAssumption DEF Init, TypeOK
  <1>6. ResultsFit
    BY DEF Init, ResultsFit
  <1>7. OneGroup
    BY FS_EmptySet, LoopAssumption DEF Init, OneGroup
  <1>8. RepeatsCounted
    <2>1. \A k \in Key : ran[k] = {} /\ CallsOf(prior, k) = {} /\ EarlierTurns(k) = {}
      BY DEF Init, CallsOf, EarlierTurns
    <2>2. at = "begin" /\ RepeatThreshold >= 0
      BY LoopAssumption DEF Init
    <2> QED BY <2>1, <2>2, FS_EmptySet DEF RepeatsCounted
  <1> QED BY <1>5, <1>6, <1>7, <1>8 DEF LoopInv
-----------------------------------------------------------------------------
(* Types and results.                                                      *)

\* With nothing in flight and nothing left to start, the results are those of
\* all calls, in order.
LEMMA AllResults ==
  ASSUME TypeOK, ResultsFit, running = {}, next > Len(asked)
  PROVE  /\ results \in Seq(Message) /\ Len(results) = Len(asked)
         /\ \A i \in 1..Len(asked) :
              /\ results[i].role = "tool" /\ results[i].answers = i
              /\ results[i].calls = <<>>
  <1>1. PICK n \in Nat : n = Len(asked)
    BY DEF TypeOK
  <1>2. next = n + 1 /\ (1..next - 1) \ running = 1..n
    BY <1>1 DEF TypeOK
  <1>3. results \in [1..n -> Message]
    BY <1>2 DEF TypeOK
  <1>4. results \in Seq(Message) /\ Len(results) = n /\ DOMAIN results = 1..n
    BY <1>3
  <1> QED BY <1>1, <1>4 DEF ResultsFit

\* A group is not empty and within the limits; a call that is not safe makes one
\* of its own.
LEMMA GroupFacts ==
  ASSUME TypeOK, next <= Len(asked)
  PROVE  LET g == GroupEnd(next)
         IN  /\ g \in next + 1..Len(asked) + 1 /\ g <= next + MaxParallel
             /\ \A i \in next..g - 1 : asked[i] \notin Safe => g = next + 1
  <1> DEFINE l == Len(asked)
             S == {next + MaxParallel, l + 1}
                    \cup {j \in next..l : asked[j] \notin Safe}
  <1>1. next \in Nat /\ l \in Nat /\ next <= l /\ MaxParallel \in Nat \ {0}
    BY LoopAssumption DEF TypeOK
  <1>2. CASE asked[next] \notin Safe
    BY <1>1, <1>2 DEF GroupEnd
  <1>3. CASE asked[next] \in Safe
    <2>1. S \in SUBSET Nat /\ S # {}
      BY <1>1
    <2>2. GroupEnd(next) = Min(S)
      BY <1>3 DEF GroupEnd
    <2>3. Min(S) \in S /\ \A y \in S : Min(S) <= y
      BY <2>1, MinIsLeast
    <2>4. PICK g \in S : g = GroupEnd(next) /\ \A y \in S : g <= y
      BY <2>2, <2>3
    <2>5. g <= next + MaxParallel /\ g <= l + 1 /\ g \in Nat
      BY <2>1, <2>4
    <2>6. g > next
      BY <1>1, <1>3, <2>4
    <2>7. \A i \in next..g - 1 : asked[i] \in Safe
      <3> SUFFICES ASSUME NEW i \in next..g - 1, asked[i] \notin Safe PROVE FALSE
        OBVIOUS
      <3>1. i \in next..l
        BY <1>1, <2>5
      <3>2. g <= i
        BY <2>4, <3>1
      <3> QED BY <1>1, <2>5, <3>2
    <2> QED BY <1>1, <2>4, <2>5, <2>6, <2>7
  <1> QED BY <1>2, <1>3

LEMMA TypeStep == LoopInv /\ [Next]_vars => TypeOK' /\ ResultsFit'
  <1> SUFFICES ASSUME TypeOK, ResultsFit, [Next]_vars PROVE TypeOK' /\ ResultsFit'
    BY DEF LoopInv
  <1> USE DEF ResultsFit
  <1>1. CASE StopAtCeiling
    BY <1>1 DEF StopAtCeiling, Done, toolVars, TypeOK
  <1>2. CASE BeginTurn
    <2>1. Conversation(history')
      <3>1. Conversation(history)
        BY DEF TypeOK
      <3>2. history' = history
              \/ \E answered \in BOOLEAN : history' = Maybe(history, answered)
        BY <1>2 DEF BeginTurn
      <3> QED BY <3>1, <3>2, MaybeFacts
    <2>2. iterations' \in Nat /\ iterations' <= MaxIterations /\ iterations' >= 1
      BY <1>2, LoopAssumption DEF BeginTurn, TypeOK
    <2>3. ran' \in [Key -> SUBSET (1..iterations')]
      <3>1. 1..iterations \subseteq 1..iterations'
        BY <1>2 DEF BeginTurn, TypeOK
      <3>2. ran' = ran
        BY <1>2 DEF BeginTurn
      <3> QED BY <3>1, <3>2 DEF TypeOK
    <2> QED BY <1>2, <2>1, <2>2, <2>3 DEF BeginTurn, Cancelled, toolVars, TypeOK
  <1>3. CASE Answer
    <2>1. Conversation(history')
      BY <1>3, AppendFacts, MessageFacts DEF Answer, TypeOK
    <2> QED BY <1>3, <2>1 DEF Answer, Waiting, Done, toolVars, TypeOK
  <1>4. CASE AskForTools
    <2>0. PICK n \in 1..MaxCalls[iterations] : \E calls \in [1..n -> Key] :
            /\ asked' = calls
            /\ history' = Append(history, [Msg("assistant", "talk", 1)
                                             EXCEPT !.calls = calls])
      BY <1>4 DEF AskForTools
    <2>1. PICK calls \in [1..n -> Key] :
            /\ asked' = calls
            /\ history' = Append(history, [Msg("assistant", "talk", 1)
                                             EXCEPT !.calls = calls])
      BY <2>0
    <2>2. n \in Nat /\ iterations >= 1
      BY <1>4, LoopAssumption DEF AskForTools, Waiting, TypeOK
    <2>3. asked' \in Seq(Key) /\ Len(asked') \in Nat
      BY <2>1, <2>2
    <2>4. [Msg("assistant", "talk", 1) EXCEPT !.calls = calls] \in Message
      BY <2>1, <2>3 DEF Msg, Message, Role, Text
    <2>5. Conversation(history')
      BY <2>1, <2>4, AppendFacts DEF TypeOK
    <2>6. /\ next' = 1 /\ running' = {} /\ results' = <<>>
          /\ (1..next' - 1) \ running' = {} /\ results' \in [{} -> Message]
      BY <1>4 DEF AskForTools
    <2> QED BY <1>4, <2>2, <2>3, <2>5, <2>6 DEF AskForTools, TypeOK
  <1>5. CASE UpstreamFails
    BY <1>5 DEF UpstreamFails, Waiting, Cancelled, toolVars, TypeOK
  <1>6. CASE Overflow
    <2>1. Conversation(history')
      <3>1. Conversation(history)
        BY DEF TypeOK
      <3>2. history' = history
              \/ \E answered \in BOOLEAN : history' = ForceCompaction(history, answered)
        BY <1>6 DEF Overflow
      <3> QED BY <3>1, <3>2, CompactionFacts
    <2> QED BY <1>6, <2>1 DEF Overflow, Cancelled, toolVars, TypeOK
  <1>7. CASE StartGroup
    <2>1. next <= Len(asked) /\ running = {} /\ Len(asked) \in Nat /\ next \in Nat
      BY <1>7 DEF StartGroup, TypeOK
    <2>2. next' \in next + 1..Len(asked) + 1 /\ running' = next..next' - 1
      BY <1>7, <2>1, GroupFacts DEF StartGroup
    <2>3. (1..next' - 1) \ running' = (1..next - 1) \ running
      BY <2>1, <2>2 DEF TypeOK
    <2>4. running' \in SUBSET (1..next' - 1)
      <3>1. next >= 1
        BY DEF TypeOK
      <3>2. PICK g \in Nat : g = next'
        BY <2>1, <2>2
      <3>3. next..g - 1 \subseteq 1..g - 1
        BY <2>1, <3>1
      <3> QED BY <2>2, <3>2, <3>3
    <2>5. results' \in [(1..next' - 1) \ running' -> Message]
      BY <1>7, <2>3 DEF StartGroup, TypeOK
    <2>6. next' \in 1..Len(asked) + 1
      BY <2>1, <2>2 DEF TypeOK
    <2> QED BY <1>7, <2>4, <2>5, <2>6 DEF StartGroup, TypeOK
  <1>8. CASE EndTurn
    <2>1. results \in Seq(Message) /\ Len(results) \in Nat
      BY <1>8, AllResults DEF EndTurn, TypeOK
    <2>2. history \in Seq(Message) /\ Len(history) >= 2 /\ history[1] = Prompt
      BY DEF TypeOK, Conversation
    <2>3. Conversation(history')
      BY <1>8, <2>1, <2>2, JoinedFacts DEF EndTurn, Conversation
    <2>4. /\ asked' = <<>> /\ next' = 1 /\ running' = {} /\ results' = <<>>
          /\ (1..next' - 1) \ running' = {} /\ results' \in [{} -> Message]
      BY <1>8 DEF EndTurn
    <2>5. <<>> \in Seq(Key) /\ Len(<<>>) = 0
      OBVIOUS
    <2> QED BY <1>8, <2>3, <2>4, <2>5 DEF EndTurn, Cancelled, TypeOK
  <1>9. ASSUME NEW i \in running, Return(i) PROVE TypeOK' /\ ResultsFit'
    <2> DEFINE D == (1..next - 1) \ running
    <2>1. PICK cost \in ReplyCost :
            results' = [j \in DOMAIN results \cup {i} |->
                          IF j = i THEN Resulting(i, cost) ELSE results[j]]
      BY <1>9 DEF Return
    <2>2. i \in 1..next - 1 /\ i \in Nat
      BY DEF TypeOK
    <2>3. /\ Resulting(i, cost) \in Message
          /\ Resulting(i, cost).role = "tool" /\ Resulting(i, cost).answers = i
          /\ Resulting(i, cost).calls = <<>>
      <3>1. cost \in Nat /\ <<>> \in Seq(Key)
        BY LoopAssumption
      <3> QED BY <2>2, <3>1 DEF Resulting, Msg, Message, Role, Text
    <2>4. DOMAIN results = D /\ \A j \in D : results[j] \in Message
      BY DEF TypeOK
    <2>5. (1..next' - 1) \ running' = D \cup {i}
      BY <1>9, <2>2 DEF Return
    <2>6. results' \in [D \cup {i} -> Message]
      BY <2>1, <2>3, <2>4
    <2>7. running' \in SUBSET (1..next' - 1)
      BY <1>9 DEF Return, TypeOK
    <2>8. ran' \in [Key -> SUBSET (1..iterations')]
      <3>1. at = "tools"
        BY DEF TypeOK
      <3>2. iterations \in 1..iterations
        BY <3>1 DEF TypeOK
      <3> QED BY <1>9, <3>2 DEF Return, TypeOK
    <2>9. TypeOK'
      BY <1>9, <2>5, <2>6, <2>7, <2>8 DEF Return, TypeOK
    <2>10. ResultsFit'
      BY <2>1, <2>3, <2>4
    <2> QED BY <2>9, <2>10
  <1>10. CASE UNCHANGED vars
    BY <1>10 DEF vars, TypeOK
  <1> QED BY <1>1, <1>2, <1>3, <1>4, <1>5, <1>6, <1>7, <1>8, <1>9, <1>10 DEF Next
-----------------------------------------------------------------------------
(* Groups of calls.                                                        *)

LEMMA IntervalFacts ==
  ASSUME NEW a \in Nat, NEW b \in Nat, NEW m \in Nat, a < b, b <= a + m
  PROVE  IsFiniteSet(a..b - 1) /\ Cardinality(a..b - 1) <= m
  <1>1. a \in Int /\ b - 1 \in Int /\ a <= b - 1
    OBVIOUS
  <1>2. IsFiniteSet(a..b - 1) /\ Cardinality(a..b - 1) = (b - 1) - a + 1
    BY <1>1, FS_Interval
  <1> QED BY <1>2

LEMMA BoundedIsFinite ==
  ASSUME NEW n \in Nat, NEW S \in SUBSET (1..n)
  PROVE  IsFiniteSet(S) /\ Cardinality(S) \in Nat
  <1>1. IsFiniteSet(1..n)
    BY FS_Interval
  <1>2. IsFiniteSet(S)
    BY <1>1, FS_Subset
  <1> QED BY <1>2, FS_CardinalityType

LEMMA GroupStep == LoopInv /\ [Next]_vars => OneGroup'
  <1> SUFFICES ASSUME TypeOK, OneGroup, [Next]_vars PROVE OneGroup'
    BY DEF LoopInv
  <1>1. CASE UNCHANGED <<running, asked, next>>
    BY <1>1 DEF OneGroup
  <1>2. CASE AskForTools
    BY <1>2, FS_EmptySet, LoopAssumption DEF AskForTools, OneGroup
  <1>3. CASE StartGroup
    <2>1. next <= Len(asked) /\ next \in Nat /\ MaxParallel \in Nat /\ Len(asked) \in Nat
      BY <1>3, LoopAssumption DEF StartGroup, TypeOK
    <2>2. /\ next' \in next + 1..Len(asked) + 1 /\ next' <= next + MaxParallel
          /\ \A i \in next..next' - 1 : asked[i] \notin Safe => next' = next + 1
      BY <1>3, <2>1, GroupFacts DEF StartGroup
    <2>3. running' = next..next' - 1 /\ asked' = asked
      BY <1>3 DEF StartGroup
    <2>4. PICK g \in Nat : g = next' /\ next < g /\ g <= next + MaxParallel
      BY <2>1, <2>2
    <2>5. running' = next..g - 1
      BY <2>3, <2>4
    <2>6. IsFiniteSet(running') /\ Cardinality(running') <= MaxParallel
      BY <2>1, <2>4, <2>5, IntervalFacts
    <2>7. ASSUME NEW i \in running', asked'[i] \notin Safe
          PROVE  running' = {i} /\ next' = i + 1
      <3>1. next' = next + 1
        BY <2>2, <2>3, <2>7
      <3>2. running' = {next}
        BY <2>1, <2>3, <3>1
      <3> QED BY <3>1, <3>2
    <2> QED BY <2>6, <2>7 DEF OneGroup
  <1>4. CASE EndTurn
    BY <1>4 DEF EndTurn, OneGroup
  <1>5. ASSUME NEW i \in running, Return(i) PROVE OneGroup'
    <2>1. running' = running \ {i} /\ asked' = asked /\ next' = next
      BY <1>5 DEF Return
    <2>2. /\ IsFiniteSet(running') /\ Cardinality(running) \in Nat
          /\ Cardinality(running') = Cardinality(running) - 1
      BY <2>1, FS_RemoveElement, FS_CardinalityType DEF OneGroup
    <2>3. Cardinality(running') <= MaxParallel
      BY <2>2, LoopAssumption DEF OneGroup
    <2> QED BY <2>1, <2>2, <2>3 DEF OneGroup
  <1> QED
    BY <1>1, <1>2, <1>3, <1>4, <1>5
    DEF Next, vars, toolVars, StopAtCeiling, Done, BeginTurn, Answer,
        UpstreamFails, Overflow
-----------------------------------------------------------------------------
(* Repeated calls.                                                         *)

\* The calls k of a sequence, and those of one with another appended.
LEMMA CallsFacts ==
  ASSUME NEW p \in Seq(Key), NEW q \in Seq(Key), NEW k \in Key
  PROVE  /\ IsFiniteSet(CallsOf(p, k)) /\ Cardinality(CallsOf(p, k)) \in Nat
         /\ Cardinality(CallsOf(p, k)) <= Cardinality(CallsOf(p \o q, k))
         /\ (\E i \in DOMAIN q : q[i] = k) =>
              Cardinality(CallsOf(p, k)) + 1 <= Cardinality(CallsOf(p \o q, k))
  <1> DEFINE P == CallsOf(p, k)
             Q == CallsOf(p \o q, k)
  <1>1. \A s \in Seq(Key) : IsFiniteSet(CallsOf(s, k)) /\ Cardinality(CallsOf(s, k)) \in Nat
    <2> TAKE s \in Seq(Key)
    <2>1. CallsOf(s, k) \in SUBSET (1..Len(s)) /\ Len(s) \in Nat
      BY DEF CallsOf
    <2> QED BY <2>1, BoundedIsFinite
  <1>2. PICK l \in Nat : l = Len(p) /\ DOMAIN p = 1..l
    OBVIOUS
  <1>3. PICK n \in Nat : n = Len(q) /\ DOMAIN q = 1..n
    OBVIOUS
  <1>4. /\ p \o q \in Seq(Key) /\ Len(p \o q) = l + n
        /\ \A i \in 1..l + n : (p \o q)[i] = IF i <= l THEN p[i] ELSE q[i - l]
    BY <1>2, <1>3, ConcatProperties
  <1>5. DOMAIN (p \o q) = 1..l + n
    BY <1>4
  <1>6. \A i \in 1..l : i \in 1..l + n /\ (p \o q)[i] = p[i]
    BY <1>4
  <1>7. \A i \in 1..n : l + i \in 1..l + n /\ l + i > l /\ (p \o q)[l + i] = q[i]
    <2> TAKE i \in 1..n
    <2>1. l + i \in 1..l + n /\ l + i > l /\ (l + i) - l = i
      OBVIOUS
    <2> QED BY <1>4, <2>1
  <1>8. P \in SUBSET Q
    BY <1>2, <1>5, <1>6 DEF CallsOf
  <1>9. Cardinality(P) <= Cardinality(Q)
    BY <1>1, <1>4, <1>8, FS_Subset
  <1>10. ASSUME NEW i \in 1..n, q[i] = k
         PROVE  Cardinality(P) + 1 <= Cardinality(Q)
    <2> DEFINE R == P \cup {l + i}
    <2>1. l + i \notin P
      BY <1>2, <1>7 DEF CallsOf
    <2>2. IsFiniteSet(R) /\ Cardinality(R) = Cardinality(P) + 1
      BY <1>1, <2>1, FS_AddElement
    <2>3. R \in SUBSET Q
      BY <1>5, <1>7, <1>8, <1>10 DEF CallsOf
    <2>4. Cardinality(R) <= Cardinality(Q)
      BY <1>1, <1>4, <2>3, FS_Subset
    <2> QED BY <2>2, <2>4
  <1> QED BY <1>1, <1>3, <1>9, <1>10

LEMMA RepeatsStep == LoopInv /\ [Next]_vars => RepeatsCounted'
  <1> SUFFICES ASSUME TypeOK, RepeatsCounted, [Next]_vars, NEW k \in Key
               PROVE  /\ Cardinality(EarlierTurns(k)') <= Cardinality(CallsOf(prior, k)')
                      /\ Cardinality(ran'[k]) <= RepeatThreshold
                      /\ at' \in {"sent", "resent"} => iterations' \notin ran'[k]
                      /\ at' = "tools" /\ iterations' \in ran'[k] =>
                           \E i \in DOMAIN asked' : asked'[i] = k
    BY DEF LoopInv, RepeatsCounted
  <1> DEFINE Goal == /\ Cardinality(EarlierTurns(k)') <= Cardinality(CallsOf(prior, k)')
                     /\ Cardinality(ran'[k]) <= RepeatThreshold
                     /\ at' \in {"sent", "resent"} => iterations' \notin ran'[k]
                     /\ at' = "tools" /\ iterations' \in ran'[k] =>
                          \E i \in DOMAIN asked' : asked'[i] = k
  <1>1. /\ Cardinality(EarlierTurns(k)) <= Cardinality(CallsOf(prior, k))
        /\ Cardinality(ran[k]) <= RepeatThreshold
        /\ at \in {"sent", "resent"} => iterations \notin ran[k]
        /\ at = "tools" /\ iterations \in ran[k] => \E i \in DOMAIN asked : asked[i] = k
    BY DEF RepeatsCounted
  <1>2. /\ IsFiniteSet(ran[k]) /\ Cardinality(ran[k]) \in Nat
        /\ IsFiniteSet(EarlierTurns(k)) /\ Cardinality(EarlierTurns(k)) \in Nat
        /\ ran[k] \in SUBSET (1..iterations)
    <2>1. ran[k] \in SUBSET (1..iterations) /\ iterations \in Nat
      BY DEF TypeOK
    <2>2. IsFiniteSet(ran[k])
      BY <2>1, BoundedIsFinite
    <2>3. IsFiniteSet(EarlierTurns(k))
      BY <2>2, FS_RemoveElement DEF EarlierTurns
    <2> QED BY <2>1, <2>2, <2>3, FS_CardinalityType
  <1>3. CASE UNCHANGED <<ran, prior>> /\ at # "tools" /\ at' # "tools"
    <2>1. /\ EarlierTurns(k)' = EarlierTurns(k) /\ CallsOf(prior, k)' = CallsOf(prior, k)
          /\ ran'[k] = ran[k]
      BY <1>3 DEF EarlierTurns, CallsOf
    <2>2. at' \in {"sent", "resent"} => iterations' \notin ran'[k]
      <3>1. CASE BeginTurn
        <4>1. iterations' = iterations + 1 /\ iterations \in Nat
          BY <3>1 DEF BeginTurn, TypeOK
        <4>2. iterations' \notin 1..iterations
          BY <4>1
        <4> QED BY <1>2, <2>1, <4>2
      <3>2. CASE Overflow
        BY <1>1, <2>1, <3>2 DEF Overflow
      <3>3. CASE UNCHANGED vars
        BY <1>1, <2>1, <3>3 DEF vars
      <3>4. CASE ~(BeginTurn \/ Overflow \/ UNCHANGED vars)
        <4>1. StopAtCeiling \/ Answer \/ UpstreamFails
          <5>1. at # "tools" /\ at' # "tools"
            BY <1>3
          <5>2. \A i \in running : ~Return(i)
            BY <5>1 DEF TypeOK
          <5> QED BY <3>4, <5>1, <5>2 DEF Next, AskForTools, StartGroup, EndTurn
        <4> QED BY <4>1 DEF StopAtCeiling, Answer, UpstreamFails, Done, Cancelled
      <3> QED BY <3>1, <3>2, <3>3, <3>4
    <2> QED BY <1>1, <1>3, <2>1, <2>2
  <1>4. CASE AskForTools
    <2>1. ran' = ran /\ prior' = prior /\ iterations' = iterations /\ at' = "tools"
      BY <1>4 DEF AskForTools
    <2>2. iterations \notin ran[k] /\ at # "tools"
      BY <1>1, <1>4 DEF AskForTools, Waiting
    <2>3. EarlierTurns(k)' = ran[k] /\ EarlierTurns(k) = ran[k]
      BY <2>1, <2>2 DEF EarlierTurns
    <2>4. CallsOf(prior, k)' = CallsOf(prior, k)
      BY <2>1 DEF CallsOf
    <2> QED BY <1>1, <2>1, <2>2, <2>3, <2>4
  <1>5. CASE UNCHANGED <<ran, prior, asked, iterations>> /\ at = "tools" /\ at' = "tools"
    <2>1. EarlierTurns(k)' = EarlierTurns(k) /\ CallsOf(prior, k)' = CallsOf(prior, k)
      BY <1>5 DEF EarlierTurns, CallsOf
    <2> QED BY <1>1, <1>5, <2>1
  <1>6. CASE EndTurn
    <2>1. /\ ran' = ran /\ prior' = prior \o asked /\ at = "tools"
          /\ at' \notin {"tools", "sent", "resent"}
      BY <1>6 DEF EndTurn, Cancelled
    <2>2. EarlierTurns(k)' = ran[k] /\ EarlierTurns(k) = ran[k] \ {iterations}
      BY <2>1 DEF EarlierTurns
    <2>3. CallsOf(prior, k)' = CallsOf(prior \o asked, k)
      BY <2>1 DEF CallsOf
    <2>4. prior \in Seq(Key) /\ asked \in Seq(Key) /\ prior \o asked \in Seq(Key)
      BY DEF TypeOK
    <2>5. /\ Cardinality(CallsOf(prior, k)) \in Nat
          /\ Cardinality(CallsOf(prior \o asked, k)) \in Nat
          /\ Cardinality(CallsOf(prior, k)) <= Cardinality(CallsOf(prior \o asked, k))
          /\ (\E i \in DOMAIN asked : asked[i] = k) =>
               Cardinality(CallsOf(prior, k)) + 1 <= Cardinality(CallsOf(prior \o asked, k))
      BY <2>4, CallsFacts
    <2>6. Cardinality(ran[k]) <= Cardinality(CallsOf(prior \o asked, k))
      <3>1. CASE iterations \in ran[k]
        <4>1. Cardinality(EarlierTurns(k)) = Cardinality(ran[k]) - 1
          BY <1>2, <2>2, <3>1, FS_RemoveElement
        <4> QED BY <1>1, <1>2, <2>1, <2>5, <3>1, <4>1
      <3>2. CASE iterations \notin ran[k]
        <4>1. EarlierTurns(k) = ran[k]
          BY <2>2, <3>2
        <4> QED BY <1>1, <1>2, <2>5, <4>1
      <3> QED BY <3>1, <3>2
    <2> QED BY <1>1, <2>1, <2>2, <2>3, <2>6
  <1>7. ASSUME NEW i \in running, Return(i) PROVE Goal
    <2>1. at = "tools" /\ i \in DOMAIN asked
      BY DEF TypeOK
    <2>2. /\ at' = at /\ prior' = prior /\ asked' = asked /\ iterations' = iterations
          /\ ran' = IF TooOften(asked[i]) THEN ran
                    ELSE [ran EXCEPT ![asked[i]] = @ \cup {iterations}]
      BY <1>7 DEF Return
    <2>3. CallsOf(prior, k)' = CallsOf(prior, k)
      BY <2>2 DEF CallsOf
    <2>4. CASE ran'[k] = ran[k]
      <3>1. EarlierTurns(k)' = EarlierTurns(k)
        BY <2>1, <2>2, <2>4 DEF EarlierTurns
      <3> QED BY <1>1, <2>1, <2>2, <2>3, <2>4, <3>1
    <2>5. CASE /\ asked[i] = k /\ ~TooOften(k)
               /\ ran'[k] = ran[k] \cup {iterations}
      <3>1. EarlierTurns(k)' = EarlierTurns(k)
        BY <2>1, <2>2, <2>5 DEF EarlierTurns
      <3>2. Cardinality(CallsOf(prior, k)) < RepeatThreshold
        <4>1. Cardinality(CallsOf(prior, k)) \in Nat
          BY CallsFacts DEF TypeOK
        <4> QED BY <2>5, <4>1, LoopAssumption DEF TooOften, CallsOf
      <3>3. ran'[k] = EarlierTurns(k) \cup {iterations}
        BY <2>1, <2>5 DEF EarlierTurns
      <3>4. Cardinality(ran'[k]) <= Cardinality(EarlierTurns(k)) + 1
        <4> DEFINE E == EarlierTurns(k)
        <4>1. IsFiniteSet(E) /\ Cardinality(E) \in Nat
          BY <1>2
        <4> HIDE DEF E
        <4>2. \/ Cardinality(E \cup {iterations}) = Cardinality(E)
              \/ Cardinality(E \cup {iterations}) = Cardinality(E) + 1
          BY <4>1, FS_AddElement
        <4>3. Cardinality(E \cup {iterations}) <= Cardinality(E) + 1
          BY <4>1, <4>2
        <4> QED BY <3>3, <4>3 DEF E
      <3>5. /\ Cardinality(ran'[k]) \in Nat
            /\ Cardinality(CallsOf(prior, k)) \in Nat
        BY <1>2, <3>3, FS_AddElement, FS_CardinalityType, CallsFacts DEF TypeOK
      <3>6. Cardinality(ran'[k]) <= RepeatThreshold
        BY <1>1, <1>2, <3>2, <3>4, <3>5, LoopAssumption
      <3>7. \E j \in DOMAIN asked' : asked'[j] = k
        BY <2>1, <2>2, <2>5
      <3> QED BY <1>1, <2>1, <2>2, <2>3, <3>1, <3>6, <3>7
    <2> QED BY <2>2, <2>4, <2>5 DEF TypeOK
  <1>8. CASE UNCHANGED vars
    BY <1>3, <1>5, <1>8 DEF vars
  <1>9. CASE StopAtCeiling \/ BeginTurn \/ Answer \/ UpstreamFails \/ Overflow
    <2>1. UNCHANGED <<ran, prior>> /\ at # "tools" /\ at' # "tools"
      BY <1>9 DEF StopAtCeiling, BeginTurn, Answer, UpstreamFails, Overflow,
                  Done, Cancelled, Waiting
    <2> QED BY <1>3, <2>1
  <1>10. CASE StartGroup
    BY <1>5, <1>10 DEF StartGroup
  <1> QED BY <1>4, <1>6, <1>7, <1>8, <1>9, <1>10 DEF Next
-----------------------------------------------------------------------------
(* The theorems.                                                           *)

\* Types and the counts that every other result rests on: in every state the
\* invariant holds.
THEOREM LoopInvariant == Spec => []LoopInv
  <1>1. LoopInv /\ [Next]_vars => LoopInv'
    BY TypeStep, GroupStep, RepeatsStep DEF LoopInv
  <1> QED BY LoopInit, <1>1, PTL DEF Spec

\* Tool calls of one turn overlap only when they are safe to, up to the limit,
\* and one that is not is started when all before it returned (loop.go,
\* executeTools).
THEOREM BarriersHold == Spec => []WritesAreBarriers
  <1>1. LoopInv => WritesAreBarriers
    <2> SUFFICES ASSUME TypeOK, OneGroup PROVE WritesAreBarriers
      BY DEF LoopInv
    <2>1. ASSUME NEW i \in running, asked[i] \notin Safe, NEW j \in DOMAIN asked \ {i}
          PROVE  IF j < i THEN j \in DOMAIN results ELSE j >= next
      <3>1. running = {i} /\ next = i + 1
        BY <2>1 DEF OneGroup
      <3>2. i \in Nat /\ j \in Nat /\ j >= 1 /\ DOMAIN results = (1..next - 1) \ running
        BY DEF TypeOK
      <3> QED BY <3>1, <3>2
    <2> QED BY <2>1 DEF WritesAreBarriers, OneGroup
  <1> QED BY LoopInvariant, <1>1, PTL

\* The repeat-tool guard lets an identical call through in RepeatThreshold turns
\* of a request at most, whatever calls come between (builtin.go, RepeatTool).
THEOREM RepeatsAreBounded == Spec => []RepeatsStop
  <1>1. LoopInv => RepeatsStop
    BY DEF LoopInv, RepeatsCounted, RepeatsStop
  <1> QED BY LoopInvariant, <1>1, PTL

\* No step of the loop, a compaction included, touches the prompt, or the task
\* when it comes first.
THEOREM PromptAndTaskSurvive == Spec => PromptAndTaskKept
  <1>1. ASSUME LoopInv, [Next]_vars
        PROVE  /\ history'[1] = history[1]
               /\ history[2].role = "user" => history'[2] = history[2]
    <2>1. Conversation(history) /\ Conversation(history')
      BY <1>1, TypeStep DEF LoopInv, TypeOK
    <2>2. history'[1] = history[1]
      BY <2>1 DEF Conversation
    <2>3. ASSUME history[2].role = "user" PROVE history'[2] = history[2]
      <3>1. CASE UNCHANGED history
        BY <3>1
      <3>2. CASE BeginTurn \/ Overflow
        <4>1. \/ history' = history
              \/ \E answered \in BOOLEAN : history' = Maybe(history, answered)
              \/ \E answered \in BOOLEAN : history' = ForceCompaction(history, answered)
          BY <3>2 DEF BeginTurn, Overflow
        <4> QED BY <2>1, <2>3, <4>1, MaybeFacts, CompactionFacts
      <3>3. CASE Answer \/ AskForTools
        <4>1. PICK m : history' = Append(history, m)
          BY <3>3 DEF Answer, AskForTools
        <4> QED BY <2>1, <4>1 DEF Conversation
      <3>4. CASE EndTurn
        <4>1. history' = history \o results /\ results \in Seq(Message)
          BY <1>1, <3>4, AllResults DEF EndTurn, LoopInv
        <4>2. history \in Seq(Message) /\ Len(history) >= 2
          BY <2>1 DEF Conversation
        <4> QED BY <4>1, <4>2, JoinedFacts
      <3> QED BY <1>1, <3>1, <3>2, <3>3, <3>4
              DEF Next, vars, StopAtCeiling, UpstreamFails, StartGroup, Return
    <2> QED BY <2>2, <2>3
  <1> QED BY LoopInvariant, <1>1, PTL DEF Spec, PromptAndTaskKept
-----------------------------------------------------------------------------
(* Requests.  The loop takes the messages of its client as they are, so its *)
(* requests pair calls and results if those messages do.                    *)

LEMMA PairedStep == LoopInv /\ PairedSoFar /\ [Next]_vars => PairedSoFar'
  <1> SUFFICES ASSUME TypeOK, ResultsFit, PairedSoFar, [Next]_vars PROVE PairedSoFar'
    BY DEF LoopInv
  <1>1. Conversation(history) /\ history \in Seq(Message)
    BY DEF TypeOK, Conversation
  <1>2. CASE BeginTurn
    <2>1. Paired(history) /\ at' \in {"sent", "done"}
      BY <1>2 DEF BeginTurn, Cancelled, PairedSoFar
    <2>2. at' = "sent" => \E answered \in BOOLEAN : history' = Maybe(history, answered)
      BY <1>2 DEF BeginTurn, Cancelled
    <2> QED BY <1>1, <2>1, <2>2, MaybeFacts DEF PairedSoFar
  <1>3. CASE Overflow
    <2>1. Paired(history) /\ at' \in {"resent", "done", "failed"}
      BY <1>3 DEF Overflow, Cancelled, PairedSoFar
    <2>2. at' = "resent" =>
            \E answered \in BOOLEAN : history' = ForceCompaction(history, answered)
      BY <1>3 DEF Overflow, Cancelled
    <2> QED BY <1>1, <2>1, <2>2, CompactionFacts DEF PairedSoFar
  <1>4. CASE AskForTools
    <2>0. PICK n \in 1..MaxCalls[iterations] : \E calls \in [1..n -> Key] :
            /\ asked' = calls
            /\ history' = Append(history, [Msg("assistant", "talk", 1)
                                             EXCEPT !.calls = calls])
      BY <1>4 DEF AskForTools
    <2>1. PICK calls \in [1..n -> Key] :
            /\ asked' = calls
            /\ history' = Append(history, [Msg("assistant", "talk", 1)
                                             EXCEPT !.calls = calls])
      BY <2>0
    <2> DEFINE m == [Msg("assistant", "talk", 1) EXCEPT !.calls = calls]
    <2>2. calls \in Seq(Key)
      BY <1>4, LoopAssumption DEF AskForTools, Waiting, TypeOK
    <2>3. m \in Message /\ m.role = "assistant" /\ m.calls = calls
      BY <2>2 DEF Msg, Message, Role, Text
    <2>4. Paired(history) /\ at' = "tools"
      BY <1>4 DEF AskForTools, Waiting, PairedSoFar
    <2> QED BY <1>1, <2>1, <2>3, <2>4 DEF PairedSoFar
  <1>5. CASE EndTurn
    <2>1. /\ results \in Seq(Message) /\ Len(results) = Len(asked)
          /\ \A i \in 1..Len(asked) :
               /\ results[i].role = "tool" /\ results[i].answers = i
               /\ results[i].calls = <<>>
      BY <1>5, AllResults DEF EndTurn
    <2>2. PICK front \in Seq(Message), m \in Message :
            /\ history = Append(front, m) /\ Paired(front)
            /\ m.role = "assistant" /\ m.calls = asked
      BY <1>5 DEF EndTurn, PairedSoFar
    <2>3. Paired(Append(front, m) \o results)
      BY <2>1, <2>2, TurnKeepsPairs
    <2>4. history' = Append(front, m) \o results /\ at' # "tools"
      BY <1>5, <2>2 DEF EndTurn, Cancelled
    <2> QED BY <2>3, <2>4 DEF PairedSoFar
  <1>6. CASE StopAtCeiling \/ Answer \/ UpstreamFails
    BY <1>6 DEF StopAtCeiling, Answer, UpstreamFails, Done, Cancelled, PairedSoFar
  <1>7. CASE UNCHANGED <<history, at, asked>>
    BY <1>7 DEF PairedSoFar
  <1> QED BY <1>2, <1>3, <1>4, <1>5, <1>6, <1>7 DEF Next, vars, StartGroup, Return

\* For clients whose own calls are answered, every request the loop sends pairs
\* calls and results, whatever was compacted and however parallel calls returned
\* (loop.go; compact.go, retainIndex).
THEOREM EveryRequestIsAnswered ==
  ASSUME \A c \in Conversations : Paired(c)
  PROVE  Spec => []RequestsAnswered
  <1>1. Init => PairedSoFar
    <2> SUFFICES ASSUME Init PROVE Paired(history) /\ at = "begin"
      BY DEF PairedSoFar
    <2>1. PICK c \in Conversations : history = <<Prompt>> \o c
      BY DEF Init
    <2>2. c \in Seq(Message) /\ c # <<>>
      BY LoopAssumption
    <2> QED BY <2>1, <2>2, PromptKeepsPairs DEF Init
  <1>2. Spec => []PairedSoFar
    BY <1>1, PairedStep, LoopInvariant, PTL DEF Spec
  <1>3. PairedSoFar => RequestsAnswered
    BY DEF PairedSoFar, RequestsAnswered, Waiting, Paired
  <1> QED BY <1>2, <1>3, PTL
-----------------------------------------------------------------------------
(* Upstream: the operators.                                                *)

LEMMA AppendSet ==
  ASSUME NEW S, NEW s \in Seq(S), NEW x \in S
  PROVE  /\ Append(s, x) \in Seq(S)
         /\ Len(Append(s, x)) = Len(s) + 1
         /\ ToSet(Append(s, x)) = ToSet(s) \cup {x}
  <1>1. \A i \in DOMAIN Append(s, x) : Append(s, x)[i] \in ToSet(s) \cup {x}
    BY DEF ToSet
  <1>2. \A i \in DOMAIN s : i \in DOMAIN Append(s, x) /\ Append(s, x)[i] = s[i]
    OBVIOUS
  <1>3. /\ Len(s) + 1 \in DOMAIN Append(s, x)
        /\ Append(s, x)[Len(s) + 1] = x
    OBVIOUS
  <1>4. ToSet(s) \cup {x} \subseteq ToSet(Append(s, x))
    BY <1>2, <1>3 DEF ToSet
  <1>5. ToSet(Append(s, x)) \subseteq ToSet(s) \cup {x}
    BY <1>1 DEF ToSet
  <1> QED BY <1>4, <1>5

\* What profile p lets through, but for the schemas of tools.
Permits(p) ==
  {p.tokens, p.role}
    \cup {f \in {"parallel_tool_calls"} : p.parallel}
    \cup {f \in {"temperature"} : p.sampling}
    \cup {f \in {"strict"} : p.strict}

LEMMA BodyPermitted ==
  ASSUME NEW p, NEW r
  PROVE  Body(p, r) \subseteq Permits(p) \cup {"anyOf"}
  BY DEF Body, Permits

LEMMA FixedType ==
  ASSUME NEW p \in Profile, NEW f \in Feature
  PROVE  Fixed(p, f) \in Profile
  BY DEF Profile, Feature, Fixed, Opposite, TokenField, RoleName

\* A fix takes away what was complained about and brings at most its opposite.
LEMMA FixedPermits ==
  ASSUME NEW p \in Profile, NEW f \in Feature, NEW g \in Permits(Fixed(p, f))
  PROVE  /\ g # f
         /\ g \in Permits(p) \/ (f \in DOMAIN Opposite /\ g = Opposite[f])
  <1>1. /\ Fixed(p, f).tokens # f
        /\ \/ Fixed(p, f).tokens = p.tokens
           \/ f \in DOMAIN Opposite /\ Fixed(p, f).tokens = Opposite[f]
    BY DEF Profile, Fixed, Opposite, TokenField
  <1>2. /\ Fixed(p, f).role # f
        /\ \/ Fixed(p, f).role = p.role
           \/ f \in DOMAIN Opposite /\ Fixed(p, f).role = Opposite[f]
    BY DEF Profile, Feature, Fixed, Opposite, RoleName
  <1>3. /\ Fixed(p, f).parallel => p.parallel /\ f # "parallel_tool_calls"
        /\ Fixed(p, f).sampling => p.sampling /\ f # "temperature"
        /\ Fixed(p, f).strict => p.strict /\ f # "strict"
    BY DEF Fixed
  <1> DEFINE q == Fixed(p, f)
  <1>4. \/ g = q.tokens \/ g = q.role
        \/ g = "parallel_tool_calls" /\ q.parallel
        \/ g = "temperature" /\ q.sampling
        \/ g = "strict" /\ q.strict
    BY DEF Permits
  <1> HIDE DEF q
  <1> QED BY <1>1, <1>2, <1>3, <1>4 DEF q, Permits

LEMMA OppositeTwice ==
  ASSUME NEW f \in DOMAIN Opposite
  PROVE  Opposite[f] \in DOMAIN Opposite /\ Opposite[Opposite[f]] = f
  BY DEF Opposite

\* What k rounds of retries may cost.
Charge(k) == (MaxRetries + 1) * k

LEMMA ChargeGrows ==
  ASSUME NEW k \in Nat
  PROVE  /\ Charge(k) \in Nat
         /\ Charge(k + 1) = Charge(k) + MaxRetries + 1
         /\ k <= MaxAutoFixes => Charge(k) + MaxRetries + 1 <= MostSends
  <1>1. MaxRetries \in Nat /\ MaxAutoFixes \in Nat
    BY UpstreamAssumption
  <1>2. Charge(k) \in Nat /\ Charge(k + 1) = Charge(k) + MaxRetries + 1
    BY <1>1 DEF Charge
  <1>3. ASSUME k <= MaxAutoFixes
        PROVE  Charge(k) + MaxRetries + 1 <= MostSends
    BY <1>1, <1>3 DEF Charge, MostSends
  <1> QED BY <1>2, <1>3

LEMMA ChargeMonotone ==
  ASSUME NEW j \in Nat, NEW k \in Nat, j <= k
  PROVE  Charge(j) <= Charge(k)
  BY UpstreamAssumption DEF Charge
-----------------------------------------------------------------------------
(* The inductive invariant.                                                *)

Capped == \A m \in Named : Len(applied[m]) <= MaxAutoFixes

\* A fix that was adopted is in force, unless the opposite one was too.
InForce ==
  \A m \in Named : \A f \in ToSet(applied[m]) \cap Permits(learned[m]) :
    f \in DOMAIN Opposite /\ Opposite[f] \in ToSet(applied[m])

\* Every fix adopted for a model pays for one round of retries of each call
\* that asks for the model.
Charged(c) ==
  LET paid == Charge(Len(applied[call[c].request.model]))
  IN  /\ sends[c] <= MostSends
      /\ At(c, "idle") => sends[c] = 0
      /\ At(c, "ready") => sends[c] <= paid
      /\ At(c, "sent") \/ At(c, "rejected") =>
           sends[c] <= paid + call[c].attempt + 1
      /\ At(c, "waiting") => sends[c] <= paid + call[c].attempt

Complains(c) ==
  At(c, "rejected") \/ At(c, "failed") => call[c].complaint \in Feature

ClientOK ==
  /\ ClientTypeOK /\ Capped /\ InForce
  /\ \A c \in Call : Charged(c) /\ Complains(c)

LEMMA CallTypes ==
  ASSUME ClientTypeOK, NEW c \in Call, ~At(c, "idle"), ~At(c, "over")
  PROVE  /\ call[c] \in Live
         /\ call[c].request \in Request
         /\ call[c].request.model \in Named
         /\ learned[call[c].request.model] \in Profile
         /\ applied[call[c].request.model] \in Seq(Feature)
         /\ Len(applied[call[c].request.model]) \in Nat
         /\ call[c].attempt \in 0..MaxRetries
         /\ sends[c] \in Nat
  <1>1. call[c] \in Live
    BY DEF ClientTypeOK, At, Idle, Over
  <1>2. call[c].request \in Request /\ call[c].request.model \in Named
    BY <1>1 DEF Live, Request, Named
  <1> QED BY <1>1, <1>2 DEF ClientTypeOK, Live

LEMMA ClientInitOK == ClientInit => ClientOK
  <1> SUFFICES ASSUME ClientInit PROVE ClientOK
    OBVIOUS
  <1>1. ClientTypeOK
    BY UpstreamAssumption DEF ClientInit, ClientTypeOK, Named
  <1>2. Capped
    BY UpstreamAssumption DEF ClientInit, Capped
  <1>3. InForce
    BY DEF ClientInit, InForce, ToSet
  <1>4. MostSends \in Nat
    BY UpstreamAssumption DEF MostSends
  <1>5. \A c \in Call : Charged(c) /\ Complains(c)
    BY <1>4 DEF ClientInit, Charged, Complains, At, Idle
  <1> QED BY <1>1, <1>2, <1>3, <1>5 DEF ClientOK

\* A call that takes no step, while others may adopt fixes.
LEMMA Bystander ==
  ASSUME ClientTypeOK, NEW c \in Call, Charged(c), Complains(c),
         call'[c] = call[c], sends'[c] = sends[c],
         \A m \in Named : /\ Len(applied'[m]) \in Nat
                          /\ Len(applied[m]) <= Len(applied'[m])
  PROVE  Charged(c)' /\ Complains(c)'
  <1> DEFINE m == call[c].request.model
  <1>1. CASE At(c, "idle") \/ At(c, "over")
    BY <1>1 DEF Charged, Complains, At
  <1>2. CASE ~At(c, "idle") /\ ~At(c, "over")
    <2>1. m \in Named /\ Len(applied[m]) \in Nat /\ sends[c] \in Nat
          /\ call[c].attempt \in Nat
      BY <1>2, CallTypes, UpstreamAssumption
    <2>2. Charge(Len(applied[m])) <= Charge(Len(applied'[m]))
          /\ Charge(Len(applied[m])) \in Nat /\ Charge(Len(applied'[m])) \in Nat
      BY <2>1, ChargeGrows, ChargeMonotone
    <2>3. Charged(c)'
      BY <2>1, <2>2 DEF Charged, At
    <2>4. Complains(c)'
      BY DEF Complains, At
    <2> QED BY <2>3, <2>4
  <1> QED BY <1>1, <1>2

\* A step of c that learns nothing.
LEMMA QuietStep ==
  ASSUME ClientOK, NEW c \in Call, UNCHANGED <<applied, learned>>, ClientTypeOK',
         \A d \in Call \ {c} : call'[d] = call[d] /\ sends'[d] = sends[d],
         Charged(c)', Complains(c)'
  PROVE  ClientOK'
  <1>1. Capped' /\ InForce'
    BY DEF ClientOK, Capped, InForce
  <1>2. ASSUME NEW d \in Call, d # c PROVE Charged(d)' /\ Complains(d)'
    <2>1. \A m \in Named : Len(applied[m]) \in Nat
      BY DEF ClientOK, ClientTypeOK
    <2> QED BY <1>1, <1>2, <2>1, Bystander DEF ClientOK
  <1> QED BY <1>1, <1>2 DEF ClientOK

LEMMA BeginKeeps ==
  ASSUME ClientOK, NEW c \in Call, NEW r \in AgentRequest \cup {Summary}, Begin(c, r)
  PROVE  ClientOK'
  <1>1. r \in Request
    BY UpstreamAssumption DEF Request, Summary
  <1>2. [at |-> "ready", request |-> r, profile |-> Configured,
         attempt |-> 0, complaint |-> "none"] \in Live
    BY <1>1, UpstreamAssumption DEF Live
  <1>3. ClientTypeOK'
    BY <1>2 DEF ClientOK, ClientTypeOK, Begin
  <1>4. At(c, "ready")' /\ sends'[c] = 0 /\ call'[c].request = r
    BY DEF ClientOK, Begin, At, ClientTypeOK, Charged
  <1>5. Len(applied[r.model]) \in Nat
    BY <1>1 DEF ClientOK, ClientTypeOK, Request, Named
  <1>6. Charged(c)' /\ Complains(c)'
    <2>1. MostSends \in Nat
      BY UpstreamAssumption DEF MostSends
    <2>2. Charge(Len(applied'[r.model])) \in Nat
      BY <1>5, ChargeGrows DEF Begin
    <2>3. Charged(c)'
      BY <1>4, <2>1, <2>2 DEF Charged, At
    <2>4. Complains(c)'
      BY <1>4 DEF Complains, At
    <2> QED BY <2>3, <2>4
  <1> QED BY <1>3, <1>6, QuietStep DEF Begin, ClientOK, ClientTypeOK

LEMMA SendingKeeps ==
  ASSUME ClientOK, NEW c \in Call, Shape(c) \/ Retry(c)
  PROVE  ClientOK'
  <1> DEFINE m == call[c].request.model
             paid == Charge(Len(applied[m]))
  <1>1. /\ call[c] \in Live /\ m \in Named /\ learned[m] \in Profile
        /\ Len(applied[m]) \in Nat /\ call[c].attempt \in 0..MaxRetries
        /\ sends[c] \in Nat
    BY CallTypes DEF ClientOK, Shape, Retry, At
  <1>2. MostSends \in Nat /\ MaxRetries \in Nat
    BY UpstreamAssumption DEF MostSends
  <1>3. sends'[c] \in Nat /\ sends'[c] <= sends[c] + 1
        /\ sends' \in [Call -> Nat]
        /\ \A d \in Call \ {c} : sends'[d] = sends[d]
    <2>1. Count(c) /\ sends \in [Call -> Nat]
      BY DEF Shape, Retry, ClientOK, ClientTypeOK
    <2> DEFINE more == IF sends[c] <= MostSends THEN sends[c] + 1 ELSE sends[c]
    <2>2. more \in Nat /\ more <= sends[c] + 1
      BY <1>1
    <2>3. sends' = [sends EXCEPT ![c] = more]
      BY <2>1 DEF Count
    <2> HIDE DEF more
    <2> QED BY <2>1, <2>2, <2>3
  <1>4. /\ call'[c] \in Live /\ At(c, "sent")'
        /\ call'[c].request = call[c].request
        /\ call'[c].attempt \in 0..MaxRetries
        /\ call' = [call EXCEPT ![c] = call'[c]]
    <2>1. CASE Shape(c)
      <3> DEFINE new == [at |-> "sent", request |-> call[c].request,
                         profile |-> learned[m], attempt |-> 0,
                         complaint |-> "none"]
      <3>1. new \in Live
        BY <1>1, <1>2 DEF Live
      <3>2. call' = [call EXCEPT ![c] = new]
        BY <2>1 DEF Shape
      <3>3. call'[c] = new
        BY <3>2 DEF ClientOK, ClientTypeOK
      <3>4. /\ new.at = "sent" /\ new.request = call[c].request
            /\ new.attempt \in 0..MaxRetries
        BY <1>2
      <3> HIDE DEF new
      <3> QED BY <3>1, <3>2, <3>3, <3>4 DEF At
    <2>2. CASE Retry(c)
      BY <1>1, <1>2, <2>2 DEF Retry, Goes, Live, At, ClientOK, ClientTypeOK
    <2> QED BY <2>1, <2>2
  <1>5. ClientTypeOK'
    BY <1>3, <1>4 DEF ClientOK, ClientTypeOK, Shape, Retry
  <1>6. sends[c] <= paid + call'[c].attempt
    <2>1. CASE Shape(c)
      BY <2>1, <1>1, <1>2, ChargeGrows DEF ClientOK, Charged, Shape, ClientTypeOK
    <2>2. CASE Retry(c)
      BY <2>2 DEF ClientOK, Charged, Retry, Goes, ClientTypeOK
    <2> QED BY <2>1, <2>2
  <1>7. paid \in Nat /\ paid + MaxRetries + 1 <= MostSends
    BY <1>1, ChargeGrows DEF ClientOK, Capped
  <1>8. UNCHANGED <<applied, learned>>
    BY DEF Shape, Retry
  <1>9. Charged(c)'
    BY <1>1, <1>2, <1>3, <1>4, <1>6, <1>7, <1>8 DEF Charged, At
  <1>10. Complains(c)'
    BY <1>4 DEF Complains, At
  <1> QED
    <2>1. \A d \in Call \ {c} : call'[d] = call[d]
      BY <1>4 DEF ClientOK, ClientTypeOK
    <2> QED BY <1>3, <1>5, <1>8, <1>9, <1>10, <2>1, QuietStep

\* A call that is ready is sent by Shape and by nothing else.
LEMMA OtherSteps ==
  ASSUME ClientOK, ClientNext, NEW c \in Call, At(c, "ready"), At(c, "sent")'
  PROVE  Shape(c)
  <1>1. PICK d \in Call : \/ \E r \in AgentRequest \cup {Summary} : Begin(d, r)
                          \/ Progress(d)
    BY DEF ClientNext
  <1>2. \/ call' = [call EXCEPT ![d] = call'[d]]
    BY <1>1 DEF Progress, Begin, Shape, Accept, Refuse, Fail, Retry, GiveUp, Learn,
                Reject, Ends, Fails, Adopt, Goes, ClientOK, ClientTypeOK
  <1>3. d = c
    BY <1>2 DEF At, ClientOK, ClientTypeOK
  <1> QED BY <1>1, <1>3 DEF Progress, Begin, Accept, Refuse, Fail, Retry, GiveUp,
                Learn, Reject, At

\* A call that ends without a lesson.
LEMMA EndsKeeps ==
  ASSUME ClientOK, NEW c \in Call, Ends(c)
  PROVE  ClientOK'
  <1>1. ClientTypeOK'
    BY DEF ClientOK, ClientTypeOK, Ends
  <1>2. call'[c] = Over /\ sends'[c] = sends[c]
    BY DEF ClientOK, ClientTypeOK, Ends
  <1>3. Charged(c)' /\ Complains(c)'
    BY <1>2 DEF ClientOK, Charged, Complains, At, Over, Ends
  <1> QED BY <1>1, <1>3, QuietStep DEF Ends, ClientOK, ClientTypeOK

LEMMA FailKeeps ==
  ASSUME ClientOK, NEW c \in Call, Fail(c)
  PROVE  ClientOK'
  <1>1. CASE call[c].attempt < MaxRetries
    <2> DEFINE m == call[c].request.model
    <2>1. /\ call[c] \in Live /\ m \in Named /\ Len(applied[m]) \in Nat
          /\ call[c].attempt \in 0..MaxRetries /\ sends[c] \in Nat
      BY CallTypes DEF ClientOK, Fail, At
    <2>2. call' = [call EXCEPT ![c].at = "waiting", ![c].attempt = @ + 1]
      BY <1>1 DEF Fail
    <2>3. /\ call'[c] \in Live /\ At(c, "waiting")'
          /\ call'[c].request = call[c].request
          /\ call'[c].attempt = call[c].attempt + 1
      BY <1>1, <2>1, <2>2, UpstreamAssumption DEF Live, At, ClientOK, ClientTypeOK
    <2>4. ClientTypeOK'
      BY <2>2, <2>3 DEF ClientOK, ClientTypeOK, Fail
    <2>5. Charged(c)'
      <3> DEFINE paid == Charge(Len(applied[m]))
      <3>1. sends[c] <= MostSends /\ sends[c] <= paid + call[c].attempt + 1
        BY DEF ClientOK, Charged, At, Fail
      <3>2. paid \in Nat
        BY <2>1, ChargeGrows
      <3>3. sends'[c] = sends[c] /\ applied' = applied
        BY DEF Fail
      <3> QED BY <2>1, <2>3, <3>1, <3>2, <3>3 DEF Charged, At
    <2>6. Complains(c)'
      BY <2>3 DEF Complains, At
    <2> QED BY <2>2, <2>4, <2>5, <2>6, QuietStep DEF Fail, ClientOK, ClientTypeOK
  <1>2. CASE ~(call[c].attempt < MaxRetries)
    BY <1>2, EndsKeeps DEF Fail, Ends
  <1> QED BY <1>1, <1>2

LEMMA RejectKeeps ==
  ASSUME ClientOK, NEW c \in Call, NEW f \in Feature, Reject(c, f)
  PROVE  ClientOK'
  <1>1. call[c] \in Live
    BY CallTypes DEF ClientOK, Reject, At
  <1>2. /\ call'[c] \in Live /\ At(c, "rejected")'
        /\ call'[c].request = call[c].request
        /\ call'[c].attempt = call[c].attempt
        /\ call'[c].complaint = f
    BY <1>1 DEF Reject, Live, At, ClientOK, ClientTypeOK
  <1>3. ClientTypeOK'
    BY <1>2 DEF ClientOK, ClientTypeOK, Reject
  <1>4. Charged(c)'
    BY <1>2 DEF ClientOK, Charged, At, Reject
  <1>5. Complains(c)'
    BY <1>2 DEF Complains, At
  <1> QED BY <1>3, <1>4, <1>5, QuietStep DEF Reject, ClientOK, ClientTypeOK

\* Nothing is learned from the complaint.
LEMMA UnteachableKeeps ==
  ASSUME ClientOK, NEW c \in Call, At(c, "rejected"), Fails(c)
  PROVE  ClientOK'
  <1> DEFINE m == call[c].request.model
  <1>1. call[c] \in Live /\ m \in Named /\ Len(applied[m]) \in Nat
    BY CallTypes DEF ClientOK, At
  <1>2. /\ call'[c] \in Live /\ At(c, "failed")'
        /\ call'[c].request = call[c].request
        /\ call'[c].complaint = call[c].complaint
    BY <1>1 DEF Fails, Goes, Live, At, ClientOK, ClientTypeOK
  <1>3. ClientTypeOK'
    BY <1>2 DEF ClientOK, ClientTypeOK, Fails, Goes
  <1>4. Charged(c)'
    BY <1>2 DEF ClientOK, Charged, At, Fails
  <1>5. Complains(c)'
    BY <1>2 DEF ClientOK, Complains, At
  <1> QED BY <1>3, <1>4, <1>5, QuietStep DEF Fails, Goes, ClientOK, ClientTypeOK

\* The fix is new: it is put in force and recorded.
LEMMA AdoptKeeps ==
  ASSUME ClientOK, NEW c \in Call, At(c, "rejected"), ~Already(c),
         Len(applied[call[c].request.model]) < MaxAutoFixes,
         Adopt(c, learned[call[c].request.model])
  PROVE  ClientOK'
  <1> DEFINE m == call[c].request.model
             f == call[c].complaint
             q == Fixed(learned[m], f)
             some == Append(applied[m], f)
  <1>1. /\ call[c] \in Live /\ m \in Named /\ learned[m] \in Profile
        /\ applied[m] \in Seq(Feature) /\ Len(applied[m]) \in Nat
        /\ call[c].attempt \in 0..MaxRetries /\ sends[c] \in Nat
    BY CallTypes DEF ClientOK, At
  <1>2. f \in Feature /\ f \notin ToSet(applied[m])
    BY DEF ClientOK, Complains, Already
  <1>3. q \in Profile
    BY <1>1, <1>2, FixedType
  <1>4. /\ some \in Seq(Feature) /\ Len(some) = Len(applied[m]) + 1
        /\ ToSet(some) = ToSet(applied[m]) \cup {f}
    BY <1>1, <1>2, AppendSet
  <1>5. /\ learned' = [learned EXCEPT ![m] = q]
        /\ applied' = [applied EXCEPT ![m] = some]
        /\ call' = [call EXCEPT ![c].at = "ready"]
        /\ UNCHANGED <<rejects, sends>>
    BY DEF Adopt, Goes
  <1>6. /\ call'[c] \in Live /\ At(c, "ready")'
        /\ call'[c].request = call[c].request
        /\ \A d \in Call \ {c} : call'[d] = call[d]
    BY <1>1, <1>5 DEF Live, At, ClientOK, ClientTypeOK
  <1> HIDE DEF q, some
  <1>7. /\ learned'[m] = q /\ applied'[m] = some
        /\ \A n \in Named \ {m} : learned'[n] = learned[n] /\ applied'[n] = applied[n]
    BY <1>1, <1>5 DEF ClientOK, ClientTypeOK
  <1>8. ClientTypeOK'
    <2>1. learned' \in [Named -> Profile] /\ applied' \in [Named -> Seq(Feature)]
      BY <1>3, <1>4, <1>5 DEF ClientOK, ClientTypeOK
    <2>2. call' \in [Call -> Live \cup {Idle, Over}]
      BY <1>5, <1>6 DEF ClientOK, ClientTypeOK
    <2> QED BY <1>5, <2>1, <2>2 DEF ClientOK, ClientTypeOK
  <1>9. Capped'
    BY <1>1, <1>4, <1>7, UpstreamAssumption DEF ClientOK, Capped
  <1>10. InForce'
    <2> SUFFICES ASSUME NEW n \in Named,
                        NEW g \in ToSet(applied'[n]) \cap Permits(learned'[n])
                 PROVE  g \in DOMAIN Opposite /\ Opposite[g] \in ToSet(applied'[n])
      BY DEF InForce, Permits, ToSet
    <2>1. CASE n # m
      BY <1>7, <2>1 DEF ClientOK, InForce
    <2>2. CASE n = m
      <3>1. g \in ToSet(applied[m]) \cup {f} /\ g \in Permits(q)
        BY <1>4, <1>7, <2>2
      <3>2. /\ g # f
            /\ g \in Permits(learned[m]) \/ (f \in DOMAIN Opposite /\ g = Opposite[f])
        BY <1>1, <1>2, <3>1, FixedPermits DEF q
      <3>3. CASE g \in Permits(learned[m])
        BY <1>1, <1>4, <1>7, <2>2, <3>1, <3>2, <3>3 DEF ClientOK, InForce
      <3>4. CASE f \in DOMAIN Opposite /\ g = Opposite[f]
        BY <1>4, <1>7, <2>2, <3>4, OppositeTwice
      <3> QED BY <3>2, <3>3, <3>4
    <2> QED BY <2>1, <2>2
  <1>11. Charged(c)'
    <2> DEFINE paid == Charge(Len(applied[m]))
    <2>1. sends[c] <= MostSends /\ sends[c] <= paid + call[c].attempt + 1
      BY DEF ClientOK, Charged, At
    <2>2. /\ Charge(Len(applied[m]) + 1) = paid + MaxRetries + 1
          /\ paid \in Nat
      BY <1>1, ChargeGrows
    <2>3. sends[c] <= Charge(Len(some))
      BY <1>1, <1>4, <2>1, <2>2, UpstreamAssumption
    <2> QED BY <1>5, <1>6, <1>7, <2>1, <2>3 DEF Charged, At
  <1>12. Complains(c)'
    BY <1>6 DEF Complains, At
  <1>13. ASSUME NEW d \in Call, d # c PROVE Charged(d)' /\ Complains(d)'
    <2>1. \A n \in Named : /\ Len(applied'[n]) \in Nat
                           /\ Len(applied[n]) <= Len(applied'[n])
                           /\ ToSet(applied[n]) \subseteq ToSet(applied'[n])
      <3> SUFFICES ASSUME NEW n \in Named
                   PROVE  /\ Len(applied'[n]) \in Nat
                          /\ Len(applied[n]) <= Len(applied'[n])
                          /\ ToSet(applied[n]) \subseteq ToSet(applied'[n])
        OBVIOUS
      <3>1. Len(applied[n]) \in Nat
        BY DEF ClientOK, ClientTypeOK
      <3> QED BY <1>1, <1>4, <1>7, <3>1
    <2> QED BY <1>5, <1>6, <1>9, <1>13, <2>1, Bystander DEF ClientOK
  <1> QED BY <1>8, <1>9, <1>10, <1>11, <1>12, <1>13 DEF ClientOK

LEMMA ClientInductive == ClientOK /\ [ClientNext]_clientVars => ClientOK'
  <1> SUFFICES ASSUME ClientOK, [ClientNext]_clientVars PROVE ClientOK'
    OBVIOUS
  <1>1. ASSUME NEW c \in Call, Progress(c) PROVE ClientOK'
    <2>1. CASE Shape(c) \/ Retry(c)
      BY <2>1, SendingKeeps
    <2>2. CASE Accept(c) \/ Refuse(c) \/ GiveUp(c)
      BY <2>2, EndsKeeps DEF Accept, Refuse, GiveUp
    <2>3. CASE Fail(c)
      BY <2>3, FailKeeps
    <2>4. ASSUME NEW f \in Feature, Reject(c, f) PROVE ClientOK'
      BY <2>4, RejectKeeps
    <2>5. CASE Learn(c)
      <3>1. Len(applied[call[c].request.model]) \in Nat
        BY <2>5, CallTypes DEF ClientOK, Learn, At
      <3>2. CASE Already(c) \/ Len(applied[call[c].request.model]) >= MaxAutoFixes
        BY <2>5, <3>2, UnteachableKeeps DEF Learn
      <3>3. CASE /\ ~Already(c)
                 /\ Len(applied[call[c].request.model]) < MaxAutoFixes
        BY <2>5, <3>1, <3>3, AdoptKeeps, UpstreamAssumption DEF Learn
      <3> QED BY <3>1, <3>2, <3>3, UpstreamAssumption
    <2> QED BY <1>1, <2>1, <2>2, <2>3, <2>4, <2>5 DEF Progress
  <1>2. ASSUME NEW c \in Call, NEW r \in AgentRequest \cup {Summary}, Begin(c, r)
        PROVE  ClientOK'
    BY <1>2, BeginKeeps
  <1>3. CASE UNCHANGED clientVars
    BY <1>3 DEF clientVars, ClientOK, ClientTypeOK, Capped, InForce, Charged, Complains, At, Already
  <1> QED BY <1>1, <1>2, <1>3 DEF ClientNext

LEMMA ClientInvariance == ClientSpec => []ClientOK
  BY ClientInitOK, ClientInductive, PTL DEF ClientSpec
-----------------------------------------------------------------------------
(* The theorems.                                                           *)

\* The state of the client and of its calls has the types of the code.
THEOREM ClientTypeCorrect == ClientSpec => []ClientTypeOK
  <1>1. ClientOK => ClientTypeOK
    BY DEF ClientOK
  <1> QED BY <1>1, ClientInvariance, PTL

\* A call sends at most (MaxRetries + 1) * (MaxAutoFixes + 1) requests,
\* whatever the provider rejects and however many calls learn at once: each
\* fix adopted for the model pays for one round of retries, and no more than
\* MaxAutoFixes are adopted.
THEOREM SendsAreBounded == ClientSpec => []SendsBounded
  <1>1. ClientOK => SendsBounded
    BY DEF ClientOK, Charged, SendsBounded
  <1> QED BY <1>1, ClientInvariance, PTL

\* What was learned away from a model is in no body shaped later, by any call,
\* unless its replacement was rejected too.
THEOREM LearnedAway == ClientSpec => LearnedStaysAway
  <1> DEFINE Kept(c) ==
        \A f \in ToSet(applied[call[c].request.model]) \cap Sent(c)' :
          \/ /\ f \in DOMAIN Opposite
             /\ Opposite[f] \in ToSet(applied[call[c].request.model])
          \/ f = "anyOf"
  <1>1. ASSUME ClientOK, ClientNext, NEW c \in Call, At(c, "ready"), At(c, "sent")'
        PROVE  Kept(c)
    <2> DEFINE m == call[c].request.model
    <2>1. Shape(c)
      BY <1>1, OtherSteps
    <2>2. call[c] \in Live /\ m \in Named
      BY <1>1, CallTypes DEF ClientOK, At
    <2>3. Sent(c)' = Body(learned[m], call[c].request)
      BY <2>1, <2>2, <1>1 DEF Shape, Sent, ClientOK, ClientTypeOK
    <2>4. Sent(c)' \subseteq Permits(learned[m]) \cup {"anyOf"}
      BY <2>3, BodyPermitted
    <2> QED BY <1>1, <2>2, <2>4 DEF ClientOK, InForce
  <1>2. ClientOK /\ [ClientNext]_clientVars =>
          [\A c \in Call : At(c, "ready") /\ At(c, "sent")' => Kept(c)]_clientVars
    BY <1>1
  <1> QED BY <1>2, ClientInvariance, PTL DEF ClientSpec, LearnedStaysAway
=============================================================================
