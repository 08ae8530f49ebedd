--------------------------- MODULE ProviderStream ---------------------------
(***************************************************************************)
(* A streamed completion from a provider to the assembled response         *)
(* (Stream.Recv of internal/upstream/sse.go, over StreamDecoder and        *)
(* StreamAccumulator).  The provider says chunks in a framing and a style  *)
(* of its own, and the connection may be cut anywhere, in a line or        *)
(* between lines.                                                          *)
(***************************************************************************)
EXTENDS StreamDecoder, StreamAccumulator

CONSTANTS
  ToolCall,   \* tool calls, which are their own ids
  Position,   \* Position[c]: the index the provider gives call c
  Styles,     \* how the provider names calls
  MaxChunks,  \* bound: chunks
  MaxFiller   \* bound: comments, fields and blank lines between them

Style == {"indexed", "repeating", "nameless", "zero_omitted", "by_id", "bare"}

ASSUME ProviderAssumption ==
  /\ Position \in [ToolCall -> Nat]
  /\ \A c, d \in ToolCall : Position[c] = Position[d] => c = d
  /\ Styles \subseteq Style
  /\ MaxChunks \in Nat /\ MaxFiller \in Nat
  /\ Absent \notin Nat \cup ToolCall \cup {"tool_calls"}
  /\ DonePiece \notin [item : Nat, part : Nat, of : Nat]

VARIABLES
  style,    \* of naming calls
  framing,  \* sse or ndjson
  hint,     \* the framing the caller or the profile names, or auto
  sent,     \* what the provider began to say
  out,      \* lines of it still to come
  phase,    \* how much of the completion has been said
  open,     \* the connection
  filler,   \* filler lines so far
  dec,      \* the decoder
  got,      \* what Recv returned
  acc,      \* the accumulator
  verdict   \* what Recv says of the stream

streamVars == <<style, framing, hint, sent, out, phase, open, filler, dec, got,
                acc, verdict>>

fixed == <<style, framing, hint>>
-----------------------------------------------------------------------------
\* A chunk or an error object, and the fragments of calls it was to convey.
Item(error, chunk, said) == [error |-> error, chunk |-> chunk, said |-> said]

\* All fragments that some items were to convey, in order.
SaidBy(items) == FlattenSeq([i \in DOMAIN items |-> items[i].said])

\* The calls they speak of, and where they begin to speak of one.
CallsIn(said) == {said[i].call : i \in DOMAIN said}

FirstOf(said, c) ==
  CHOOSE i \in DOMAIN said :
    said[i].call = c /\ \A j \in 1..i - 1 : said[j].call # c

ArgsOf(said, c) ==
  FlattenSeq([i \in DOMAIN said |->
                IF said[i].call = c THEN said[i].args ELSE <<>>])

\* Fragments of call c so far.
Spoken(c) == LET said == SaidBy(sent)
             IN  Cardinality({i \in DOMAIN said : said[i].call = c})

\* The next fragment of call c.
FragmentOf(c, args) ==
  LET indexed == \/ style \in {"indexed", "repeating", "nameless"}
                 \/ style = "zero_omitted" /\ Position[c] # 0
      named == \/ style \in {"repeating", "by_id"}
               \/ style # "nameless" /\ Spoken(c) = 0
  IN  Fragment(IF indexed THEN Position[c] ELSE Absent,
               IF named THEN c ELSE Absent, args)

\* A provider that gives neither index nor id after the first fragment has
\* nothing but the order: it finishes one call before the next.
MaySpeakOf(c) ==
  LET said == SaidBy(sent)
  IN  style = "bare" /\ Spoken(c) > 0 => said[Len(said)].call = c

\* Arguments are said piece by piece; the first piece may be empty, and the
\* last one too then.
Pieces(c) ==
  {[call |-> c, args |-> args] :
     args \in {<<<<c, Spoken(c)>>>>} \cup {a \in {<<>>} : Spoken(c) = 0}}

CallItem(said) ==
  Item(FALSE,
       [Chunk EXCEPT !.calls = [i \in DOMAIN said |->
                                  FragmentOf(said[i].call, said[i].args)]],
       said)

\* A chunk speaks of one call or of two.
CallItems ==
  LET pieces == UNION {Pieces(c) : c \in {d \in ToolCall : MaySpeakOf(d)}}
  IN  {CallItem(<<f>>) : f \in pieces}
        \cup {CallItem(p) :
                p \in {q \in pieces \X pieces : q[1].call # q[2].call}}

Plain(chunk) == Item(FALSE, chunk, <<>>)

TextItems ==
  {Plain([Chunk EXCEPT !.role = "assistant", !.content = <<Len(sent)>>]),
   Plain([Chunk EXCEPT !.choice = 1, !.content = <<Len(sent)>>,
                       !.finish = "length"])}

Endings == {Plain([Chunk EXCEPT !.finish = "tool_calls"]),
            Item(TRUE, Chunk, <<>>)}

UsageItem == Plain([Chunk EXCEPT !.usage = "usage"])

\* Payloads travel in one piece or two.
Part(n, k, of) == [item |-> n, part |-> k, of |-> of]

DataLine(piece) == [kind |-> "data", piece |-> piece]

BlankLine == [kind |-> "blank", piece |-> DonePiece]

\* The ways to frame item n: an event of up to one piece too many.
Framed(n) ==
  IF framing = "ndjson"
  THEN {<<[kind |-> "json", piece |-> Part(n, 1, 1)]>>}
  ELSE {Append([k \in 1..of |-> DataLine(Part(n, k, of))], BlankLine) :
          of \in 1..MaxEvent + 1}

Sentinel ==
  IF framing = "ndjson" THEN <<[kind |-> "json", piece |-> DonePiece]>>
  ELSE <<DataLine(DonePiece), BlankLine>>

\* Filler that the framing has room for.
Filler ==
  IF framing = "ndjson" THEN {"blank"}
  ELSE {"comment", "field"} \cup {k \in {"blank"} : out = <<>>}
-----------------------------------------------------------------------------
StreamInit ==
  /\ style \in Styles /\ framing \in {"sse", "ndjson"}
  /\ hint \in {"auto", framing}
  /\ sent = <<>> /\ out = <<>> /\ phase = "talking" /\ open = TRUE
  /\ filler = 0
  /\ dec = NewDecoder(hint)
  /\ got = <<>> /\ acc = NewAccumulator /\ verdict = "reading"

\* The item a payload is, if it is a whole one.
Whole(payload) ==
  /\ \A k \in DOMAIN payload :
       payload[k] = Part(payload[1].item, k, Len(payload))

\* Stream.Recv with what Next says: an error object, which would pass for an
\* empty chunk, is looked for first.
Recv(d, items) ==
  CASE d.says = "reading" ->
         dec' = d /\ UNCHANGED <<got, acc, verdict>>
    [] d.says \in {"eof", "too large"} ->
         verdict' = d.says /\ dec' = Again(d) /\ UNCHANGED <<got, acc>>
    [] d.says = "payload" ->
         /\ dec' = Again(d)
         /\ IF ~Whole(d.payload)
            THEN verdict' = "malformed" /\ UNCHANGED <<got, acc>>
            ELSE LET item == items[d.payload[1].item]
                 IN  IF item.error
                     THEN verdict' = "failed" /\ UNCHANGED <<got, acc>>
                     ELSE /\ got' = Append(got, item)
                          /\ acc' = Add(acc, item.chunk)
                          /\ UNCHANGED verdict

Reading == open /\ verdict = "reading"

\* The provider begins to say something.
Say(item, next) ==
  /\ Reading /\ out = <<>> /\ Len(sent) < MaxChunks
  /\ sent' = Append(sent, item)
  /\ \E lines \in Framed(Len(sent) + 1) :
       /\ out' = Tail(lines)
       /\ Recv(NextLine(dec, Head(lines)), sent')
  /\ phase' = next
  /\ UNCHANGED <<fixed, open, filler>>

SayMore ==
  phase = "talking"
  /\ \/ \E item \in CallItems \cup TextItems : Say(item, "talking")
     \/ \E item \in Endings : Say(item, "finished")

SayUsage ==
  phase \in {"talking", "finished"} /\ Say(UsageItem, "counted")

SayDone ==
  /\ Reading /\ out = <<>> /\ phase # "done"
  /\ out' = Tail(Sentinel)
  /\ Recv(NextLine(dec, Head(Sentinel)), sent)
  /\ phase' = "done"
  /\ UNCHANGED <<fixed, sent, open, filler>>

NextOut ==
  /\ Reading /\ out # <<>>
  /\ out' = Tail(out)
  /\ Recv(NextLine(dec, Head(out)), sent)
  /\ UNCHANGED <<fixed, sent, phase, open, filler>>

Fill(kind) ==
  /\ Reading /\ filler < MaxFiller /\ kind \in Filler
  /\ filler' = filler + 1
  /\ Recv(NextLine(dec, [kind |-> kind, piece |-> DonePiece]), sent)
  /\ UNCHANGED <<fixed, sent, out, phase, open>>

\* The connection ends, wherever the provider is.
Close ==
  /\ Reading
  /\ open' = FALSE /\ out' = <<>>
  /\ UNCHANGED <<fixed, sent, phase, filler, dec, got, acc, verdict>>

\* The connection ends inside the line of a new item; the torn line is read.
Tear ==
  /\ Reading /\ out = <<>> /\ phase # "done" /\ Len(sent) < MaxChunks
  /\ sent' = Append(sent, UsageItem)
  /\ Recv(NextLine(dec, IF framing = "ndjson"
                        THEN [kind |-> "json", piece |-> Part(Len(sent'), 1, 2)]
                        ELSE DataLine(Part(Len(sent'), 1, 2))), sent')
  /\ open' = FALSE
  /\ UNCHANGED <<fixed, out, phase, filler>>

ReadEnd ==
  /\ ~open /\ verdict = "reading"
  /\ Recv(AtEOF(dec), sent)
  /\ UNCHANGED <<fixed, sent, out, phase, open, filler>>

StreamNext ==
  \/ SayMore \/ SayUsage \/ SayDone \/ NextOut
  \/ \E kind \in LineKind : Fill(kind)
  \/ Close \/ Tear \/ ReadEnd

StreamSpec == StreamInit /\ [][StreamNext]_streamVars
-----------------------------------------------------------------------------
(* Properties.                                                             *)

\* Whatever the framing and the filler, Recv returns what was said, in order,
\* and all of it before it says that the stream ended or failed; it finds a
\* chunk malformed only when the end of the connection tore it apart, and then
\* it does not return a part of it.
NothingLostOrTorn ==
  /\ IsPrefix(got, sent)
  /\ verdict = "eof" => got = sent
  /\ verdict \in {"failed", "malformed", "too large"} => got = Front(sent)
  /\ verdict = "failed" => Last(sent).error
  /\ \A i \in DOMAIN got : ~got[i].error
  /\ verdict = "malformed" => ~open

\* Calls have the order of their indices, or that in which they came when the
\* provider gives none.
Before(said, c, d) ==
  IF style \in {"by_id", "bare"} THEN FirstOf(said, c) < FirstOf(said, d)
  ELSE Position[c] < Position[d]

CallsMeant(said) ==
  LET calls == InOrder(CallsIn(said), LAMBDA c, d : Before(said, c, d))
  IN  [k \in DOMAIN calls |->
         [id |-> IF style = "nameless" THEN Synthesised(Position[calls[k]])
                 ELSE calls[k],
          args |-> ArgsOf(said, calls[k])]]

TextIn(items) ==
  FlattenSeq([i \in DOMAIN items |->
                IF items[i].chunk.choice = 0 THEN items[i].chunk.content
                ELSE <<>>])

\* What the provider meant by what was received.
Meant ==
  LET calls == CallsMeant(SaidBy(got))
      ended == \E i \in DOMAIN got : /\ got[i].chunk.choice = 0
                                     /\ got[i].chunk.finish = "tool_calls"
  IN  [role |-> "assistant",
       text |-> TextIn(got),
       calls |-> calls,
       finish |-> IF calls # <<>> \/ ended THEN "tool_calls" ELSE "stop",
       usage |-> IF \E i \in DOMAIN got : got[i].chunk.usage = "usage"
                 THEN "usage" ELSE Absent]

AsMeant ==
  LET r == Response(acc)
  IN  /\ \A f \in DOMAIN Meant : r[f] = Meant[f]
      /\ r.content = "null" <=> Meant.text = <<>> /\ Meant.calls # <<>>

\* However fragments of calls interleave, in whatever order and with whatever
\* gaps, with an index, without one for the first call or without any and an id
\* each time, the response says what the provider meant: no argument moves to
\* another call, no call is split or merged (delta.go: "where most
\* OpenAI-compatible clients have bugs").
AssembledAsMeant ==
  style # "bare" \/ Cardinality(DOMAIN acc.calls) <= 1 => AsMeant

=============================================================================
