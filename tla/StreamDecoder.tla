--------------------------- MODULE StreamDecoder ----------------------------
(***************************************************************************)
(* Decoder of internal/upstream/sse.go: the lines of a streamed response   *)
(* become payloads, whatever framing the provider uses.  A line is its     *)
(* kind and, if it carries data, a piece of a payload.  Left out: bytes,   *)
(* line endings, and how a field is split from its value.                  *)
(***************************************************************************)
EXTENDS Naturals, Sequences

CONSTANTS
  MaxEvent,  \* maxEventBytes, in pieces
  DonePiece  \* [DONE]: not JSON, it says that the stream is over

ASSUME DecoderAssumption == MaxEvent \in Nat \ {0}

\* Kinds of lines: an empty one; ": ..."; "event: ...", "id: ..."; "data: ...";
\* a bare JSON object or array; a bare [DONE]; anything else.
LineKind == {"blank", "comment", "field", "data", "json", "other"}

IsDone(data) == data = <<DonePiece>>

\* What a call of Next does with the next line: it goes on reading, returns a
\* payload, ends the stream, or gives up.
Decoder(format, data) ==
  [format |-> format, data |-> data, says |-> "reading", payload |-> <<>>]

Says(d, what) == [d EXCEPT !.says = what]

\* A payload, and the next call starts with an empty buffer.
Yields(d, payload) ==
  [d EXCEPT !.data = <<>>, !.says = "payload", !.payload = payload]

NewDecoder(format) == Decoder(format, <<>>)

Sniff(line) ==
  CASE line.kind \in {"comment", "field", "data"} -> "sse"
    [] line.kind = "json" -> "ndjson"
    [] OTHER -> "auto"

\* A sentinel is not a payload.  It stays in the buffer.
Flushes(d) == d.data # <<>> /\ ~IsDone(d.data)

NextNDJSON(d, line) ==
  CASE line.kind = "blank" -> d
    [] line.kind # "blank" /\ IsDone(<<line.piece>>) -> Says(d, "eof")
    [] OTHER -> Yields(d, <<line.piece>>)

\* Deliberately wrong: filler ends an event.
NextSSEFlushesEarly(d, line) ==
  CASE line.kind # "data" -> IF Flushes(d) THEN Yields(d, d.data) ELSE d
    [] OTHER -> [d EXCEPT !.data = Append(@, line.piece)]

NextSSE(d, line) ==
  CASE line.kind = "blank" -> IF Flushes(d) THEN Yields(d, d.data) ELSE d
    [] line.kind \notin {"blank", "data"} -> d
    [] line.kind = "data" /\ Len(d.data) < MaxEvent ->
         [d EXCEPT !.data = Append(@, line.piece)]
    [] OTHER -> Says(d, "too large")

\* The decoder after a line, given that it is reading.
NextLine(d, line) ==
  LET format == IF d.format = "auto" THEN Sniff(line) ELSE d.format
      known == [d EXCEPT !.format = format]
  IN  CASE format = "auto" -> d
        [] format = "ndjson" -> NextNDJSON(known, line)
        [] format = "sse" -> NextSSE(known, line)

\* The decoder at the end of the response: an event that no blank line ended
\* still counts.
AtEOF(d) == IF Flushes(d) THEN Yields(d, d.data) ELSE Says(d, "eof")

\* The next call of Next.
Again(d) == Decoder(d.format, <<>>)
=============================================================================
