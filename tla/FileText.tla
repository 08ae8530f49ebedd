----------------------------- MODULE FileText -------------------------------
(***************************************************************************)
(* What the file tools compute on the text of a file: pages of a read      *)
(* (BuildView of internal/tools/truncate.go), an exact replacement         *)
(* (internal/tools/edit.go) and the lines a pattern matches (matchLines of *)
(* internal/tools/grep.go).  A text is a sequence of characters; one of    *)
(* them is two bytes wide.  Left out: how views and errors are worded.     *)
(***************************************************************************)
EXTENDS Ordering, SequencesExt

CONSTANTS
  MaxLines,       \* lines of a page
  MaxLineChars,   \* characters of a line that are shown
  MaxViewBytes,   \* bytes of a page
  Marker,         \* bytes of lineTruncationMarker
  Context         \* lines shown around an edit

ASSUME TextAssumption ==
  /\ MaxLines \in Nat \ {0} /\ MaxLineChars \in Nat \ {0}
  /\ MaxViewBytes \in Nat /\ Marker \in Nat /\ Context \in Nat

Char == {"x", "y", "wide", "space", "newline", "return"}

Bytes(s) == Len(s) + Cardinality({i \in DOMAIN s : s[i] = "wide"})

-----------------------------------------------------------------------------
(* Lines.                                                                  *)

WithoutReturns(s) ==
  FlattenSeq([i \in DOMAIN s |->
    IF s[i] = "return" /\ i < Len(s) /\ s[i + 1] = "newline"
    THEN <<>> ELSE <<s[i]>>])

\* The newline at the end of a file starts no other line.
Body(s) == IF s # <<>> /\ Last(s) = "newline" THEN Front(s) ELSE s

\* What is between the newlines of s.
LinesIn(s) ==
  LET ends == InOrder({i \in DOMAIN s : s[i] = "newline"} \cup {Len(s) + 1}, <)
  IN  [k \in DOMAIN ends |->
         SubSeq(s, IF k = 1 THEN 1 ELSE ends[k - 1] + 1, ends[k] - 1)]

SplitLines(content) ==
  IF content = <<>> THEN <<>> ELSE LinesIn(Body(WithoutReturns(content)))

\* The number of the line that position i is in.
LineOf(s, i) == Cardinality({j \in 1..i - 1 : s[j] = "newline"}) + 1

\* A line as a view shows it.
ClipRunes(line) ==
  IF Len(line) > MaxLineChars
  THEN [text |-> SubSeq(line, 1, MaxLineChars), cut |-> TRUE]
  ELSE [text |-> line, cut |-> FALSE]

Size(shown) == Bytes(shown.text) + IF shown.cut THEN Marker ELSE 0

\* Deliberately wrong: the budget holds for the first line too.
FitsStrictly(k, used) == used <= MaxViewBytes

\* Whether a page has room for its k-th line, with which `used` bytes are used.
\* The first one is always taken.
Fits(k, used) == k = 1 \/ used <= MaxViewBytes

\* The lines from offset on that one page takes: all before the first that it
\* has no room for.
PageOf(all, offset, most) ==
  LET shown(k) == ClipRunes(all[offset + k - 1])
      used[k \in 0..Len(all)] ==
        IF k = 0 THEN 0 ELSE used[k - 1] + Size(shown(k))
      taken == {m \in 0..most :
                  \A k \in 1..m : offset + k - 1 <= Len(all) /\ Fits(k, used[k])}
  IN  [k \in 1..Max(taken) |-> shown(k)]

\* The page of a file that starts at line `from`; lines count from 1.
BuildView(content, from, limit) ==
  LET all == SplitLines(content)
      offset == Max({from, 1})
      lines == PageOf(all, offset,
                      IF limit \in 1..MaxLines THEN limit ELSE MaxLines)
  IN  [offset |-> offset, lines |-> lines, total |-> Len(all),
       truncated |-> offset - 1 + Len(lines) < Len(all)]

\* Where the next page starts; 0 when there is none.
NextOffset(view) ==
  IF view.truncated THEN view.offset + Len(view.lines) ELSE 0
-----------------------------------------------------------------------------
(* Replacement.                                                            *)

\* Where sub occurs from left to right, without overlap (strings.Count,
\* strings.Index, strings.Replace).
Occurrences(s, sub) ==
  LET from[i \in 1..Len(s) + 1] ==
        CASE i + Len(sub) - 1 > Len(s) -> <<>>
          [] /\ i + Len(sub) - 1 <= Len(s)
             /\ SubSeq(s, i, i + Len(sub) - 1) = sub ->
               <<i>> \o from[i + Len(sub)]
          [] OTHER -> from[i + 1]
  IN  from[1]

\* The text with `new` in place of the `width` characters at each position.
Replaced(s, positions, width, new) ==
  LET after(k) == IF k = 0 THEN 1 ELSE positions[k] + width
  IN  FlattenSeq([k \in DOMAIN positions |->
                    SubSeq(s, after(k - 1), positions[k] - 1) \o new])
        \o SubSeq(s, after(Len(positions)), Len(s))

Blank == {"space", "return", "newline"}

TrimSpace(s) ==
  LET solid == {i \in DOMAIN s : s[i] \notin Blank}
  IN  IF solid = {} THEN <<>> ELSE SubSeq(s, Min(solid), Max(solid))

Encoded(s) ==
  FlattenSeq([i \in DOMAIN s |->
    IF s[i] = "wide" THEN <<"first", "second">> ELSE <<s[i]>>])

\* The bytes that two lines share at their beginnings and ends, as a fraction
\* <<of, out of>>.
Similarity(line, want) ==
  LET a == Encoded(line)
      b == Encoded(want)
      low == Min({Len(a), Len(b)})
      prefix == Max({k \in 0..low : SubSeq(a, 1, k) = SubSeq(b, 1, k)})
      Ends(k) == SubSeq(a, Len(a) - k + 1, Len(a))
                   = SubSeq(b, Len(b) - k + 1, Len(b))
      suffix == Max({k \in 0..low - prefix : Ends(k)})
  IN  IF low = 0 THEN <<0, 1>>
      ELSE <<IF a = b THEN Len(a) ELSE prefix + suffix, Max({Len(a), Len(b)})>>

Above(p, q) == p[1] * q[2] > q[1] * p[2]

\* The line most like the wanted one: one that differs only in blanks around it,
\* or the closest one if it is close, or none (0).
Closest(lines, want) ==
  LET same == {i \in DOMAIN lines : TrimSpace(lines[i]) = want}
      Score(i) == Similarity(TrimSpace(lines[i]), want)
      close == {i \in DOMAIN lines :
                  /\ Above(Score(i), <<1, 2>>)
                  /\ \A j \in DOMAIN lines : ~Above(Score(j), Score(i))}
  IN  CASE want = <<>> -> 0
        [] want # <<>> /\ same # {} -> Min(same)
        [] OTHER -> IF close = {} THEN 0 ELSE Min(close)

\* The line that noMatchError shows.
NearestLine(content, old) ==
  Closest(SplitLines(content),
          TrimSpace(SubSeq(old, 1, Min({i \in 1..Len(old) + 1 :
                      i = Len(old) + 1 \/ old[i] = "newline"}) - 1)))

\* The view of the region an edit changed.
SnippetAround(content, line, span) ==
  BuildView(content, Max({line, Context + 1}) - Context, span + 2 * Context)

Refused(content, code, lines) ==
  [code |-> code, text |-> content, lines |-> lines, snippet |-> <<>>]

\* An edit whose text was found, at one place or with replace_all.
Edited(content, old, new, all) ==
  LET at == Occurrences(content, old)
      line == LineOf(content, at[1])
      text == Replaced(content, IF all THEN at ELSE <<at[1]>>, Len(old), new)
  IN  [code |-> "ok", text |-> text, lines |-> <<line>>,
       snippet |-> SnippetAround(text, line, LineOf(new, Len(new) + 1))]

\* Deliberately wrong: the first of several places will do.
EditFirstMatch(content, old, new, all) ==
  IF old = <<>> \/ old = new \/ Occurrences(content, old) = <<>>
  THEN Refused(content, "no_match", <<>>) ELSE Edited(content, old, new, all)

\* Edit.Execute on a file that the session has read.
Edit(content, old, new, all) ==
  LET at == Occurrences(content, old)
  IN  CASE old = <<>> \/ old = new -> Refused(content, "invalid_args", <<>>)
        [] old # <<>> /\ old # new /\ at = <<>> ->
             Refused(content, "no_match", <<NearestLine(content, old)>>)
        [] old # <<>> /\ old # new /\ Len(at) > 1 /\ ~all ->
             Refused(content, "ambiguous",
                     [k \in DOMAIN at |-> LineOf(content, at[k])])
        [] OTHER -> Edited(content, old, new, all)
-----------------------------------------------------------------------------
\* The lines in which a character occurs, as grep shows them.  Whether a line
\* is too long is decided by its bytes, where it is cut by its characters.
MatchLines(content, char) ==
  LET lines == SplitLines(content)
      hits == InOrder({i \in DOMAIN lines : char \in ToSet(lines[i])}, <)
  IN  [k \in DOMAIN hits |->
         [line |-> hits[k], text |-> ClipRunes(lines[hits[k]]).text,
          cut |-> Bytes(lines[hits[k]]) > MaxLineChars]]
=============================================================================
