----------------------------- MODULE FileTools ------------------------------
(***************************************************************************)
(* A session looks at one file page by page, edits it, and searches the    *)
(* workspace around it with glob and grep (internal/tools).  The ignore    *)
(* rules are read when a session is adopted (internal/workspace/           *)
(* manager.go) and stay as they are when .gitignore changes.               *)
(* What a session may edit is the subject of ReadBeforeEdit: the file here *)
(* has been read.                                                          *)
(***************************************************************************)
EXTENDS Search

CONSTANTS
  File,           \* the path of the file that is read and edited
  Texts,          \* what it may hold at first
  Sample,         \* bound: what it holds when .gitignore is written
  IgnoreFiles,    \* what .gitignore may come to hold: sequences of lines
  OldTexts, NewTexts,       \* what edits replace, and by what
  Patterns,       \* what glob is asked for
  MaxText,        \* bound: length of the text
  MaxEdits        \* bound: edits of the file

ASSUME FileToolsAssumption ==
  /\ File \in Paths /\ Entry(File).kind = "text" /\ Sample \in Seq(Char)
  /\ Texts \subseteq Seq(Char)
  /\ OldTexts \subseteq Seq(Char) /\ NewTexts \subseteq Seq(Char)
  /\ IgnoreFiles \subseteq Seq([negate : BOOLEAN, rooted : BOOLEAN,
                              names : Seq(STRING), dirOnly : BOOLEAN])

VARIABLES
  text,           \* what the file holds
  mtime,          \* when each entry was last modified
  gitignore,      \* the lines of .gitignore
  rules,          \* Session.ignore
  paged,          \* the lines shown since the first page, and what is next
  report,         \* a call and its result, until the model has it
  edits           \* counts the edits, for the bound

fileVars == <<text, mtime, gitignore, rules, paged, report, edits>>

content == [p \in Paths |-> IF p = File THEN text ELSE Entry(p).text]
NoPages == [lines |-> <<>>, next |-> 0]
Told(op, args, out) == [op |-> op, args |-> args, out |-> out]
Nothing == Told("none", <<>>, <<>>)
Directories == {<<>>} \cup {p \in Paths : IsDir(p)}

FileToolsInit ==
  /\ text \in Texts
  /\ gitignore = <<>>
  /\ mtime = [p \in Paths |-> IF p = File THEN 1 ELSE 0]
  /\ rules = LoadIgnore(gitignore)
  /\ paged = NoPages
  /\ report = Nothing
  /\ edits = 0

\* Read.Execute.  The model follows the offsets that it is given, or not.
ReadCall(offset, limit) ==
  LET view == BuildView(text, offset, limit)
      before == IF offset \in {0, 1} THEN <<>> ELSE paged.lines
  IN  /\ report = Nothing
      /\ report' = Told("read", <<offset, limit>>, view)
      /\ paged' = IF offset \in {0, 1, paged.next}
                  THEN [lines |-> before \o view.lines,
                        next |-> NextOffset(view)]
                  ELSE NoPages
      /\ UNCHANGED <<text, mtime, gitignore, rules, edits>>

\* Edit.Execute.
EditCall(old, new, all) ==
  LET out == Edit(text, old, new, all)
  IN  /\ report = Nothing
      /\ edits < MaxEdits /\ Len(out.text) <= MaxText
      /\ text' = out.text
      /\ mtime' = IF out.code # "ok" THEN mtime
                  ELSE [mtime EXCEPT ![File] = Max(Range(mtime)) + 1]
      /\ edits' = edits + IF out.code = "ok" THEN 1 ELSE 0
      /\ report' = Told("edit", [was |-> text, old |-> old, new |-> new,
                                 all |-> all], out)
      /\ paged' = NoPages
      /\ UNCHANGED <<gitignore, rules>>

GlobCall(start, pattern, limit) ==
  /\ report = Nothing
  /\ report' = Told("glob", [start |-> start, pattern |-> pattern,
                             limit |-> limit],
                    Glob(rules, mtime, start, pattern, limit))
  /\ paged' = NoPages
  /\ UNCHANGED <<text, mtime, gitignore, rules, edits>>

\* Grep.Execute, with a directory or a file as its path.
GrepCall(start, char, glob, limit, filesOnly) ==
  /\ report = Nothing
  /\ report' = Told("grep", [start |-> start, char |-> char, glob |-> glob,
                             limit |-> limit, filesOnly |-> filesOnly],
       IF start \in Directories
       THEN Grep(rules, mtime, content, start, char, glob, limit, filesOnly)
       ELSE GrepFile(content, start, char))
  /\ paged' = NoPages
  /\ UNCHANGED <<text, mtime, gitignore, rules, edits>>

\* The result is given to the model, which may then call again.
Deliver ==
  /\ report # Nothing
  /\ report' = Nothing
  /\ UNCHANGED <<text, mtime, gitignore, rules, paged, edits>>

\* A tool or a command of the session creates .gitignore.
WriteIgnore(lines) ==
  /\ report = Nothing
  /\ gitignore = <<>> /\ text = Sample /\ edits = 0
  /\ gitignore' = lines
  /\ paged' = NoPages
  /\ UNCHANGED <<text, mtime, rules, report, edits>>

\* The server restarts and adopts the workspace again.
Adopt ==
  /\ rules' = LoadIgnore(gitignore)
  /\ report' = Nothing
  /\ paged' = NoPages
  /\ UNCHANGED <<text, mtime, gitignore, edits>>

FileToolsNext ==
  \/ \E offset \in 0..MaxText, limit \in 0..2 : ReadCall(offset, limit)
  \/ \E old \in OldTexts, new \in NewTexts, all \in BOOLEAN :
       EditCall(old, new, all)
  \/ \E start \in Directories, pattern \in Patterns,
        limit \in {0, GlobMaxLimit + 1} : GlobCall(start, pattern, limit)
  \/ \E start \in {<<>>, File}, glob \in {<<>>} \cup Patterns,
        limit \in {0, 1}, filesOnly \in BOOLEAN :
       GrepCall(start, "x", glob, limit, filesOnly)
  \/ \E lines \in IgnoreFiles : WriteIgnore(lines)
  \/ Deliver
  \/ Adopt

FileToolsSpec == FileToolsInit /\ [][FileToolsNext]_fileVars
-----------------------------------------------------------------------------
(* Properties.                                                             *)

Shown == LET lines == SplitLines(text)
         IN  [i \in DOMAIN lines |-> ClipRunes(lines[i])]

\* Following the offsets that read gives shows every line of the file once and
\* in order, and every page moves on, however long its first line is: no file
\* has a part that read cannot reach (truncate.go:46-105).
ReadingShowsAll ==
  /\ IsPrefix(paged.lines, Shown)
  /\ paged # NoPages /\ paged.next = 0 => paged.lines = Shown
  /\ report.op = "read" /\ report.out.truncated
       => NextOffset(report.out) > report.out.offset

\* The text with the disjoint occurrences at P replaced, character by
\* character.
Rewritten(s, P, width, new) ==
  FlattenSeq([i \in 1..Len(s) + 1 |->
    CASE i \in P -> new \o IF width = 0 THEN <<s[i]>> ELSE <<>>
      [] i \notin P /\ (i > Len(s) \/ \E p \in P : i \in p..p + width - 1)
           -> <<>>
      [] OTHER -> <<s[i]>>])

\* An edit changes the text it was told to and nothing else.  Without
\* replace_all that is one place, and any other place that holds the text
\* overlaps it; with replace_all no place is left over.  A refused edit changes
\* nothing (edit.go:151-176).
EditIsExact ==
  report.op = "edit" =>
    LET a == report.args
        w == Len(a.old)
        Is(i) == SubSeq(a.was, i, i + w - 1) = a.old
        places == {i \in 1..(Len(a.was) + 1) - w : Is(i)}
        Near(i, j) == i < j + w /\ j < i + w
        apart == {P \in SUBSET places : \A i, j \in P : i = j \/ ~Near(i, j)}
        full == {P \in apart : \A i \in places : \E j \in P : Near(i, j)}
    IN  IF report.out.code = "ok"
        THEN \E P \in full :
               /\ ~a.all => \A i, j \in P : i = j
               /\ text = Rewritten(a.was, P, w, a.new)
        ELSE text = a.was

FirstLine(s) ==
  SubSeq(s, 1, Min({i \in 1..Len(s) + 1 :
                     i = Len(s) + 1 \/ s[i] = "newline"}) - 1)

WithoutAnyReturn(s) ==
  FlattenSeq([i \in DOMAIN s |-> IF s[i] = "return" THEN <<>> ELSE <<s[i]>>])

\* Every tool counts lines as read does.  The line an edit or an ambiguous
\* match names is one that read shows with the beginning of the replaced text
\* in it; the changed region shown back begins at or before that line; grep
\* gives each matching line the number that read gives it, and no other line
\* (edit.go:150-183, grep.go:311-329).
NumbersAgree ==
  /\ report.op = "edit" =>
       LET lines == SplitLines(report.args.was)
           Holds(n) == /\ n \in DOMAIN lines
                       /\ WithoutAnyReturn(FirstLine(report.args.old))
                            \in SubSeqs(WithoutAnyReturn(lines[n]))
       IN  report.out.code \in {"ok", "ambiguous"} =>
             /\ \A k \in DOMAIN report.out.lines : Holds(report.out.lines[k])
             /\ report.out.code = "ok" =>
                  report.out.snippet.offset \in 1..report.out.lines[1]
  /\ report.op = "grep" /\ report.args.start = File =>
       {h.line : h \in ToSet(report.out.hits)}
         = {n \in DOMAIN SplitLines(text) :
              \E i \in DOMAIN text :
                text[i] = report.args.char /\ LineOf(text, i) = n}

\* Hidden by the rules in force: a path or something above it is excluded by the
\* last of them that speaks about it.
Hidden(p) ==
  \E k \in DOMAIN p :
    LET above == SubSeq(p, 1, k)
        speak == {i \in DOMAIN rules :
                    /\ rules[i].dirOnly => k < Len(p) \/ IsDir(p)
                    /\ MatchPattern(rules[i].pattern, above)}
    IN  speak # {} /\ ~rules[Max(speak)].negate

Sorted(paths) ==
  \A i, j \in DOMAIN paths : i < j => mtime[paths[i]] >= mtime[paths[j]]

\* Glob lists only what matches its pattern and is not hidden, counts all of it,
\* says so when it holds some back, and puts what was modified last of what it
\* lists in front, although it never looks into hidden directories
\* (glob.go:131-228, ignore.go:118-156).
GlobFindsVisible ==
  report.op = "glob" =>
    LET out == report.out
        want == {p \in Paths : /\ Under(report.args.start, p) /\ ~Hidden(p)
                               /\ MatchPattern(report.args.pattern,
                                               Below(report.args.start, p))}
    IN  /\ ToSet(out.found) \subseteq want
        /\ Sorted(out.found)
        /\ out.truncated <=> out.total > Len(out.found)
        /\ ~out.partial => out.total = Cardinality(want)

\* Grep names the files that are not hidden and hold a match, the one modified
\* last in front, and its counts tell of what it does not show
\* (grep.go:166-284).
GrepFindsVisible ==
  report.op = "grep" /\ report.args.start = <<>> =>
    LET out == report.out
        asked == {p \in Paths :
                    /\ Entry(p).kind \in {"text", "binary", "large"}
                    /\ ~Hidden(p)
                    /\ \/ report.args.glob = <<>>
                       \/ MatchPattern(report.args.glob, p)}
        want == {p \in asked : /\ Entry(p).kind = "text"
                               /\ report.args.char \in ToSet(content[p])}
    IN  /\ ToSet(out.files) \subseteq want
        /\ Sorted(out.files)
        /\ Cardinality(asked) <= GrepMaxScan => out.count = Cardinality(want)
        /\ out.truncated <=>
             IF report.args.filesOnly THEN out.count > Len(out.files)
             ELSE out.total > Len(out.hits)

\* What the server keeps from the searches: version control, and its own files.
Private(p) ==
  \E k \in DOMAIN p :
    p[k] \in {".git", ".harness"} /\ (k < Len(p) \/ IsDir(p))

\* What glob, grep and edit answer is so, by the ignore rules in force: a search
\* finds what is there and not hidden, and the lines that edit and grep name are
\* those that read shows (glob.go:131-228, grep.go:166-329, edit.go:150-183).
\* Nothing is said of searches under rules that bring back what is private.
AnswersAreTrue ==
  /\ NumbersAgree
  /\ (\A p \in Paths : Private(p) => Hidden(p)) =>
       GlobFindsVisible /\ GrepFindsVisible
=============================================================================
