------------------------------- MODULE Search -------------------------------
(***************************************************************************)
(* What the glob and grep tools find: the ignore rules of                  *)
(* internal/workspace/ignore.go and the two walks of internal/tools.       *)
(* A path is the sequence of its names below the workspace root.  Patterns *)
(* are matched by the doublestar library; they are sequences of names in   *)
(* which "*" stands for any one name and "**" for any number of names.     *)
(***************************************************************************)
EXTENDS FileText

CONSTANTS
  Names,            \* the names in the workspace, in lexical order
  Tree,             \* its entries: [path, kind, text]
  PathOrder,        \* their paths in the order of the strings that spell them
  GlobDefaultLimit, GlobMaxLimit, GlobMaxScan,
  GrepDefaultLimit, GrepMaxLimit, GrepMaxScan

ASSUME SearchAssumption ==
  /\ Names \in Seq(STRING)
  /\ \A i, j \in DOMAIN Names : Names[i] = Names[j] => i = j
  /\ IsFiniteSet(Tree)
  /\ \A e \in Tree : /\ e.path \in Seq(ToSet(Names)) \ {<<>>}
                     /\ e.text \in Seq(Char)
  /\ \A d, e \in Tree : d.path = e.path => d = e
  /\ {GlobDefaultLimit, GlobMaxLimit, GlobMaxScan} \subseteq Nat
  /\ {GrepDefaultLimit, GrepMaxLimit, GrepMaxScan} \subseteq Nat

Paths == {e.path : e \in Tree}

ASSUME PathOrderAssumption ==
  /\ PathOrder \in Seq(Paths) /\ ToSet(PathOrder) = Paths
  /\ \A i, j \in DOMAIN PathOrder : PathOrder[i] = PathOrder[j] => i = j

Entry(p) == CHOOSE e \in Tree : e.path = p
IsDir(p) == Entry(p).kind = "dir"
Under(start, p) == IsStrictPrefix(start, p)

\* The order of fs.WalkDir: a directory, then what is in it, by name.
Rank(name) == CHOOSE i \in DOMAIN Names : Names[i] = name

WalksBefore(p, q) ==
  \/ IsStrictPrefix(p, q)
  \/ \E i \in DOMAIN p \cap DOMAIN q :
       /\ SubSeq(p, 1, i - 1) = SubSeq(q, 1, i - 1)
       /\ Rank(p[i]) < Rank(q[i])
-----------------------------------------------------------------------------
(* Patterns and ignore rules.                                              *)

MatchPattern(pattern, p) ==
  LET match[i \in 1..Len(pattern) + 1, j \in 1..Len(p) + 1] ==
        CASE i > Len(pattern) -> j > Len(p)
          [] i <= Len(pattern) /\ pattern[i] = "**" ->
               match[i + 1, j] \/ (j <= Len(p) /\ match[i, j + 1])
          [] OTHER -> /\ j <= Len(p)
                      /\ pattern[i] \in {"*", p[j]}
                      /\ match[i + 1, j + 1]
  IN  match[1, 1]

\* A line of .gitignore: ! in front, a slash in front, its names, a slash
\* behind them.  A slash anywhere but at the end ties it to the root.
CompileRule(line) ==
  LET anchored == line.rooted \/ Len(line.names) > 1
  IN  [pattern |-> IF anchored THEN line.names ELSE <<"**">> \o line.names,
       negate |-> line.negate, dirOnly |-> line.dirOnly]

Directory(name) == [negate |-> FALSE, rooted |-> FALSE, names |-> <<name>>,
                    dirOnly |-> TRUE]

AlwaysIgnored == <<Directory(".git"), Directory(".harness")>>

\* Blank lines and comments have no names.
LoadIgnore(lines) ==
  LET all == AlwaysIgnored \o lines
  IN  FlattenSeq([i \in DOMAIN all |-> IF all[i].names = <<>> THEN <<>>
                                      ELSE <<CompileRule(all[i])>>])

\* The last rule that matches decides.
MatchExact(rules, p, isDir) ==
  FoldLeft(LAMBDA ignored, r :
             IF (r.dirOnly => isDir) /\ MatchPattern(r.pattern, p)
             THEN ~r.negate ELSE ignored,
           FALSE, rules)

\* Deliberately wrong: what is above a path does not count.
MatchLeaf(rules, p, isDir) == MatchExact(rules, p, isDir)

\* Ancestors first: nothing brings a file back from an ignored directory.
Match(rules, p, isDir) ==
  \/ \E k \in 1..Len(p) - 1 : MatchExact(rules, SubSeq(p, 1, k), TRUE)
  \/ MatchExact(rules, p, isDir)
-----------------------------------------------------------------------------
(* The walks.                                                              *)

Clamp(limit, default, most) ==
  Min({IF limit = 0 THEN default ELSE limit, most})

\* Everything in the workspace in the order of a walk.
WalkOrder == InOrder(Paths, WalksBefore)

\* A walk over what is below start: it does not descend into an ignored
\* directory and ends once it is done.
Visit(start, rules, Step(_, _), state) ==
  FoldLeft(LAMBDA s, p :
             IF \/ s.done \/ ~Under(start, p)
                \/ \E d \in s.pruned : Under(d, p)
             THEN s
             ELSE LET t == Step(s, p)
                  IN  IF IsDir(p) /\ Match(rules, p, TRUE)
                      THEN [t EXCEPT !.pruned = @ \cup {p}] ELSE t,
           state, WalkOrder)

\* The order of the strings is not that of the walk: "-" and "." come before
\* the slash.
SpelledBefore(p, q) ==
  \E i, j \in DOMAIN PathOrder : i < j /\ PathOrder[i] = p /\ PathOrder[j] = q

\* Most recently modified first, then by path.
Newer(mtime, p, q) ==
  mtime[p] > mtime[q] \/ (mtime[p] = mtime[q] /\ SpelledBefore(p, q))

ByRecency(mtime, paths) ==
  InOrder(ToSet(paths), LAMBDA p, q : Newer(mtime, p, q))

Below(start, p) == SubSeq(p, Len(start) + 1, Len(p))

\* Glob.Execute.  The limit keeps the first matches of the walk; only those
\* are sorted.
Glob(rules, mtime, start, pattern, asked) ==
  LET limit == Clamp(asked, GlobDefaultLimit, GlobMaxLimit)
      Step(s, p) ==
        CASE s.scanned = GlobMaxScan -> [s EXCEPT !.done = TRUE]
          [] s.scanned < GlobMaxScan /\ Match(rules, p, IsDir(p)) ->
               [s EXCEPT !.scanned = @ + 1, !.ignored = @ + 1]
          [] OTHER ->
               LET hit == MatchPattern(pattern, Below(start, p))
               IN  [s EXCEPT
                      !.scanned = @ + 1,
                      !.total = @ + IF hit THEN 1 ELSE 0,
                      !.truncated = @ \/ (hit /\ Len(s.found) = limit),
                      !.found = IF hit /\ Len(@) < limit
                                THEN Append(@, p) ELSE @]
      end == Visit(start, rules, Step,
                   [scanned |-> 0, ignored |-> 0, total |-> 0,
                    truncated |-> FALSE, found |-> <<>>,
                    pruned |-> {}, done |-> FALSE])
  IN  [found |-> ByRecency(mtime, end.found), total |-> end.total,
       truncated |-> end.truncated, ignored |-> end.ignored,
       partial |-> end.done]

\* A file's matching lines, each with its path.
HitsIn(content, p, char) ==
  LET lines == MatchLines(content[p], char)
  IN  [k \in DOMAIN lines |->
         [path |-> p, line |-> lines[k].line, text |-> lines[k].text,
          cut |-> lines[k].cut]]

\* Grep.Execute on a directory.  That the walk was cut short is not reported.
Grep(rules, mtime, content, start, char, glob, asked, filesOnly) ==
  LET limit == Clamp(asked, GrepDefaultLimit, GrepMaxLimit)
      Wanted(p) == /\ Entry(p).kind \in {"text", "binary", "large"}
                   /\ ~Match(rules, p, FALSE)
                   /\ glob = <<>> \/ MatchPattern(glob, Below(start, p))
      Step(s, p) ==
        CASE ~Wanted(p) -> s
          [] Wanted(p) /\ s.scanned = GrepMaxScan -> [s EXCEPT !.done = TRUE]
          [] Wanted(p) /\ s.scanned < GrepMaxScan
               /\ Entry(p).kind # "text" ->
               [s EXCEPT !.scanned = @ + 1, !.skipped = @ + 1]
          [] OTHER ->
               [s EXCEPT !.scanned = @ + 1,
                         !.files = IF HitsIn(content, p, char) = <<>>
                                   THEN @ ELSE Append(@, p)]
      end == Visit(start, rules, Step,
                   [scanned |-> 0, skipped |-> 0, files |-> <<>>,
                    pruned |-> {}, done |-> FALSE])
      files == ByRecency(mtime, end.files)
      hits == FlattenSeq([k \in DOMAIN files |->
                            HitsIn(content, files[k], char)])
      most == Min({limit, Len(IF filesOnly THEN files ELSE hits)})
  IN  [files |-> IF filesOnly THEN SubSeq(files, 1, most) ELSE files,
       hits |-> IF filesOnly THEN <<>> ELSE SubSeq(hits, 1, most),
       total |-> Len(hits), count |-> Len(files), skipped |-> end.skipped,
       truncated |-> most < Len(IF filesOnly THEN files ELSE hits)]

\* grepSingleFile, which knows no limit.
GrepFile(content, p, char) ==
  LET hits == IF Entry(p).kind = "binary" THEN <<>>
              ELSE HitsIn(content, p, char)
  IN  [files |-> IF hits = <<>> THEN <<>> ELSE <<p>>, hits |-> hits,
       total |-> Len(hits), count |-> IF hits = <<>> THEN 0 ELSE 1,
       skipped |-> IF Entry(p).kind = "binary" THEN 1 ELSE 0,
       truncated |-> FALSE]
=============================================================================
