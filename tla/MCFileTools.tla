---------------------------- MODULE MCFileTools -----------------------------
(***************************************************************************)
(* An instance for TLC: every text of up to three characters, a workspace  *)
(* of ten entries and .gitignore files of up to two lines.                 *)
(***************************************************************************)
EXTENDS FileTools

MCNames == <<".git", "a", "build", "build-x", "keep", "log">>

In(path, kind, string) == [path |-> path, kind |-> kind, text |-> string]

MCTree ==
  { In(<<".git">>, "dir", <<>>), In(<<".git", "log">>, "text", <<"x">>),
    In(<<"a">>, "text", <<"x", "newline", "wide", "x">>),
    In(<<"build">>, "dir", <<>>), In(<<"build", "keep">>, "text", <<"x">>),
    In(<<"build", "log">>, "binary", <<"x">>),
    In(<<"build-x">>, "dir", <<>>), In(<<"build-x", "build">>, "text", <<"x">>),
    In(<<"build-x", "log">>, "link", <<>>),
    In(<<"log">>, "text", <<>>) }

MCPathOrder ==
  << <<".git">>, <<".git", "log">>, <<"a">>, <<"build">>, <<"build-x">>,
     <<"build-x", "build">>, <<"build-x", "log">>, <<"build", "keep">>,
     <<"build", "log">>, <<"log">> >>

MCFile == <<"log">>
MCSample == <<"x", "newline">>

Line(negate, rooted, names, dirOnly) ==
  [negate |-> negate, rooted |-> rooted, names |-> names, dirOnly |-> dirOnly]

MCLines ==
  { Line(FALSE, FALSE, <<"build">>, TRUE),
    Line(FALSE, FALSE, <<"build">>, FALSE),
    Line(TRUE, FALSE, <<"build", "keep">>, FALSE),
    Line(FALSE, TRUE, <<"log">>, FALSE), Line(FALSE, FALSE, <<"log">>, FALSE),
    Line(TRUE, FALSE, <<"build-x", "log">>, FALSE),
    Line(FALSE, FALSE, <<"*">>, FALSE), Line(TRUE, FALSE, <<".git">>, TRUE),
    Line(FALSE, FALSE, <<>>, FALSE) }

MCIgnoreFiles == BoundedSeq(MCLines, 2)
MCTexts == BoundedSeq(Char, 3)
MCOldTexts == BoundedSeq({"x", "space", "newline", "return"}, 2)
MCNewTexts == {<<>>, <<"x">>, <<"x", "newline">>}
MCPatterns == {<<"*">>, <<"**", "log">>, <<"build-x", "**">>}
=============================================================================
