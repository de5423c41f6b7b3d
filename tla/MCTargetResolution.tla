------------------------- MODULE MCTargetResolution -------------------------
(* A small tree for TargetResolution: /d and /d/e are directories, /d/f is a *)
(* file, /l and /d/m are links.                                              *)
EXTENDS PathResolution

Relative(parts) == [absolute |-> FALSE, parts |-> parts]
Absolute(parts) == [absolute |-> TRUE, parts |-> parts]

SomeDirs  == {<<>>, <<"d">>, <<"d", "e">>}
SomeFiles == {<<"d", "f">>}
SomeLinks == {<<"l">>, <<"d", "m">>}

\* To directories and files, through links and to themselves, dangling, by the
\* parent, from the root.
SomeTargets == {
  Relative(<<"d", "e">>), Relative(<<"e">>), Relative(<<"..", "l">>),
  Relative(<<"new", "x">>), Absolute(<<"d", "m">>), Absolute(<<"d", "f">>),
  Relative(<<"d", "f", "">>), Relative(<<"..", "new", "">>),
  Relative(<<".", "..", "d">>)}

SomePaths == {
  <<"l">>, <<"l", "..", "f">>, <<"d", "m", "f">>, <<"d", "m", "..", "..", "l">>,
  <<"l", "m", "">>, <<"d", "f", "x">>, <<"new", "..">>, <<"l", "m", ".">>,
  <<"l", "x", "..", "..", "f">>}
=============================================================================
