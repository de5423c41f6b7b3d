--------------------------- MODULE MCPatchPlanner ---------------------------
(* Documents and edits for PatchPlanner.                                    *)
EXTENDS PatchPlanner

one == <<Atom("1")>>
two == <<Atom("2")>>

Line(path, value) == <<Key(path)>> \o value \o <<Newline>>
Comment(w)        == <<Hash, Atom(w), Newline>>
Section(path)     == <<Header(path), Newline>>

\* a = [1, # inner      with a string that looks like a comment
\*  """ # """"]      and ends with a quote
List == <<LBracket, Atom("1"), Comma>> \o Comment("inner")
          \o <<Triple, Hash, Quad, RBracket>>

\* m = """
\* [s]
\* """
Text == <<Triple, Newline, Header(<<"s">>), Newline, Triple>>

\* t = { b = 1 }
Table == <<LBrace, Key(<<"b">>), Atom("1"), RBrace>>

Documents == {
  <<>>,
  <<Header(<<"s">>)>>,
  Comment("top") \o Line(<<"a">>, one) \o <<Header(<<"s">>)>> \o Comment("end"),
  Line(<<"a">>, List) \o <<Header(<<"s">>)>>,
  Line(<<"m">>, Text) \o Section(<<"s">>) \o Line(<<"b">>, one),
  Line(<<"t">>, Table) \o Line(<<"n", "a">>, one)}

SectionsInOrder == <<<<>>, <<"n">>, <<"s">>, <<"t">>>>
Asked == ({<<"a">>, <<"n", "a">>, <<"s", "b">>} \X {NoValue, two})
           \cup {<<<<"t">>, NoValue>>, <<<<"t", "b">>, two>>, <<<<"a">>, Table>>}

\* The schema takes no 2 for b in t.
Schema == <<"t", "b">> :> {one}

\* t = { a = """
\* x = """, b = 1 }
\* u = """ } # """
Tricky ==
  Line(<<"t">>, <<LBrace, Key(<<"a">>), Triple, Newline, Key(<<"x">>), Triple,
                  Comma, Key(<<"b">>), Atom("1"), RBrace>>)
  \o Line(<<"u">>, <<Triple, RBrace, Hash, Triple>>)
TrickyDocuments == {Tricky}
TrickyAsked == {<<<<"t", "b">>, NoValue>>, <<<<"u">>, NoValue>>, <<<<"a">>, one>>}
=============================================================================
