------------------------ MODULE MCAppearanceDocument ------------------------
(* Documents, edits and values for AppearanceDocument.                      *)
EXTENDS AppearanceDocument, TLC

CONSTANTS p, q

Scheme == <<"theme", "scheme">>
Accent == <<"theme", "accent">>
Size   == <<"typography", "ui_size">>
Radius == <<"shape", "base_radius">>
Extra  == <<"theme", "extra">>
Theme  == <<"theme">>
MCOthers == {Extra, Theme}

\* "x128" and "x257" are as long as their names say, or one too long.
DefaultTexts == {DefaultText[k] : k \in DOMAIN DefaultText}
MCBytes == [t \in DefaultTexts \cup Styles \cup {"light", "latin1", "escape"} |-> 8]
             @@ ("" :> 0) @@ ("x128" :> 128) @@ ("x129" :> 129)

Full == Serialize(Defaults)
None2 == [k \in Keys |-> Absent]
With(doc, k, v) == [doc EXCEPT ![k] = v]
V2(doc) == With(doc, Version, Int64(2))

\* Version 1, with integers for floats and white space; version 2, sparse.
Plain1  == With(With(Full, <<"shape", "scale">>, Int64(1)), Accent, <<"string", "blue", TRUE>>)
Sparse2 == With(V2(None2), Radius, Int64(4))
Whole1  == With(Full, Size, Double(1200))
MCInitial == {Missing, Full, Plain1, Sparse2, With(V2(None2), Extra, <<"table">>)}

Edit(k, from, to) == k :> [baseline |-> from, pending |-> to]
MCStaged == {
  Edit(Scheme, Absent, Text("light")),
  Edit(Scheme, Text("holonight-dark"), Text("light")),
  Edit(Scheme, Text("holonight-dark"), Absent),
  Edit(Radius, Absent, Int64(8)) @@ Edit(Accent, <<"string", "blue", TRUE>>, <<"string", "x128", TRUE>>),
  Edit(Size, Absent, Int64(49)),
  Edit(Size, Int64(12), Double(1300)),
  Edit(Version, Int64(1), Int64(2))}

A(k, v) == [Defaults EXCEPT ![k] = v]
MCAppearances == {
  Defaults, A(Scheme, <<"string", "x128", TRUE>>), A(Scheme, Text("x129")),
  A(Radius, Double(12800)), A(Size, Int64(5)), A(Version, Int64(2)), A(Accent, Text("latin1"))}

MCEdited == {
  Missing, Malformed, With(Full, Version, Int64(3)), With(Full, Radius, Absent),
  With(Full, Accent, Absent), With(V2(None2), Theme, Int64(1)), Whole1,
  With(V2(None2), Scheme, Text("")), With(Full, Extra, Int64(1))}

\* A staging client and one of each kind, or every client of every kind.
Mixed == p :> {"stage"} @@ q :> {"stage", "write", "load"}

WithControl == {A(Scheme, Text("escape"))}
Writers == p :> {"write"} @@ q :> {"stage"}
=============================================================================
