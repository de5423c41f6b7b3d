--------------------------- MODULE AppearanceCodec ---------------------------
(***************************************************************************)
(* Appearances and the two document formats that hold them: parse and      *)
(* serialize of src/src/codec.cpp (version 1, complete and strict), the    *)
(* decoder of src/src/appearance_document.cpp (version 2, sparse and       *)
(* lenient about unknown fields) and the validator both of them end in.    *)
(*                                                                         *)
(* A document has a node, or Absent, at each key.  A node is a tuple that  *)
(* begins with its TOML type: <<"string", text, padded>>, <<"integer", n>>,*)
(* <<"float", hundredths>>, <<"boolean", b>>, <<"table">>.  Infinities and *)
(* NaN are floats out of every range.                                      *)
(***************************************************************************)
EXTENDS Integers

CONSTANTS
  Absent,      \* no node at a key, std::nullopt in memory
  Missing,     \* no file
  Malformed,   \* bytes that are not TOML, or too many
  Failed,      \* a Result without a value
  Bytes,       \* texts without surrounding white space, and their length
  IllFormed,   \* those that are not UTF-8; only callers have such texts
  Unescaped,   \* those with a control character that quote leaves alone
  Others       \* keys that no table of the schema has

-----------------------------------------------------------------------------
(* The fields *)

Version == <<"version">>
Style   == <<"shape", "style">>

\* Identifiers and the bytes they may have.
Texts == ({"theme"} \X {"scheme", "accent"}) \cup
         ({"icons"} \X {"theme", "fallback", "cursor"}) \cup
         ({"typography"} \X {"ui_family", "monospace_family",
                             "title_family", "display_family"})

Limit == [k \in Texts |-> IF k[1] = "theme" THEN 128 ELSE 256]

Sizes == {"typography"} \X {"ui_size", "monospace_size", "title_size", "display_size"}

\* Numbers and their ranges, in hundredths.
Extents == {"shape"} \X {"base_radius", "base_chamfer"}
Numbers == Extents \cup ({"layout", "shape"} \X {"scale"})

Span == [k \in Numbers |-> IF k \in Extents THEN 0..12800
                          ELSE IF k[1] = "layout" THEN 50..300 ELSE 25..400]

Fields   == Texts \cup Sizes \cup Numbers \cup {Style}
Required == Fields \ Extents
Keys     == Fields \cup {Version} \cup Others
Styles   == {"inherit", "hybrid", "rounded", "chamfered"}

Text(t)   == <<"string", t, FALSE>>
Int64(n)  == <<"integer", n>>
Double(n) == <<"float", n>>
Nodes     == ({"string"} \X (DOMAIN Bytes) \X BOOLEAN) \cup ({"integer", "float"} \X Int)
               \cup ({"boolean"} \X BOOLEAN) \cup {<<"table">>}

DefaultText ==
  [k \in Texts \cup {Style} |->
     CASE k = <<"theme", "scheme">>                -> "holonight-dark"
       [] k = <<"theme", "accent">>                -> "blue"
       [] k = <<"typography", "ui_family">>        -> "Inter"
       [] k = <<"typography", "monospace_family">> -> "JetBrains Mono"
       [] k = <<"typography", "title_family">>     -> "Audiowide"
       [] k = <<"typography", "display_family">>   -> "Rajdhani"
       [] k = <<"icons", "theme">>                 -> "HoloNight"
       [] k = <<"icons", "fallback">>              -> "Papirus"
       [] k = <<"icons", "cursor">>                -> "default"
       [] k = Style                                -> "inherit"]

DefaultSize ==
  [k \in Sizes |-> CASE k[2] = "title_size" -> 10 [] k[2] = "display_size" -> 24
                     [] OTHER -> 12]

\* An appearance in memory has its version and a value at every field.
Defaults ==
  [k \in Fields \cup {Version} |->
     CASE k \in DOMAIN DefaultText -> Text(DefaultText[k])
       [] k \in Sizes   -> Int64(DefaultSize[k])
       [] k \in Extents -> Absent
       [] k = Version   -> Int64(1)
       [] OTHER         -> Double(100)]

\* The fields have the types of the members of struct Appearance.
AppearanceType ==
  {a \in [Fields \cup {Version} -> Nodes \cup {Absent}] :
     /\ \A k \in Texts : a[k] \in {"string"} \X (DOMAIN Bytes) \X BOOLEAN
     /\ \A k \in Sizes \cup {Version} : a[k] \in {"integer"} \X Int
     /\ \A k \in Numbers \ Extents : a[k] \in {"float"} \X Int
     /\ \A k \in Extents : a[k] \in ({"float"} \X Int) \cup {Absent}
     /\ a[Style] \in {Text(s) : s \in Styles}}

\* No field is an unknown key, and the texts that are defaults have a length in
\* range, are UTF-8 and have no control characters.
ASSUME CodecAssumption ==
  /\ Absent \notin Nodes
  /\ Missing # Malformed
  /\ {Missing, Malformed} \cap [Keys -> Nodes \cup {Absent}] = {}
  /\ Others \cap (Fields \cup {Version}) = {}
  /\ Styles \subseteq DOMAIN Bytes
  /\ \A k \in Texts : /\ DefaultText[k] \in DOMAIN Bytes \ (IllFormed \cup Unescaped)
                      /\ Bytes[DefaultText[k]] \in 1..Limit[k]

-----------------------------------------------------------------------------
(* Validation *)

\* trim, of every identifier.  validate looks at the text without the padding.
Trimmed(k, v) == IF k \in Texts THEN Text(v[2]) ELSE v

Normalized(a) == [k \in DOMAIN a |-> Trimmed(k, a[k])]

ValidIdentifier(k, v) == v[2] \notin IllFormed /\ Bytes[v[2]] \in 1..Limit[k]
ValidFontSize(v)      == v[2] \in 6..48
ValidFiniteRange(k, v) == v = Absent \/ v[2] \in Span[k]

Validates(a) ==
  /\ a[Version] = Int64(1)
  /\ \A k \in Texts   : ValidIdentifier(k, a[k])
  /\ \A k \in Sizes   : ValidFontSize(a[k])
  /\ \A k \in Numbers : ValidFiniteRange(k, a[k])

-----------------------------------------------------------------------------
(* Version 1 *)

\* node::value<int64_t> takes whole floats and booleans too, and so does, by
\* its second attempt, requiredNumber.
AsInteger(v) ==
  CASE v[1] = "integer" -> v
    [] v[1] = "float" /\ v[2] % 100 = 0 -> Int64(v[2] \div 100)
    [] v[1] = "boolean" -> Int64(IF v[2] THEN 1 ELSE 0)
    [] OTHER -> Absent

AsNumber(v) ==
  IF v[1] = "float" \/ AsInteger(v) = Absent THEN v ELSE Double(100 * AsInteger(v)[2])

\* What the decoder makes of a node; Absent is a diagnostic.
Converted(k, v) ==
  CASE k \in Texts   -> IF v[1] = "string" THEN v ELSE Absent
    [] k = Style     -> IF \E s \in Styles : v = Text(s) THEN v ELSE Absent
    [] k \in Numbers -> IF AsNumber(v)[1] = "float" THEN AsNumber(v) ELSE Absent
    [] OTHER         -> AsInteger(v)

Present(doc) == {k \in Keys : doc[k] # Absent}

\* Every field is there and none is unknown, each of a type that converts.
Complete(doc) ==
  /\ Required \cup {Version} \subseteq Present(doc)
  /\ Present(doc) \subseteq Fields \cup {Version}
  /\ \A k \in Present(doc) : Converted(k, doc[k]) # Absent

Parse(doc) ==
  IF doc = Malformed \/ ~ Complete(doc) THEN Failed
  ELSE LET a == Normalized([k \in Fields \cup {Version} |->
                              IF doc[k] = Absent THEN Absent ELSE Converted(k, doc[k])])
       IN IF Validates(a) THEN a ELSE Failed

\* quote: the output is TOML unless it has a bare control character.
Quotable(a) == \A k \in Texts : a[k][2] \notin Unescaped

\* serialize: the whole document, without the options that are not set.
Serialize(a) ==
  IF ~ Validates(a) THEN Failed
  ELSE IF ~ Quotable(a) THEN Malformed
  ELSE LET canonical == Normalized(a) IN
       [k \in Keys |-> IF k \in Others THEN Absent ELSE canonical[k]]

-----------------------------------------------------------------------------
(* Version 2 *)

\* invalidType: floats may be written as integers.
InvalidType(k, v) ==
  IF k \in Numbers THEN v[1] \notin {"integer", "float"} ELSE v[1] # Defaults[k][1]

\* A scalar in the place of a table.
InvalidTable(k) == \E f \in Fields : k = <<f[1]>>

\* overlay: notes that are errors; other keys it does not know are warnings.
Mistyped(doc) ==
  \E k \in Present(doc) \ {Version} :
    IF k \in Fields THEN InvalidType(k, doc[k]) ELSE InvalidTable(k)

Template == Serialize(Defaults)

\* overlay: what is set, over the defaults.
Effective(doc) ==
  [k \in Keys |-> IF k \in Fields /\ doc[k] # Absent THEN doc[k] ELSE Template[k]]

\* Mutant: a version from the future is read as version 2.
AnyVersion == {Int64(n) : n \in 2..9}

EditingVersions == {Int64(2)}

\* decodeAppearanceDocument: the appearance a snapshot stands for.
Decode(doc) ==
  IF doc = Missing THEN Defaults
  ELSE IF doc = Malformed THEN Failed
  ELSE IF doc[Version] = Int64(1) THEN Parse(doc)
  ELSE IF doc[Version] \notin EditingVersions \/ Mistyped(doc) THEN Failed
  ELSE Parse(Effective(doc))

\* appearanceDocumentSchema: a field that has a default has its type, or is an
\* integer for a float.  A field that is a table has no value.
WellTyped(doc) ==
  doc = Missing \/
  \A k \in Required \cap Present(doc) :
    \/ doc[k][1] \in {"table", Defaults[k][1]}
    \/ k \in Numbers /\ doc[k][1] = "integer"

\* validateDocument with that schema, whose domain validator is the decoder.
Accepted(doc) == WellTyped(doc) /\ Decode(doc) # Failed

=============================================================================
