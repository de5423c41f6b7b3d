---------------------- MODULE AppearanceMeaningProofs ----------------------
(***************************************************************************)
(* What the codec writes it reads back; an edit of a document, of either   *)
(* version, changes the appearance it stands for as it changes the         *)
(* document; and so what the clients of a path write stands for what they  *)
(* mean, for any number of them, any documents, edits and appearances, as  *)
(* long as no text that is written has a control character.                *)
(***************************************************************************)
EXTENDS AppearanceDocumentProofs

-----------------------------------------------------------------------------
(* The fields.                                                               *)

\* A field is of one kind, which its names tell.
LEMMA FieldKinds ==
  /\ \A k \in Texts : k \notin Sizes /\ k \notin Numbers /\ k # Style /\ k # Version
  /\ \A k \in Sizes : k \notin Numbers /\ k # Style /\ k # Version
  /\ \A k \in Numbers : k # Style /\ k # Version
  /\ Style # Version
<1>1. \A k \in Texts : \/ k[1] \in {"theme", "icons"}
                       \/ k[2] \in {"ui_family", "monospace_family",
                                    "title_family", "display_family"}
  BY DEF Texts
<1>2. \A k \in Texts : k = <<k[1], k[2]>> /\ k[1] \in {"theme", "icons", "typography"}
  BY DEF Texts
<1>3. \A k \in Sizes : /\ k = <<k[1], k[2]>>
                       /\ k[1] = "typography"
                       /\ k[2] \in {"ui_size", "monospace_size",
                                    "title_size", "display_size"}
  BY DEF Sizes
<1>4. \A k \in Numbers : /\ k = <<k[1], k[2]>>
                         /\ k[1] \in {"shape", "layout"}
                         /\ k[2] # "style"
  BY DEF Numbers, Extents
<1>5. \A x, y : <<x, y>> # Version
  BY DEF Version
<1>6. Style = <<"shape", "style">>
  BY DEF Style
<1> QED
  BY <1>1, <1>2, <1>3, <1>4, <1>5, <1>6

\* What nodes are made of, and which are different.
LEMMA NodeKinds ==
  /\ \A v : v \in {"string"} \X (DOMAIN Bytes) \X BOOLEAN
            <=> \E t \in DOMAIN Bytes, padded \in BOOLEAN : v = <<"string", t, padded>>
  /\ \A v : v \in {"integer"} \X Int <=> \E n \in Int : v = Int64(n)
  /\ \A v : v \in {"float"} \X Int <=> \E n \in Int : v = Double(n)
  /\ \A t \in DOMAIN Bytes, padded \in BOOLEAN : <<"string", t, padded>> \in Nodes
  /\ \A t \in DOMAIN Bytes : Text(t) \in Nodes
  /\ \A n \in Int : Int64(n) \in Nodes /\ Double(n) \in Nodes
  /\ \A v \in Nodes : v # Absent
<1>1. \A t \in DOMAIN Bytes, padded \in BOOLEAN : <<"string", t, padded>> \in Nodes
  BY DEF Nodes
<1>2. \A n \in Int : Int64(n) \in Nodes /\ Double(n) \in Nodes
  BY DEF Nodes, Int64, Double
<1>3. \A v : v \in {"string"} \X (DOMAIN Bytes) \X BOOLEAN
            <=> \E t \in DOMAIN Bytes, padded \in BOOLEAN : v = <<"string", t, padded>>
  OBVIOUS
<1>4. \A v : v \in {"integer"} \X Int <=> \E n \in Int : v = Int64(n)
  BY DEF Int64
<1>5. \A v : v \in {"float"} \X Int <=> \E n \in Int : v = Double(n)
  BY DEF Double
<1>6. \A t \in DOMAIN Bytes : Text(t) \in Nodes
  BY <1>1 DEF Text
<1> QED
  BY <1>1, <1>2, <1>3, <1>4, <1>5, <1>6, CodecAssumption

\* The parts of a node.
LEMMA NodeParts ==
  /\ \A t : Text(t)[1] = "string" /\ Text(t)[2] = t
  /\ \A n : Int64(n)[1] = "integer" /\ Int64(n)[2] = n
  /\ \A n : Double(n)[1] = "float" /\ Double(n)[2] = n
BY DEF Text, Int64, Double

\* The built-in appearance has a value of its type at every field.
LEMMA DefaultsValues ==
  /\ \A k \in Texts : Defaults[k] = Text(DefaultText[k])
  /\ \A k \in Sizes : Defaults[k] \in {Int64(10), Int64(12), Int64(24)}
  /\ \A k \in Extents : Defaults[k] = Absent
  /\ \A k \in Numbers \ Extents : Defaults[k] = Double(100)
  /\ Defaults[Style] = Text("inherit")
  /\ Defaults[Version] = Int64(1)
<1>1. DOMAIN DefaultText = Texts \cup {Style}
  BY DEF DefaultText
<1>2. Extents \subseteq Numbers
  BY DEF Numbers
<1>3. \A k \in Sizes : DefaultSize[k] \in {10, 12, 24}
  BY DEF DefaultSize
<1>4. DefaultText[Style] = "inherit"
  BY DEF DefaultText, Style
<1>5. \A k \in Texts : Defaults[k] = Text(DefaultText[k])
  BY <1>1, <1>2, FieldKinds DEF Defaults, Fields
<1>6. \A k \in Sizes : Defaults[k] = Int64(DefaultSize[k])
  BY <1>1, <1>2, FieldKinds DEF Defaults, Fields
<1>7. \A k \in Extents : Defaults[k] = Absent
  BY <1>1, <1>2, FieldKinds DEF Defaults, Fields
<1>8. \A k \in Numbers \ Extents : Defaults[k] = Double(100)
  BY <1>1, <1>2, FieldKinds DEF Defaults, Fields
<1>9. Defaults[Style] = Text("inherit")
  BY <1>1, <1>2, <1>4, FieldKinds DEF Defaults, Fields
<1>10. Defaults[Version] = Int64(1)
  BY <1>1, <1>2, FieldKinds DEF Defaults, Fields
<1> QED
  BY <1>3, <1>5, <1>6, <1>7, <1>8, <1>9, <1>10

\* It has its type, it is valid, and nothing in it needs an escape.
LEMMA DefaultsAreGood ==
  Defaults \in AppearanceType /\ Validates(Defaults) /\ Quotable(Defaults)
<1>1. \A k \in Texts : /\ Defaults[k] = <<"string", DefaultText[k], FALSE>>
                       /\ DefaultText[k] \in DOMAIN Bytes
  BY DefaultsValues, CodecAssumption DEF Text
<1>2. \A k \in Sizes \cup {Version} : \E n \in Int : Defaults[k] = Int64(n)
  BY DefaultsValues
<1>3. \A k \in Numbers \ Extents : \E n \in Int : Defaults[k] = Double(n)
  BY DefaultsValues
<1>4. Defaults[Style] = Text("inherit") /\ "inherit" \in Styles
  BY DefaultsValues DEF Styles
<1>5. Defaults \in [Fields \cup {Version} -> Nodes \cup {Absent}]
  <2>1. \A k \in Texts : Defaults[k] \in Nodes
    BY <1>1, NodeKinds
  <2>2. Defaults[Style] \in Nodes
    BY <1>4, NodeKinds, CodecAssumption
  <2>3. \A k \in Sizes \cup {Version} : Defaults[k] \in Nodes
    BY <1>2, NodeKinds
  <2>4. \A k \in Numbers : Defaults[k] \in Nodes \cup {Absent}
    BY <1>3, DefaultsValues, NodeKinds
  <2>5. \A k \in Fields \cup {Version} : Defaults[k] \in Nodes \cup {Absent}
    BY <2>1, <2>2, <2>3, <2>4 DEF Fields
  <2> QED
    BY <2>5 DEF Defaults
<1>6. \A k \in Texts : ValidIdentifier(k, Defaults[k]) /\ Defaults[k][2] \notin Unescaped
  <2>1. \A k \in Texts : Defaults[k][2] = DefaultText[k]
    BY DefaultsValues, NodeParts
  <2> QED
    BY <2>1, CodecAssumption DEF ValidIdentifier
<1>7. \A k \in Sizes : ValidFontSize(Defaults[k])
  BY DefaultsValues, NodeParts DEF ValidFontSize
<1>8. \A k \in Numbers : ValidFiniteRange(k, Defaults[k])
  <2>1. ASSUME NEW k \in Numbers
        PROVE  100 \in Span[k]
    <3>1. CASE k \in Extents
      BY <3>1 DEF Span
    <3>2. CASE k \notin Extents /\ k[1] = "layout"
      BY <3>2 DEF Span
    <3>3. CASE k \notin Extents /\ k[1] # "layout"
      BY <3>3 DEF Span
    <3> QED
      BY <3>1, <3>2, <3>3
  <2> QED
    BY <2>1, DefaultsValues, NodeParts DEF ValidFiniteRange
<1>9. /\ \A k \in Texts : Defaults[k] \in {"string"} \X (DOMAIN Bytes) \X BOOLEAN
      /\ \A k \in Sizes \cup {Version} : Defaults[k] \in {"integer"} \X Int
      /\ \A k \in Numbers \ Extents : Defaults[k] \in {"float"} \X Int
  BY <1>1, <1>2, <1>3, NodeKinds
<1>10. Defaults \in AppearanceType
  BY <1>4, <1>5, <1>9, DefaultsValues DEF AppearanceType
<1>11. Defaults[Version] = Int64(1)
  BY DefaultsValues
<1> QED
  BY <1>6, <1>7, <1>8, <1>10, <1>11 DEF Validates, Quotable

-----------------------------------------------------------------------------
(* The round trip.                                                           *)

\* What an appearance has at each kind of field.
LEMMA FieldValues ==
  ASSUME NEW a \in AppearanceType
  PROVE  /\ \A k \in Texts :
              \E t \in DOMAIN Bytes, padded \in BOOLEAN : a[k] = <<"string", t, padded>>
         /\ \A k \in Sizes \cup {Version} : \E n \in Int : a[k] = Int64(n)
         /\ \A k \in Numbers :
              a[k] # Absent \/ k \notin Extents => \E n \in Int : a[k] = Double(n)
         /\ \E s \in Styles : a[Style] = Text(s)
         /\ \A k \in Required \cup {Version} : a[k] # Absent
<1>1. \A k \in Texts :
        \E t \in DOMAIN Bytes, padded \in BOOLEAN : a[k] = <<"string", t, padded>>
  BY NodeKinds DEF AppearanceType
<1>2. \A k \in Sizes \cup {Version} : \E n \in Int : a[k] = Int64(n)
  BY NodeKinds DEF AppearanceType
<1>3. \A k \in Numbers :
        a[k] # Absent \/ k \notin Extents => \E n \in Int : a[k] = Double(n)
  BY NodeKinds DEF AppearanceType
<1>4. \E s \in Styles : a[Style] = Text(s)
  BY DEF AppearanceType
<1>5. \A k \in Texts \cup Sizes \cup {Version, Style} \cup (Numbers \ Extents) :
        a[k] \in Nodes
  <2>1. \A k \in Texts : a[k] \in Nodes
    BY DEF AppearanceType, Nodes
  <2>2. \A k \in Sizes \cup {Version} : a[k] \in Nodes
    BY <1>2, NodeKinds
  <2>3. \A k \in Numbers \ Extents : a[k] \in Nodes
    BY <1>3, NodeKinds
  <2>4. a[Style] \in Nodes
    BY <1>4, NodeKinds, CodecAssumption
  <2> QED
    BY <2>1, <2>2, <2>3, <2>4
<1>6. \A k \in Required \cup {Version} : a[k] # Absent
  BY <1>5, NodeKinds DEF Required, Fields
<1> QED
  BY <1>1, <1>2, <1>3, <1>4, <1>6

\* What an appearance has at a field is what the decoder makes of it.
LEMMA ConvertedSame ==
  ASSUME NEW a \in AppearanceType, NEW k \in Fields \cup {Version}, a[k] # Absent
  PROVE  /\ Converted(k, Trimmed(k, a[k])) = Trimmed(k, a[k])
         /\ Trimmed(k, Trimmed(k, a[k])) = Trimmed(k, a[k])
         /\ Trimmed(k, a[k]) \in Nodes
<1> /\ k \in Texts =>
         \E t \in DOMAIN Bytes, padded \in BOOLEAN : a[k] = <<"string", t, padded>>
    /\ k \in Sizes \cup {Version} => \E n \in Int : a[k] = Int64(n)
    /\ k \in Numbers => \E n \in Int : a[k] = Double(n)
    /\ k = Style => \E s \in Styles : a[k] = Text(s)
  BY FieldValues
<1>1. CASE k \in Texts
  <2>1. PICK t \in DOMAIN Bytes, padded \in BOOLEAN : a[k] = <<"string", t, padded>>
    BY <1>1
  <2>2. Trimmed(k, a[k]) = Text(t)
    BY <1>1, <2>1 DEF Trimmed
  <2>3. Converted(k, Text(t)) = Text(t) /\ Trimmed(k, Text(t)) = Text(t)
    BY <1>1, FieldKinds, NodeParts DEF Trimmed, Converted
  <2>4. Text(t) \in Nodes
    BY NodeKinds
  <2> QED
    BY <2>2, <2>3, <2>4
<1>2. CASE k = Style
  <2>1. PICK s \in Styles : a[k] = Text(s)
    BY <1>2
  <2>2. \A v : Trimmed(k, v) = v
    BY <1>2, FieldKinds DEF Trimmed
  <2>3. Converted(k, Text(s)) = Text(s)
    BY <1>2, FieldKinds DEF Converted
  <2>4. Text(s) \in Nodes
    BY NodeKinds, CodecAssumption
  <2> QED
    BY <2>1, <2>2, <2>3, <2>4
<1>3. CASE k \in Sizes \cup {Version}
  <2>1. PICK n \in Int : a[k] = Int64(n)
    BY <1>3
  <2>2. \A v : Trimmed(k, v) = v
    BY <1>3, FieldKinds DEF Trimmed
  <2>3. k \notin Texts /\ k # Style /\ k \notin Numbers
    BY <1>3, FieldKinds
  <2>4. Converted(k, Int64(n)) = Int64(n)
    BY <2>3, NodeParts DEF Converted, AsInteger
  <2> QED
    BY <2>1, <2>2, <2>4, NodeKinds
<1>4. CASE k \in Numbers
  <2>1. PICK n \in Int : a[k] = Double(n)
    BY <1>4
  <2>2. \A v : Trimmed(k, v) = v
    BY <1>4, FieldKinds DEF Trimmed
  <2>3. k \notin Texts /\ k # Style
    BY <1>4, FieldKinds
  <2>4. Converted(k, Double(n)) = Double(n)
    BY <1>4, <2>3, NodeParts DEF Converted, AsNumber
  <2> QED
    BY <2>1, <2>2, <2>4, NodeKinds
<1> QED
  BY <1>1, <1>2, <1>3, <1>4 DEF Fields

\* The fields of a document, as the decoder takes them over.
Taken(doc) ==
  [k \in Fields \cup {Version} |->
     IF doc[k] = Absent THEN Absent ELSE Trimmed(k, Converted(k, doc[k]))]

\* Parse gives what it takes over, if that is there, known and valid.
LEMMA ParseTakes ==
  ASSUME NEW doc, doc # Malformed, Parse(doc) # Failed
  PROVE  Parse(doc) = Taken(doc) /\ Complete(doc)
<1> DEFINE a == [k \in Fields \cup {Version} |->
                   IF doc[k] = Absent THEN Absent ELSE Converted(k, doc[k])]
<1>1. Complete(doc) /\ Parse(doc) = Normalized(a)
  BY DEF Parse
<1>2. \A k \in Texts : doc[k] # Absent
  <2>1. Texts \subseteq Required
    BY FieldKinds DEF Required, Fields, Numbers
  <2> QED
    BY <1>1, <2>1 DEF Complete, Present
<1>3. Normalized(a) = Taken(doc)
  BY <1>2 DEF Normalized, Trimmed, Taken
<1> QED
  BY <1>1, <1>3

\* What is written, field by field.
LEMMA Serialized ==
  ASSUME NEW a \in AppearanceType, Validates(a), Quotable(a)
  PROVE  /\ Serialize(a) \in [Keys -> Nodes \cup {Absent}]
         /\ \A k \in Others : Serialize(a)[k] = Absent
         /\ \A k \in Fields \cup {Version} :
              /\ Serialize(a)[k] = Normalized(a)[k]
              /\ Normalized(a)[k] = Trimmed(k, a[k])
<1>1. DOMAIN a = Fields \cup {Version}
  BY DEF AppearanceType
<1>2. Serialize(a) = [k \in Keys |-> IF k \in Others THEN Absent ELSE Normalized(a)[k]]
  BY DEF Serialize
<1>3. \A k \in Fields \cup {Version} : Normalized(a)[k] = Trimmed(k, a[k])
  BY <1>1 DEF Normalized
<1>4. \A k \in Fields \cup {Version} : Trimmed(k, a[k]) \in Nodes \cup {Absent}
  <2> SUFFICES ASSUME NEW k \in Fields \cup {Version}
               PROVE  Trimmed(k, a[k]) \in Nodes \cup {Absent}
    OBVIOUS
  <2>1. CASE a[k] # Absent
    BY <2>1, ConvertedSame
  <2>2. CASE a[k] = Absent
    <3>1. k \notin Texts
      BY <2>2, NodeKinds DEF AppearanceType
    <3> QED
      BY <2>2, <3>1 DEF Trimmed
  <2> QED
    BY <2>1, <2>2
<1>5. \A k \in Keys : k \in Others \/ k \in Fields \cup {Version}
  BY DEF Keys
<1>6. \A k \in Fields \cup {Version} : k \in Keys /\ k \notin Others
  BY CodecAssumption DEF Keys
<1> QED
  BY <1>2, <1>3, <1>4, <1>5, <1>6 DEF Keys

\* What serialize writes is a document of version 1 that parses, as codec_test
\* expects of its examples, to the appearance that was written, trimmed.
THEOREM RoundTrip ==
  ASSUME NEW a \in AppearanceType, Validates(a), Quotable(a)
  PROVE  Decode(Serialize(a)) = Normalized(a)
<1> DEFINE doc == Serialize(a)
<1>1. /\ doc \in [Keys -> Nodes \cup {Absent}]
      /\ \A k \in Others : doc[k] = Absent
      /\ \A k \in Fields \cup {Version} : doc[k] = Trimmed(k, a[k])
      /\ Normalized(a) = [k \in Fields \cup {Version} |-> Trimmed(k, a[k])]
  BY Serialized DEF Normalized, AppearanceType
<1>2. doc # Missing /\ doc # Malformed
  BY <1>1, CodecAssumption
<1>3. a[Version] = Int64(1) /\ doc[Version] = Int64(1)
  BY <1>1, FieldKinds DEF Validates, Trimmed
<1> HIDE DEF doc
<1>4. \A k \in Fields \cup {Version} : a[k] = Absent => doc[k] = Absent
  BY <1>1, NodeKinds DEF AppearanceType, Trimmed
<1>5. \A k \in Fields \cup {Version} :
        doc[k] # Absent => /\ Converted(k, doc[k]) = doc[k]
                           /\ Converted(k, doc[k]) # Absent
                           /\ Trimmed(k, doc[k]) = doc[k]
  BY <1>1, <1>4, ConvertedSame, NodeKinds
<1>6. \A k \in Required \cup {Version} : doc[k] # Absent
  <2>1. \A k \in Required \cup {Version} : k \in Fields \cup {Version} /\ a[k] # Absent
    BY FieldValues DEF Required
  <2> QED
    BY <1>1, <2>1, ConvertedSame, NodeKinds
<1>7. Complete(doc)
  <2>1. Present(doc) \subseteq Fields \cup {Version}
    BY <1>1 DEF Present, Keys
  <2>2. Required \cup {Version} \subseteq Present(doc)
    BY <1>6 DEF Present, Keys, Required
  <2> QED
    BY <1>5, <2>1, <2>2 DEF Complete, Present
<1> DEFINE got == [k \in Fields \cup {Version} |->
                     IF doc[k] = Absent THEN Absent ELSE Converted(k, doc[k])]
<1>8. Normalized(got) = Normalized(a)
  <2>1. \A k \in Fields \cup {Version} : Trimmed(k, got[k]) = Trimmed(k, a[k])
    <3> SUFFICES ASSUME NEW k \in Fields \cup {Version}
                 PROVE  Trimmed(k, got[k]) = Trimmed(k, a[k])
      OBVIOUS
    <3>1. CASE doc[k] # Absent
      BY <1>1, <1>5, <3>1
    <3>2. CASE doc[k] = Absent
      <4>1. a[k] = Absent
        BY <1>1, <3>2, ConvertedSame, NodeKinds
      <4> QED
        BY <3>2, <4>1
    <3> QED
      BY <3>1, <3>2
  <2> QED
    BY <1>1, <2>1 DEF Normalized
<1>9. Validates(Normalized(a))
  <2>1. /\ \A k \in Texts : Normalized(a)[k][2] = a[k][2]
        /\ \A k \in Sizes \cup Numbers \cup {Version} : Normalized(a)[k] = a[k]
    BY <1>1, FieldKinds, NodeParts DEF Trimmed, Fields
  <2> QED
    BY <2>1 DEF Validates, ValidIdentifier, ValidFontSize, ValidFiniteRange
<1>10. Parse(doc) = Normalized(a)
  BY <1>2, <1>7, <1>8, <1>9 DEF Parse
<1> QED
  BY <1>2, <1>3, <1>10 DEF Decode, doc

-----------------------------------------------------------------------------
(* Both versions.                                                            *)

\* What version 2 leaves out is as in the built-in appearance.
LEMMA TemplateIsDefaults ==
  /\ Template \in [Keys -> Nodes \cup {Absent}]
  /\ \A k \in Fields \cup {Version} : /\ Template[k] = Defaults[k]
                                     /\ Trimmed(k, Defaults[k]) = Defaults[k]
<1>1. \A k \in Fields \cup {Version} : Trimmed(k, Defaults[k]) = Defaults[k]
  BY DefaultsValues, NodeParts DEF Trimmed
<1> QED
  BY <1>1, DefaultsAreGood, Serialized DEF Template

\* The appearance of a document that sets nothing is the built-in one.
LEMMA DefaultsAreTaken ==
  ASSUME NEW k \in Fields \cup {Version}, Defaults[k] # Absent
  PROVE  Trimmed(k, Converted(k, Defaults[k])) = Defaults[k]
BY DefaultsAreGood, ConvertedSame, TemplateIsDefaults

\* A document of version 2 over the built-in appearance, which is of version 1.
LEMMA EffectiveFields ==
  ASSUME NEW doc \in [Keys -> Nodes \cup {Absent}]
  PROVE  /\ Effective(doc) \in [Keys -> Nodes \cup {Absent}]
         /\ Effective(doc)[Version] = Int64(1)
         /\ \A k \in Fields :
              Effective(doc)[k] = IF doc[k] # Absent THEN doc[k] ELSE Defaults[k]
<1>1. /\ Fields \subseteq Keys /\ Version \in Keys /\ Version \notin Fields
      /\ Fields \subseteq Fields \cup {Version}
  BY FieldKinds DEF Keys, Fields
<1>2. Effective(doc) \in [Keys -> Nodes \cup {Absent}]
  BY TemplateIsDefaults DEF Effective
<1>3. \A k \in Fields :
        Effective(doc)[k] = IF doc[k] # Absent THEN doc[k] ELSE Defaults[k]
  BY <1>1, TemplateIsDefaults DEF Effective
<1>4. Effective(doc)[Version] = Template[Version]
  BY <1>1 DEF Effective
<1>5. Template[Version] = Int64(1)
  BY TemplateIsDefaults, DefaultsValues
<1> QED
  BY <1>2, <1>3, <1>4, <1>5

\* Whatever the version, a document stands for what it sets, over the defaults.
LEMMA DecodedFields ==
  ASSUME NEW doc \in [Keys -> Nodes \cup {Absent}], Decode(doc) # Failed
  PROVE  /\ Decode(doc) = [k \in Fields \cup {Version} |-> Decode(doc)[k]]
         /\ \A k \in Fields : Decode(doc)[k] = Taken(Effective(doc))[k]
         /\ Decode(doc)[Version] = Int64(1)
<1>1. doc # Missing /\ doc # Malformed
  BY CodecAssumption
<1>2. /\ Effective(doc) # Malformed
      /\ Effective(doc)[Version] = Int64(1)
      /\ \A k \in Fields :
           Effective(doc)[k] = IF doc[k] # Absent THEN doc[k] ELSE Defaults[k]
  BY EffectiveFields, CodecAssumption
<1>3. /\ Int64(1) # Absent
      /\ Trimmed(Version, Converted(Version, Int64(1))) = Int64(1)
  BY DefaultsAreTaken, DefaultsValues, NodeKinds
<1>4. CASE doc[Version] = Int64(1)
  <2>1. Decode(doc) = Taken(doc) /\ Complete(doc)
    BY <1>1, <1>4, ParseTakes DEF Decode
  <2>2. \A k \in Fields : doc[k] = Absent => k \in Extents
    BY <2>1 DEF Complete, Present, Required
  <2>3. \A k \in Fields : Taken(doc)[k] = Taken(Effective(doc))[k]
    BY <1>2, <2>2, DefaultsValues DEF Taken
  <2> QED
    BY <1>3, <1>4, <2>1, <2>3 DEF Taken
<1>5. CASE doc[Version] # Int64(1)
  <2>1. Decode(doc) = Taken(Effective(doc))
    BY <1>1, <1>2, <1>5, ParseTakes DEF Decode
  <2> QED
    BY <1>2, <1>3, <2>1 DEF Taken
<1> QED
  BY <1>4, <1>5

-----------------------------------------------------------------------------
(* One edit.                                                                 *)

\* A patch that succeeds makes the document stand for the appearance it stood
\* for before, with the edits, although its version changes.
THEOREM EditMeansItself ==
  ASSUME NEW doc, NEW batch, D!PatchStatus(doc, batch) = "Success",
         Version \in DOMAIN batch, batch[Version].pending = Int64(2)
  PROVE  Decode(D!Merge(doc, batch)) = Intended(doc, batch)
<1> DEFINE left == D!Merge(doc, batch)
<1>1. /\ doc \in [Keys -> Nodes \cup {Absent}] \cup {Missing}
      /\ left \in [Keys -> Nodes \cup {Absent}]
      /\ Decode(doc) # Failed /\ Decode(left) # Failed
  BY DEF D!PatchStatus, Accepted
<1>2. /\ Fields \subseteq Keys /\ Version \in Keys /\ Version \notin Fields
  BY FieldKinds DEF Keys, Fields
<1>3. \A k \in Fields : left[k] = IF k \in DOMAIN batch THEN batch[k].pending
                                                     ELSE D!ValuesOf(doc)[k]
  BY <1>2 DEF D!Merge
<1> HIDE DEF left
<1> DEFINE made(e, k) == IF e = Absent THEN Absent ELSE Trimmed(k, Converted(k, e))
<1>4. /\ Decode(left) = [k \in Fields \cup {Version} |-> Decode(left)[k]]
      /\ Decode(left)[Version] = Int64(1)
      /\ \A k \in Fields :
           Decode(left)[k] = made(IF left[k] # Absent THEN left[k] ELSE Defaults[k], k)
  BY <1>1, DecodedFields, EffectiveFields DEF Taken
<1>5. \A k \in Fields : made(Defaults[k], k) = Defaults[k]
  BY DefaultsAreTaken
<1>6. \A k \in Fields : k \notin DOMAIN batch => Decode(left)[k] = Decode(doc)[k]
  <2>1. CASE doc = Missing
    <3>1. \A k \in Fields : D!ValuesOf(doc)[k] = Absent
      BY <1>2, <2>1, CodecAssumption DEF D!ValuesOf, D!EmptyDoc
    <3>2. Decode(doc) = Defaults
      BY <2>1 DEF Decode
    <3> QED
      BY <1>3, <1>4, <1>5, <3>1, <3>2
  <2>2. CASE doc # Missing
    <3>1. D!ValuesOf(doc) = doc /\ doc \in [Keys -> Nodes \cup {Absent}]
      BY <1>1, <2>2 DEF D!ValuesOf
    <3>2. \A k \in Fields :
            Decode(doc)[k] = made(IF doc[k] # Absent THEN doc[k] ELSE Defaults[k], k)
      BY <1>1, <3>1, DecodedFields, EffectiveFields DEF Taken
    <3> QED
      BY <1>3, <1>4, <3>1, <3>2
  <2> QED
    BY <2>1, <2>2
<1>7. Decode(doc)[Version] = Int64(1)
  BY <1>1, DecodedFields, DefaultsValues DEF Decode
<1>8. \A k \in Fields \cup {Version} : Decode(left)[k] = Intended(doc, batch)[k]
  <2> SUFFICES ASSUME NEW k \in Fields \cup {Version}
               PROVE  Decode(left)[k] = Intended(doc, batch)[k]
    OBVIOUS
  <2>1. CASE k = Version
    BY <1>4, <1>7, <2>1 DEF Intended
  <2>2. CASE k # Version /\ k \notin DOMAIN batch
    BY <1>6, <2>2 DEF Intended
  <2>3. CASE k # Version /\ k \in DOMAIN batch
    BY <1>3, <1>4, <1>5, <2>3 DEF Intended
  <2> QED
    BY <2>1, <2>2, <2>3
<1>9. Intended(doc, batch) = [k \in Fields \cup {Version} |-> Intended(doc, batch)[k]]
  BY DEF Intended
<1>10. Decode(left) = Intended(doc, batch)
  BY <1>4, <1>8, <1>9
<1> QED
  BY <1>10 DEF left

-----------------------------------------------------------------------------
(* Every write.                                                              *)

\* What a call is about to write stands for what it means: the text of
\* writeAtomically is that of the appearance it was given, and a stage leaves
\* the document it found with its own edits.
Meant(c) ==
  /\ Encoding(c)  => c.appearance \in Appearances
  /\ Renaming(c)  => /\ c.appearance \in Appearances /\ Validates(c.appearance)
                     /\ c.bytes = Serialize(c.appearance)
  /\ Replacing(c) => /\ D!PatchStatus(c.found, c.batch) = "Success"
                     /\ c.left = D!Merge(c.found, c.batch)

MeantInv ==
  /\ DOMAIN meant = Places /\ meant = [t \in Places |-> meant[t]]
  /\ \A p \in Procs : Meant(call[p])
  /\ StandsForWhatWasMeant

\* The calls that are about to write nothing.
LEMMA NothingMeant ==
  ASSUME NEW c, c.pc \notin {"encode", "temporary", "replace"}
  PROVE  Meant(c)
BY DEF Meant, Encoding, Renaming, Replacing

\* A new document changes nothing in what the calls of others mean.
LEMMA NoticedMeansTheSame ==
  ASSUME NEW c, Shaped(c), Meant(c), NEW place
  PROVE  Meant(Noticed(c, place))
<1> DEFINE d == Noticed(c, place)
<1>1. CASE c.kind = "load"
  <2>1. Looking(c) \/ Told(c)
    BY <1>1, ShapeByStep
  <2>2. d = [c EXCEPT !.looks = c.looks \cup {files'[leads']}]
    BY <1>1 DEF Noticed
  <2>3. d.pc = c.pc /\ c.pc \in {"exists", "size", "open", "done"}
    BY <2>1, <2>2 DEF Looking, Told, Record
  <2> HIDE DEF d
  <2> QED BY <2>3, NothingMeant DEF d
<1>2. CASE c.kind # "load" /\ c.pc = "replace"
  <2>1. Replacing(c)
    BY <1>2, ShapeByStep
  <2>2. d = [c EXCEPT !.raced = c.raced \/ c.at = place \/ c.at # leads']
    BY <1>2 DEF Noticed
  <2>3. /\ d.pc = "replace" /\ d.found = c.found /\ d.batch = c.batch /\ d.left = c.left
    BY <2>1, <2>2 DEF Replacing, Record
  <2>4. ~ Encoding(d) /\ ~ Renaming(d)
    BY <2>3 DEF Encoding, Renaming
  <2> HIDE DEF d
  <2>5. Meant(d)
    BY <2>1, <2>3, <2>4 DEF Meant
  <2> QED BY <2>5 DEF d
<1>3. CASE c.kind # "load" /\ c.pc # "replace"
  BY <1>3 DEF Noticed
<1> QED BY <1>1, <1>2, <1>3

\* A step that writes nothing.
LEMMA SilentStep ==
  ASSUME IInv, MeantInv, NEW p \in Procs, UNCHANGED <<files, meant>>, NEW c,
         call' = [call EXCEPT ![p] = c], Meant(c)
  PROVE  MeantInv'
<1>1. \A q \in Procs : Meant(call'[q])
  BY DEF IInv, MeantInv
<1>2. \A q \in Procs : Meant(call[q])'
  BY <1>1 DEF Meant
<1>3. StandsForWhatWasMeant'
  BY DEF MeantInv, StandsForWhatWasMeant
<1> QED BY <1>2, <1>3 DEF MeantInv

\* A step that replaces the document of a place by one that stands for what
\* is meant, or means nothing.
LEMMA WritingStep ==
  ASSUME IInv, MeantInv, NEW place \in Places, NEW doc, NEW appearance,
         files' = [files EXCEPT ![place] = doc],
         meant' = [meant EXCEPT ![place] = appearance],
         appearance # Absent => Decode(doc) = appearance,
         NEW p, NEW c, Written(place, p, c), Meant(c)
  PROVE  MeantInv'
<1>1. DOMAIN meant' = Places /\ meant' = [t \in Places |-> meant'[t]]
  BY DEF MeantInv
<1>2. ASSUME NEW q \in Procs PROVE Meant(call'[q])
  <2>1. Meant(call[q]) /\ Shaped(call[q])
    BY ShapeOf DEF MeantInv
  <2>2. Meant(Noticed(call[q], place))
    BY <2>1, NoticedMeansTheSame
  <2>3. call'[q] = IF q = p THEN c ELSE Noticed(call[q], place)
    BY DEF Written
  <2> QED BY <2>2, <2>3
<1>3. \A q \in Procs : Meant(call[q])'
  BY <1>2 DEF Meant
<1>4. ASSUME NEW t \in Places, meant'[t] # Absent
      PROVE  Decode(files'[t]) = meant'[t]
  <2>1. CASE t = place
    BY <1>4, <2>1 DEF IInv, MeantInv
  <2>2. CASE t # place
    <3>1. files'[t] = files[t] /\ meant'[t] = meant[t]
      BY <2>2 DEF IInv, MeantInv
    <3> QED BY <1>4, <3>1 DEF MeantInv, StandsForWhatWasMeant
  <2> QED BY <2>1, <2>2
<1>5. StandsForWhatWasMeant'
  BY <1>4 DEF StandsForWhatWasMeant
<1> QED BY <1>1, <1>3, <1>5 DEF MeantInv

\* The steps of a client that is about to write nothing afterwards.
LEMMA OtherStepsMeanNothing ==
  ASSUME IInv, MeantInv, NEW p \in Procs,
         \/ BeginStage(p) \/ ResolveTarget(p) \/ ReadStage(p) \/ Refuse(p)
         \/ WriteFails(p) \/ Return(p)
         \/ BeginLoad(p) \/ Exists(p) \/ FileSize(p) \/ OpenAndRead(p)
  PROVE  MeantInv'
<1>1. ASSUME NEW c, UNCHANGED <<files, meant>>, call' = [call EXCEPT ![p] = c],
             c.pc \notin {"encode", "temporary", "replace"}
      PROVE  MeantInv'
  BY <1>1, NothingMeant, SilentStep
<1>2. ASSUME NEW status, call' = [call EXCEPT ![p] = Answer(status)],
             UNCHANGED <<files, meant>>
      PROVE  MeantInv'
  BY <1>1, <1>2 DEF Goto, Answer
<1>3. CASE BeginStage(p)
  <2>1. PICK batch \in Staged :
          Begin(p, [kind |-> "stage", pc |-> "resolve", batch |-> batch])
    BY <1>3 DEF BeginStage
  <2> QED BY <1>1, <2>1 DEF Begin
<1>4. CASE ResolveTarget(p)
  BY <1>1, <1>4 DEF ResolveTarget, Goto
<1>5. CASE ReadStage(p)
  <2> DEFINE doc == files[call[p].at]
             c == [kind |-> "stage", pc |-> "plan", seen |-> VersionOf(doc),
                   batch |-> WithVersion(call[p].batch, VersionOf(doc))]
  <2>1. Goto(p, Answer("Invalid")) \/ Goto(p, c)
    BY <1>5 DEF ReadStage
  <2>2. c.pc = "plan"
    OBVIOUS
  <2> HIDE DEF c
  <2> QED BY <1>1, <1>2, <2>1, <2>2 DEF Goto
<1>6. CASE Refuse(p) \/ WriteFails(p)
  BY <1>2, <1>6 DEF Refuse, WriteFails, Goto
<1>7. CASE Return(p)
  BY <1>1, <1>7 DEF Return, Goto, Idle
<1>8. CASE BeginLoad(p)
  BY <1>1, <1>8 DEF BeginLoad, Begin
<1>9. ASSUME NEW status, NEW appearance, Loaded(p, status, appearance)
      PROVE  MeantInv'
  BY <1>1, <1>9 DEF Loaded, Goto
<1>10. ASSUME NEW pc \in {"size", "open"}, Looking(call[p]),
             Goto(p, [call[p] EXCEPT !.pc = pc])
      PROVE  MeantInv'
  <2> DEFINE c == [call[p] EXCEPT !.pc = pc]
  <2>1. c.pc = pc
    BY <1>10 DEF Looking, Record
  <2>2. UNCHANGED <<files, meant>> /\ call' = [call EXCEPT ![p] = c]
    BY <1>10 DEF Goto
  <2> HIDE DEF c
  <2> QED BY <1>1, <2>1, <2>2
<1>11. CASE Exists(p) \/ FileSize(p)
  <2>1. Looking(call[p])
    BY <1>11, ShapeOf, ShapeByStep DEF Exists, FileSize
  <2> QED BY <1>9, <1>10, <1>11, <2>1 DEF Exists, FileSize
<1>12. CASE OpenAndRead(p)
  BY <1>9, <1>12 DEF OpenAndRead
<1> QED BY <1>3, <1>4, <1>5, <1>6, <1>7, <1>8, <1>11, <1>12

LEMMA BeginWriteMeans ==
  ASSUME IInv, MeantInv, NEW p \in Procs, BeginWrite(p) PROVE MeantInv'
<1>1. PICK a \in Appearances :
        Begin(p, [kind |-> "write", pc |-> "encode", appearance |-> a])
  BY DEF BeginWrite
<1> DEFINE c == [kind |-> "write", pc |-> "encode", appearance |-> a]
<1>2. Meant(c)
  BY DEF Meant, Encoding, Renaming, Replacing
<1> QED BY <1>1, <1>2, SilentStep DEF Begin

LEMMA EncodeMeans ==
  ASSUME IInv, MeantInv, NEW p \in Procs, Encode(p) PROVE MeantInv'
<1> DEFINE a == call[p].appearance
           c == [kind |-> "write", pc |-> "temporary", appearance |-> a,
                 bytes |-> Serialize(a)]
<1>1. UNCHANGED <<files, meant>> /\ call[p].pc = "encode"
  BY DEF Encode, Goto
<1>2. CASE call' = [call EXCEPT ![p] = Answer("ValidationError")]
  BY <1>1, <1>2, NothingMeant, SilentStep DEF Answer
<1>3. CASE call' = [call EXCEPT ![p] = c] /\ Serialize(a) # Failed
  <2>1. a \in Appearances
    BY <1>1, ShapeOf, ShapeByStep DEF MeantInv, Meant
  <2>2. Validates(a)
    BY <1>3 DEF Serialize
  <2>3. /\ c.appearance = a /\ c.bytes = Serialize(a)
        /\ ~ Encoding(c) /\ ~ Replacing(c)
    BY DEF Encoding, Replacing
  <2> HIDE DEF c
  <2>4. Meant(c)
    BY <2>1, <2>2, <2>3 DEF Meant
  <2> QED BY <1>1, <1>3, <2>4, SilentStep
<1> QED BY <1>2, <1>3 DEF Encode, Goto

\* A stage leaves what the patch made of the document it found.
LEMMA PlanMeans ==
  ASSUME IInv, MeantInv, NEW p \in Procs, PlanStage(p) PROVE MeantInv'
<1> DEFINE b == call[p]
           doc == files[leads]
           left == D!Merge(doc, b.batch)
           status == D!PatchStatus(doc, b.batch)
           c == [kind |-> "stage", pc |-> "replace", seen |-> b.seen,
                 batch |-> b.batch, at |-> leads, found |-> doc,
                 left |-> left, raced |-> FALSE]
<1>1. UNCHANGED <<files, meant>>
  BY DEF PlanStage, Goto
<1>2. CASE call' = [call EXCEPT ![p] = Answer(status)]
  <2> HIDE DEF status
  <2> QED BY <1>1, <1>2, NothingMeant, SilentStep DEF Answer
<1>3. CASE call' = [call EXCEPT ![p] = c] /\ status = "Success"
  <2>1. /\ c.found = doc /\ c.batch = b.batch /\ c.left = left
        /\ ~ Encoding(c) /\ ~ Renaming(c)
    BY DEF Encoding, Renaming
  <2> HIDE DEF c
  <2>2. Meant(c)
    BY <1>3, <2>1 DEF Meant
  <2> QED BY <1>1, <1>3, <2>2, SilentStep
<1> QED BY <1>2, <1>3 DEF PlanStage, Goto

LEMMA ReplaceMeans ==
  ASSUME IInv, MeantInv, NEW p \in Procs, Replace(p) PROVE MeantInv'
<1> DEFINE c == call[p]
<1>1. Replacing(c)
  BY ShapeOf, ShapeByStep DEF Replace
<1>2. Versioned(c) /\ c.at \in Places
  BY <1>1, ShapeOf DEF CallInv, Checked
<1>3. D!PatchStatus(c.found, c.batch) = "Success" /\ c.left = D!Merge(c.found, c.batch)
  BY <1>1 DEF MeantInv, Meant
<1>4. Version \in DOMAIN c.batch /\ c.batch[Version].pending = Int64(2)
  BY <1>2 DEF Versioned
<1>5. Decode(c.left) = Intended(c.found, c.batch)
  BY <1>3, <1>4, EditMeansItself
<1>6. PICK status \in Replaced :
        /\ files' = [files EXCEPT ![c.at] = c.left]
        /\ meant' = [meant EXCEPT ![c.at] = Intended(c.found, c.batch)]
        /\ Written(c.at, p, Answer(status))
  BY DEF Replace
<1>7. Meant(Answer(status))
  BY NothingMeant DEF Answer
<1> QED BY <1>2, <1>5, <1>6, <1>7, WritingStep

LEMMA RenameMeans ==
  ASSUME IInv, MeantInv, NEW p \in Procs, Rename(p),
         \A a \in Appearances : Quotable(a)
  PROVE  MeantInv'
<1> DEFINE c == call[p]
<1>1. Renaming(c)
  BY ShapeOf, ShapeByStep DEF Rename
<1>2. /\ c.appearance \in Appearances /\ Validates(c.appearance)
      /\ c.bytes = Serialize(c.appearance)
  BY <1>1 DEF MeantInv, Meant
<1>3. Decode(c.bytes) = Normalized(c.appearance)
  BY <1>2, RoundTrip, AppearanceAssumption
<1>4. Meant(Answer("Success"))
  BY NothingMeant DEF Answer
<1>5. /\ files' = [files EXCEPT !["path"] = c.bytes]
      /\ meant' = [meant EXCEPT !["path"] = Normalized(c.appearance)]
      /\ Written("path", p, Answer("Success"))
  BY DEF Rename
<1>6. "path" \in Places
  BY DEF Places
<1> QED BY <1>3, <1>4, <1>5, <1>6, WritingStep

\* What an editor leaves is meant by nobody.
LEMMA EditorMeansNothing ==
  ASSUME IInv, MeantInv, Editor PROVE MeantInv'
<1>1. PICK doc \in Edited : files' = [files EXCEPT ![leads] = doc]
  BY DEF Editor
<1>2. Meant(Idle)
  BY NothingMeant DEF Idle
<1>3. /\ meant' = [meant EXCEPT ![leads] = Absent]
      /\ Written(leads, None, Idle) /\ leads \in Places
  BY DEF Editor, IInv
<1> QED BY <1>1, <1>2, <1>3, WritingStep

LEMMA NextMeans ==
  ASSUME IInv, MeantInv, [Next]_vars, \A a \in Appearances : Quotable(a)
  PROVE  MeantInv'
<1>1. CASE UNCHANGED vars
  BY <1>1 DEF vars, MeantInv, Meant, StandsForWhatWasMeant
<1>2. CASE Editor
  BY <1>2, EditorMeansNothing
<1>3. ASSUME NEW p \in Procs,
             \/ BeginStage(p) \/ ResolveTarget(p) \/ ReadStage(p) \/ PlanStage(p)
             \/ Replace(p) \/ Refuse(p)
             \/ BeginWrite(p) \/ Encode(p) \/ Rename(p) \/ WriteFails(p)
             \/ BeginLoad(p) \/ Exists(p) \/ FileSize(p) \/ OpenAndRead(p)
             \/ Return(p)
      PROVE  MeantInv'
  BY <1>3, OtherStepsMeanNothing, BeginWriteMeans, EncodeMeans, PlanMeans,
     ReplaceMeans, RenameMeans
<1> QED BY <1>1, <1>2, <1>3 DEF Next

\* Whoever wrote a document last, clients of either kind in any order with
\* editors between them, it decodes to what that client meant; if no text that
\* is written has a control character, which quote would leave bare
\* (codec.cpp:197).
THEOREM DocumentsStandForWhatWasMeant ==
  (\A a \in Appearances : Quotable(a)) => (Spec => []StandsForWhatWasMeant)
<1> SUFFICES ASSUME \A a \in Appearances : Quotable(a)
             PROVE  Spec => []StandsForWhatWasMeant
  OBVIOUS
<1>1. Init => MeantInv
  <2> SUFFICES ASSUME Init PROVE MeantInv
    OBVIOUS
  <2>1. \A p \in Procs : Meant(call[p])
    BY NothingMeant DEF Init, Idle
  <2> QED BY <2>1 DEF Init, MeantInv, StandsForWhatWasMeant
<1>2. IInv /\ MeantInv /\ [Next]_vars => MeantInv'
  BY NextMeans
<1>3. MeantInv => StandsForWhatWasMeant
  BY DEF MeantInv
<1> QED BY <1>1, <1>2, <1>3, CallsAreWhatTheyRelyOn, PTL DEF Spec
=============================================================================
