---------------------------- MODULE PatchPlanner ----------------------------
(***************************************************************************)
(* How src/src/document.cpp edits a document in place.  DocumentMerge says *)
(* what patchDocument promises; here are the source spans, insertion       *)
(* points and replacements by which it keeps everything else as it was.    *)
(*                                                                         *)
(* A document is a sequence of lexemes.  Offsets count lexemes from 0, and *)
(* the span [begin, end) is lexemes begin + 1 .. end.                      *)
(***************************************************************************)
EXTENDS Naturals, SequencesExt, FiniteSetsExt, TLC

CONSTANTS
  Initial,    \* documents a client may start from
  Requests,   \* what a client asks for: key paths with pending overrides
  Parents,    \* the sections these are in, in the order of std::map
  MaxTokens,  \* kMaximumDocumentBytes, in lexemes
  Fields      \* DocumentSchema: the overrides each key may hold

-----------------------------------------------------------------------------
(* Lexemes *)

Kinds == {"newline", "hash", "triple", "quad", "lbracket", "rbracket", "lbrace",
          "rbrace", "comma", "atom", "key", "header"}
Path  == Seq(STRING)                    \* KeyPath
Texts == Seq([kind : Kinds, text : Path])

ASSUME PatchAssumption ==
  /\ Initial \subseteq Texts
  /\ Requests \subseteq Path \X Texts
  /\ Parents \in Seq(Path)

Token(kind, text) == [kind |-> kind, text |-> text]

Newline   == Token("newline", <<>>)
Hash      == Token("hash", <<>>)        \* a comment runs to the next Newline
Triple    == Token("triple", <<>>)      \* three quotes: a multi-line string
Quad      == Token("quad", <<>>)        \* four: one of them is in the string
LBracket  == Token("lbracket", <<>>)
RBracket  == Token("rbracket", <<>>)
LBrace    == Token("lbrace", <<>>)
RBrace    == Token("rbrace", <<>>)
Comma     == Token("comma", <<>>)
Atom(w)   == Token("atom", <<w>>)       \* a scalar on one line, or a word
Key(p)    == Token("key", p)            \* a key, dotted or not, and its "="
Header(p) == Token("header", p)         \* [p]

Quotes == {Triple, Quad}

NoValue == <<>>                         \* std::nullopt; a value has lexemes

\* The state an automaton ends in on a sequence, and those it goes through.
Final(Step(_, _), start, seq) ==
  LET after[i \in 0 .. Len(seq)] ==
        IF i = 0 THEN start ELSE Step(after[i - 1], seq[i])
  IN  after[Len(seq)]

Trace(Step(_, _), start, seq) ==
  [i \in 0 .. Len(seq) |-> Final(Step, start, SubSeq(seq, 1, i))]

Indices(seq) == [i \in 1 .. Len(seq) |-> i]

\* The texts at some indices, one after the other.
Joined(texts, I) ==
  Final(LAMBDA text, i : IF i \in I THEN text \o texts[i] ELSE text, <<>>, Indices(texts))

\* The elements of seq at some indices, in order.
Pick(seq, I) == Joined([i \in 1 .. Len(seq) |-> <<seq[i]>>], I)

SubSpan(doc, begin, end) == SubSeq(doc, begin + 1, end)

-----------------------------------------------------------------------------
(* toml++ *)

LexStep(s, t) ==
  CASE s = "code" /\ t \in Quotes     -> "string"
    [] s = "code" /\ t = Hash         -> "comment"
    [] s = "string" /\ t \in Quotes   -> "code"
    [] s = "comment" /\ t = Newline   -> "code"
    [] OTHER                          -> s

Lex(doc) == Trace(LexStep, "code", doc)

\* Lexemes that are not in a comment, nor layout: the value of a node.
Canonical(doc, lex, begin, end) ==
  Pick(doc, {i \in begin + 1 .. end :
               /\ lex[i] # "comment"
               /\ ~ (doc[i] = Newline /\ lex[i] = "code")})

\* The parser: what it expects, the section, the open brackets and keys, the
\* headers and dotted tables so far, and the values found with their spans.
ParseStart == [mode |-> "line", section |-> <<>>, frames |-> <<>>,
               headers |-> {}, dotted |-> {}, entries |-> <<>>]

Top(s) == IF s.frames = <<>> THEN "none" ELSE Last(s.frames).kind

\* A key or header that names what is already there as something else.
Clashes(s, path) ==
  \/ \E e \in DOMAIN s.entries : IsPrefix(e, path) \/ IsPrefix(path, e)
  \/ \E h \in s.headers \cup s.dotted : IsPrefix(path, h)

Reopens(s, path) ==
  \/ path \in s.headers \cup s.dotted
  \/ \E e \in DOMAIN s.entries : IsPrefix(e, path)

\* The tables a dotted key goes through.
Through(base, path) == {SubSeq(path, 1, n) : n \in Len(base) + 1 .. Len(path) - 1}

\* A value ends at offset i: it is an element of an array, or what a key has.
Ended(doc, lex, s, i) ==
  LET f == Last(s.frames)
  IN  IF f.kind # "key" THEN [s EXCEPT !.mode = "after"]
      ELSE [s EXCEPT
        !.frames = Front(s.frames),
        !.mode = IF Len(s.frames) = 1 THEN "tail" ELSE "after",
        !.entries =
          IF \E g \in Range(s.frames) : g.kind = "lbracket" THEN @
          ELSE [p \in DOMAIN @ \cup {f.path} |->
                 IF p \in DOMAIN @ THEN @[p]
                 ELSE [begin |-> f.at, end |-> i, value |-> Canonical(doc, lex, f.at, i)]]]

Pushed(s, kind, path, at, mode) ==
  [s EXCEPT !.mode = mode,
            !.frames = Append(@, [kind |-> kind, path |-> path, at |-> at])]

Feed(doc, lex, s, i) ==
  LET t    == doc[i]
      base == IF Top(s) = "none" THEN s.section ELSE Last(s.frames).path
      path == base \o t.text
      popped == [s EXCEPT !.frames = Front(s.frames)]
  IN
  CASE t = Newline /\ s.mode \in {"line", "tail"} -> [s EXCEPT !.mode = "line"]
    [] t = Newline /\ Top(s) = "lbracket" -> s
    [] t.kind = "header" /\ s.mode = "line" /\ ~ Reopens(s, t.text) ->
         [s EXCEPT !.mode = "tail", !.section = t.text,
                   !.headers = @ \cup {t.text}]
    [] /\ t.kind = "key" /\ s.mode \in {"line", "member", "key"}
       /\ ~ Clashes(s, path) /\ Through(base, path) \cap s.headers = {} ->
         [Pushed(s, "key", path, i, "value")
            EXCEPT !.dotted = @ \cup Through(base, path)]
    [] t = LBracket /\ s.mode = "value" -> Pushed(s, "lbracket", base, i, "value")
    [] t = LBrace /\ s.mode = "value"   -> Pushed(s, "lbrace", base, i, "member")
    [] t = Comma /\ s.mode = "after" ->
         [s EXCEPT !.mode = IF Top(s) = "lbracket" THEN "value" ELSE "key"]
    [] t = RBracket /\ s.mode \in {"value", "after"} /\ Top(s) = "lbracket" ->
         Ended(doc, lex, popped, i)
    [] t = RBrace /\ s.mode \in {"member", "after"} /\ Top(s) = "lbrace" ->
         Ended(doc, lex, popped, i)
    [] (t.kind = "atom" \/ t \in Quotes) /\ s.mode = "value" ->
         Ended(doc, lex, s, i)
    [] OTHER -> [s EXCEPT !.mode = "broken"]

\* toml::parse: comments and the inside of strings do not reach the parser.
Parsed(doc) ==
  LET lex == Lex(doc)
      end == Final(LAMBDA s, i : IF lex[i] = "code" THEN Feed(doc, lex, s, i) ELSE s,
                   ParseStart, Indices(doc))
  IN  [ok |-> lex[Len(doc)] # "string" /\ end.mode \in {"line", "tail"},
       entries |-> end.entries]

-----------------------------------------------------------------------------
(* document.cpp *)

\* Mutant: without the bound on the size.
ParseDocumentOfAnySize(doc) ==
  LET parsed == Parsed(doc)
  IN  IF parsed.ok THEN {[doc |-> doc, entries |-> parsed.entries]} ELSE {}

\* parseDocument: the snapshot of a document, if it has one.  The bound on the
\* size comes first.
ParseDocument(doc) ==
  LET parsed == Parsed(doc)
  IN  IF Len(doc) <= MaxTokens /\ parsed.ok
      THEN {[doc |-> doc, entries |-> parsed.entries]} ELSE {}

\* DocumentSnapshot::value
Value(snapshot, path) ==
  IF path \in DOMAIN snapshot.entries THEN snapshot.entries[path].value ELSE NoValue

\* The start of the line of an offset.
LineOf(doc, offset) == Max({0} \cup {i \in 1 .. offset : doc[i] = Newline})

\* assignment: where the assignment of a value begins, if nothing but one key
\* precedes it on its line.  The scan counts quotes from the start of the
\* line, as if no string could be open there.
Assignment(doc, begin) ==
  LET line   == LineOf(doc, begin)
      opened(i) == Cardinality({j \in line + 1 .. i : doc[j] = Triple})
      plain  == {i \in line + 1 .. begin : doc[i] \notin Quotes /\ opened(i) % 2 = 0}
      kinds  == {doc[i].kind : i \in plain}
      equals == {i \in plain : doc[i].kind = "key"}
  IN  IF /\ kinds \cap {"lbrace", "lbracket", "header", "comma", "hash"} = {}
         /\ Cardinality(equals) = 1
      THEN {line} ELSE {}

\* retainedComments, whose scan takes the first three quotes of a run of four
\* for the end of a string and the fourth for the start of another.
ScanStep(s, t) ==
  CASE s = "comment"                     -> IF t = Newline THEN "off" ELSE s
    [] s = "off" /\ t = Hash             -> "comment"
    [] s = "off" /\ t \in Quotes         -> "triple"
    [] s = "triple" /\ t = Triple        -> "off"
    [] s = "triple" /\ t = Quad          -> "single"
    [] s = "single" /\ t = Triple        -> "off"
    [] s = "single" /\ t = Quad          -> "triple"
    [] OTHER                             -> s

\* Mutant: comments go with the value.
NoComments(value) == <<>>

RetainedComments(value) ==
  LET state == Trace(ScanStep, "off", value)
  IN  Pick(value, {i \in 1 .. Len(value) : "comment" \in {state[i - 1], state[i]}})

\* validateDocument, with a schema of fields that have no default.
Accepts(snapshot) ==
  \A path \in DOMAIN Fields \cap DOMAIN snapshot.entries :
    snapshot.entries[path].value \in Fields[path]

\* normalizeEdits: a literal is one value and nothing else.
Literal(v) ==
  LET probe == Parsed(<<Key(<<"value">>)>> \o v)
  IN  probe.ok /\ DOMAIN probe.entries = {<<"value">>}

\* planEdit: what there is to do for an edit.
Settled(snapshot, e)   == Value(snapshot, e.key) = e.pending
Conflicts(snapshot, e) == Value(snapshot, e.key) \notin {e.pending, e.baseline}
Works(snapshot, e)     == Value(snapshot, e.key) = e.baseline /\ e.baseline # e.pending
Replaces(snapshot, e)  == Works(snapshot, e) /\ e.baseline # NoValue
Inserts(snapshot, e)   == Works(snapshot, e) /\ e.baseline = NoValue

\* planEdits goes through.
Plannable(snapshot, edits) ==
  /\ \A i, j \in DOMAIN edits : edits[i].key = edits[j].key => i = j
  /\ \A i \in DOMAIN edits :
       /\ edits[i].key # <<>>
       /\ Replaces(snapshot, edits[i])
            => Assignment(snapshot.doc, snapshot.entries[edits[i].key].begin) # {}

Replacement(begin, end, text) == [begin |-> begin, end |-> end, text |-> text]

\* A value is replaced where it is; a reset takes away the assignment and
\* leaves the comments that were in the value.
ReplacementOf(doc, entry, e) ==
  IF e.pending # NoValue
  THEN Replacement(entry.begin, entry.end, e.pending)
  ELSE Replacement(CHOOSE line \in Assignment(doc, entry.begin) : TRUE, entry.end,
                   RetainedComments(SubSpan(doc, entry.begin, entry.end)))

\* The lines to add to a section, in the order of the batch.
InsertionText(snapshot, edits, parent) ==
  Joined([i \in 1 .. Len(edits) |->
            <<Key(<<Last(edits[i].key)>>)>> \o edits[i].pending \o <<Newline>>],
         {i \in DOMAIN edits :
            Inserts(snapshot, edits[i]) /\ Front(edits[i].key) = parent})

NextLine(doc, line) ==
  Min({Len(doc)} \cup {i \in line + 1 .. Len(doc) : doc[i] = Newline})

\* headerMatches: the line is the header of the section, not of another or of
\* an array of tables, and nothing but a comment follows it.
HeaderMatches(doc, line, parent) ==
  /\ doc[line + 1] = Header(parent)
  /\ Parsed(SubSpan(doc, line, NextLine(doc, line))).ok

\* insertionPoint: after the first line that is the header of the section and
\* not the inside of a value; the root's is the start of the document.
InsertionPoint(snapshot, parent) ==
  LET doc == snapshot.doc
      InValue(line) ==
        \E e \in Range(snapshot.entries) : e.begin < line /\ line < e.end
      found == {line \in 0 .. Len(doc) - 1 :
                  /\ line = 0 \/ doc[line] = Newline
                  /\ ~ InValue(line) /\ HeaderMatches(doc, line, parent)}
  IN  IF parent = <<>> THEN {0}
      ELSE IF found = {} THEN {} ELSE {NextLine(doc, Min(found))}

\* planInsertions: a section that has no header gets one at the end.
InsertionOf(snapshot, parent, text) ==
  LET doc     == snapshot.doc
      points  == InsertionPoint(snapshot, parent)
      point   == IF points = {} THEN Len(doc) ELSE Min(points)
      break   == IF point # 0 /\ doc[point] # Newline THEN <<Newline>> ELSE <<>>
      heading == IF points = {} THEN <<Header(parent), Newline>> ELSE <<>>
  IN  Replacement(point, point, break \o heading \o text)

PlannedEdits(snapshot, edits) ==
  LET replaced == Pick(edits, {i \in DOMAIN edits : Replaces(snapshot, edits[i])})
  IN  [i \in DOMAIN replaced |->
        ReplacementOf(snapshot.doc, snapshot.entries[replaced[i].key], replaced[i])]

PlannedInsertions(snapshot, edits) ==
  LET parents == Pick(Parents, {i \in DOMAIN Parents :
                                  InsertionText(snapshot, edits, Parents[i]) # <<>>})
  IN  [i \in DOMAIN parents |->
        InsertionOf(snapshot, parents[i], InsertionText(snapshot, edits, parents[i]))]

\* coalesceInsertions: those at one offset become one, in the order planned.
Coalesced(rs) ==
  LET Same(i, j) == rs[i].begin = rs[i].end /\ rs[i].begin = rs[j].begin
                    /\ rs[i].end = rs[j].end
      all(i) == Joined([j \in 1 .. Len(rs) |-> rs[j].text], {j \in DOMAIN rs : Same(i, j)})
      kept   == {i \in DOMAIN rs : \A j \in 1 .. i - 1 : ~ Same(i, j)}
  IN  Pick([i \in DOMAIN rs |-> IF Same(i, i) THEN [rs[i] EXCEPT !.text = all(i)]
                                             ELSE rs[i]], kept)

\* Mutant: what is inserted goes first.
LaterButInsertions(l, r) == l.begin > r.begin \/ (l.begin = r.begin /\ l.end < r.end)

\* The last replacement first; one that begins where another is put goes
\* before it, so that what is inserted there comes first in the document.
Later(l, r) == l.begin > r.begin \/ (l.begin = r.begin /\ l.end > r.end)

\* std::ranges::sort, which may leave equal ones in either order.
Sorted(rs) ==
  LET indices == DOMAIN rs
      orders  == {p \in [indices -> indices] :
                    /\ IsInjective(p)
                    /\ \A n \in indices \ {1} : ~ Later(rs[p[n]], rs[p[n - 1]])}
  IN  {[n \in indices |-> rs[p[n]]] : p \in orders}

Overlaps(rs) == \E i \in DOMAIN rs \ {1} : rs[i].end > rs[i - 1].begin

\* Mutant: what follows the span goes with it.
SplicedTooFar(doc, r) ==
  SubSpan(doc, 0, r.begin) \o r.text \o SubSpan(doc, r.end + 1, Len(doc))

Spliced(doc, r) ==
  SubSpan(doc, 0, r.begin) \o r.text \o SubSpan(doc, r.end, Len(doc))

\* Mutant: the candidate is parsed, but not compared with the batch.
UncheckedCandidates(doc, edits, replacements) ==
  UNION {ParseDocument(Final(Spliced, doc, sorted)) :
           sorted \in Sorted(Coalesced(replacements))}

\* applyReplacements: the candidate, if no two replacements overlap and it
\* holds what was asked for.
Candidates(doc, edits, replacements) ==
  {c \in UNION {ParseDocument(Final(Spliced, doc, sorted)) :
                  sorted \in {rs \in Sorted(Coalesced(replacements)) : ~ Overlaps(rs)}} :
     \A i \in DOMAIN edits : Value(c, edits[i].key) = edits[i].pending}

Refused(status) == [status |-> status, snapshot |-> {}]

\* patchDocument: its returns, in their order.
PatchDocument(snapshot, edits) ==
  LET pending == {edits[i].pending : i \in DOMAIN edits} \ {NoValue}
      planned == PlannedEdits(snapshot, edits) \o PlannedInsertions(snapshot, edits)
      made    == Candidates(snapshot.doc, edits, planned)
  IN
  IF ~ Accepts(snapshot) THEN Refused("Invalid")
  ELSE IF \E v \in pending : ~ Literal(v) THEN Refused("UnsupportedPatch")
  ELSE IF ~ Plannable(snapshot, edits) THEN Refused("UnsupportedPatch")
  ELSE IF \E i \in DOMAIN edits : Conflicts(snapshot, edits[i]) THEN Refused("Conflict")
  ELSE IF made = {} THEN Refused("UnsupportedPatch")
  ELSE IF \E c \in made : ~ Accepts(c) THEN Refused("Invalid")
  ELSE [status |-> "Success", snapshot |-> made]

-----------------------------------------------------------------------------
(* A client patches a document again and again. *)

VARIABLES
  current,   \* the snapshot of the document
  batch,     \* the edits of the last call
  result     \* its SaveResult, or Idle

vars == <<current, batch, result>>

Idle == Refused("Idle")

\* One edit, based on what the document holds or on something else, or two.
Edit(key, baseline, pending) ==
  [key |-> key, baseline |-> baseline, pending |-> pending]

Batches ==
  LET fresh    == {Edit(r[1], Value(current, r[1]), r[2]) : r \in Requests}
      outdated == {Edit(r[1], <<Atom("outdated")>>, r[2]) : r \in Requests}
      edits    == {e \in fresh : Works(current, e)}
  IN  {<<e>> : e \in fresh \cup outdated} \cup {<<e, f>> : e \in edits, f \in edits}

Init ==
  /\ \E doc \in Initial : current \in ParseDocument(doc)
  /\ batch = <<>>
  /\ result = Idle

Patch ==
  /\ result = Idle
  /\ \E edits \in Batches :
       /\ batch' = edits
       /\ result' = PatchDocument(current, edits)
  /\ UNCHANGED current

\* The document is saved, and read again.
Save ==
  /\ result.status = "Success"
  /\ current' \in result.snapshot
  /\ batch' = <<>>
  /\ result' = Idle

Discard ==
  /\ result.status \notin {"Success", "Idle"}
  /\ batch' = <<>>
  /\ result' = Idle
  /\ UNCHANGED current

Next == Patch \/ Save \/ Discard
Spec == Init /\ [][Next]_vars

-----------------------------------------------------------------------------
(* Properties *)

\* The key paths asked for, and what they hold or may come to hold.
Paths == {r[1] : r \in Requests}
Held  == {Value(current, p) : p \in Paths} \cup {r[2] : r \in Requests} \cup {NoValue}

M == INSTANCE DocumentMerge WITH
       Keys      <- Paths,
       Values    <- Held \ {NoValue},
       Detached  <- {},
       Documents <- [Paths -> Held],
       Valid     <- [Paths -> Held],
       Missing   <- <<"missing">>,
       Malformed <- <<"malformed">>

Overrides(snapshot) == [p \in Paths |-> Value(snapshot, p)]

Keys          == {batch[i].key : i \in DOMAIN batch}
EditOf(k)     == CHOOSE e \in Range(batch) : e.key = k
AsMerge       == [k \in Keys |-> [baseline |-> EditOf(k).baseline,
                                 pending  |-> EditOf(k).pending]]
Related(p, q) == IsPrefix(p, q) \/ IsPrefix(q, p)

\* A document that was read or is offered for writing can be read again: it
\* never outgrows the bound of parseDocument, however long it is edited (each
\* reset leaves an empty line behind), and parses to the snapshot kept of it.
TypeOK ==
  /\ \A s \in {current} \cup result.snapshot :
       Len(s.doc) <= MaxTokens /\ s \in ParseDocument(s.doc)
  /\ Len(batch) <= 2
  /\ result.status \in {"Idle", "Success", "Conflict", "Invalid", "UnsupportedPatch"}

\* patchDocument does by spans and replacements what DocumentMerge promises
\* the store: a conflict is reported only for a conflict, and a success, which
\* the schema accepts, has the overrides of the merge.
MergesAsPromised ==
  /\ result.status = "Conflict" => M!Conflicts(Overrides(current), AsMerge) # {}
  /\ \A after \in result.snapshot :
       /\ Accepts(after)
       /\ M!Conflicts(Overrides(current), AsMerge) = {}
       /\ \A k \in Keys : Value(after, k) = M!Merge(Overrides(current), AsMerge)[k]

\* What a patch must not touch: all but the values that are set, and the
\* assignments that are reset, whose inner comments stay.
Unrelated ==
  LET lex     == Lex(current.doc)
      indices == DOMAIN current.doc
      comment == {i \in indices : "comment" \in {lex[i - 1], lex[i]}}
      Gone(k) == LET e == current.entries[k]
                 IN  IF EditOf(k).pending # NoValue THEN e.begin + 1 .. e.end
                     ELSE (e.begin .. e.end) \ comment
  IN  Pick(current.doc,
           indices \ UNION {Gone(k) : k \in {l \in Keys : Replaces(current, EditOf(l))}})

\* The number of lexemes of part that are found in whole, in their order.
Found(part, whole) ==
  LET Match(n, t) == IF n < Len(part) /\ part[n + 1] = t THEN n + 1 ELSE n
  IN  Final(Match, 0, whole)

\* What an edit is about: one that sets a value, the value; one that resets it,
\* all from the start of the line it begins on to its end.
About(snapshot, e) ==
  LET entry == snapshot.entries[e.key]
      begin == IF e.pending # NoValue THEN entry.begin
                                      ELSE LineOf(snapshot.doc, entry.begin)
  IN  begin + 1 .. entry.end

Edited(snapshot, edits) ==
  UNION {About(snapshot, edits[i]) : i \in {j \in DOMAIN edits : Replaces(snapshot, edits[j])}}

\* The lexemes that no edit is about.
Rest == Pick(current.doc, DOMAIN current.doc \ Edited(current, batch))

\* A patch leaves what no edit is about: all of it is in the patched document,
\* in its order, whatever the parser takes the document before and after to
\* mean, and wherever spans, sorting and coalescing put the replacements.
RestKept ==
  \A after \in result.snapshot : Found(Rest, after.doc) = Len(Rest)

\* The keys in either document that are not edited. A table counts as edited
\* with its members, and they with it.
Others(after) ==
  {p \in DOMAIN current.entries \cup DOMAIN after.entries :
     \A k \in Keys : ~ Related(k, p)}

\* Unrelated lexemes, comments and those in reset arrays included, are all in
\* the patched document, in their order; and keys the client never names hold
\* what they held.
UnrelatedKept ==
  \A after \in result.snapshot :
    /\ Found(Unrelated, after.doc) = Len(Unrelated)
    /\ \A p \in Others(after) : Value(after, p) = Value(current, p)

\* Whether the document has a line that is the header of a section.
HasHeader(parent) == InsertionPoint(current, parent) # {}

\* patchDocument refuses a batch that has no conflict only for a cause: a
\* repeated key, a literal that is not one value, keys of which one contains
\* the other, a member of an inline table, a key or section that is in the
\* document as something else, a document near its bound, or a new section
\* put before what is added under a header that ends the document.
RefusedForCause ==
  LET entries == DOMAIN current.entries
      added   == {k \in Keys : Inserts(current, EditOf(k))}
      parents == {Front(k) : k \in added}
      sections == {Front(k) : k \in added} \ {<<>>}
      atEnd   == {s \in sections : InsertionPoint(current, s) \in {{}, {Len(current.doc)}}}
      open    == current.doc # <<>> /\ Last(current.doc) # Newline
      size    == Len(Unrelated)
                   + Len(FlattenSeq([i \in DOMAIN batch |-> batch[i].pending]))
                   + 2 * Cardinality(added)
                   + 2 * Cardinality({s \in sections : ~ HasHeader(s)})
                   + (IF open THEN Cardinality(atEnd) ELSE 0)
      place(p) == CHOOSE i \in DOMAIN Parents : Parents[i] = p
  IN
  result.status = "UnsupportedPatch" =>
    \/ Cardinality(Keys) # Len(batch)
    \/ \E k \in Keys : EditOf(k).pending # NoValue /\ ~ Literal(EditOf(k).pending)
    \/ \E k, l \in Keys : k # l /\ Related(k, l)
    \/ \E k \in Keys, p \in entries : p # k /\ IsPrefix(p, k)
    \/ \E k \in added, p \in entries : IsPrefix(k, p)
    \/ \E k \in added : HasHeader(k)
    \/ \E s \in parents, p \in entries : ~ HasHeader(s) /\ IsPrefix(s, p)
    \/ size > MaxTokens
    \/ \E s, n \in parents :
         /\ s # <<>> /\ InsertionPoint(current, s) = {Len(current.doc)}
         /\ ~ HasHeader(n) /\ place(n) < place(s)

=============================================================================
