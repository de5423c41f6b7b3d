------------------------- MODULE PatchPlannerProofs -------------------------
(***************************************************************************)
(* patchDocument, for any documents, edits, schema and bound on the size:  *)
(* what it offers can be read again, is the merge DocumentMerge says, and  *)
(* has all that no edit is about.                                          *)
(***************************************************************************)
EXTENDS PatchPlanner, TLAPS, SequenceTheorems, FunctionTheorems, WellFoundedInduction

-----------------------------------------------------------------------------
(* Induction *)

\* A set of numbers that is not empty has a least element.
LEMMA LeastElement ==
  ASSUME NEW T \in SUBSET Nat, T # {}
  PROVE  \E n \in T : \A m \in T : n <= m
<1>1. PICK n \in T : \A m \in T : ~ (<<m, n>> \in OpToRel(<, Nat))
  BY WFMin, NatLessThanWellFounded, Zenon
<1>2. ASSUME NEW m \in T, m < n PROVE FALSE
  <2>1. <<m, n>> \in OpToRel(<, Nat)
    BY <1>2 DEF OpToRel
  <2> QED BY <1>1, <2>1
<1>3. \A m \in T : m \in Nat /\ n \in Nat /\ ~ (m < n)
  BY <1>2
<1> QED BY <1>3

\* A set that has 0, and with each number below n the next, has all up to n.
LEMMA NextByNext ==
  ASSUME NEW n \in Nat, NEW S, 0 \in S, \A k \in 0 .. n - 1 : k \in S => k + 1 \in S
  PROVE  \A k \in 0 .. n : k \in S
<1> DEFINE T == {k \in 0 .. n : k \notin S}
<1> SUFFICES ASSUME T # {} PROVE FALSE
  OBVIOUS
<1>1. PICK k \in T : \A m \in T : k <= m
  <2>1. T \in SUBSET Nat
    OBVIOUS
  <2> HIDE DEF T
  <2> QED BY <2>1, LeastElement
<1>2. k # 0 /\ k - 1 \in 0 .. n - 1 /\ k - 1 \notin T
  BY <1>1
<1>3. k - 1 \in S /\ k = (k - 1) + 1
  BY <1>2
<1> QED BY <1>1, <1>2, <1>3

\* What a function by steps gives stays in a set its steps do not leave.
LEMMA StaysIn ==
  ASSUME NEW n \in Nat, NEW S, NEW f, f[0] \in S,
         \A i \in 1 .. n : f[i - 1] \in S => f[i] \in S
  PROVE  \A i \in 0 .. n : f[i] \in S
<1> DEFINE T == {i \in 0 .. n : f[i] \in S}
<1>1. 0 \in T /\ \A i \in 0 .. n - 1 : i \in T => i + 1 \in T
  <2>1. 0 \in T
    OBVIOUS
  <2>2. ASSUME NEW i \in 0 .. n - 1, i \in T PROVE i + 1 \in T
    <3>1. i + 1 \in 1 .. n /\ (i + 1) - 1 = i
      OBVIOUS
    <3> QED BY <2>2, <3>1
  <2> QED BY <2>1, <2>2
<1>2. \A i \in 0 .. n : i \in T
  <2> HIDE DEF T
  <2> QED BY <1>1, NextByNext
<1> QED BY <1>2

\* A function by steps in a set, and that there is one.
Runs(f, n, S, start, step) ==
  /\ f \in [0 .. n -> S]
  /\ f[0] = start
  /\ \A i \in 1 .. n : f[i] = step[<<f[i - 1], i>>]

\* Each step is a function of what there is and the index of the step.
LEMMA BySteps ==
  ASSUME NEW n \in Nat, NEW S, NEW start \in S, NEW step \in [S \X (1 .. n) -> S]
  PROVE  \E f : Runs(f, n, S, start, step)
<1> DEFINE T == {k \in 0 .. n : \E f : Runs(f, k, S, start, step)}
<1>1. 0 \in T
  <2>1. Runs([i \in 0 .. 0 |-> start], 0, S, start, step)
    BY DEF Runs
  <2> QED BY <2>1
<1>2. ASSUME NEW k \in 0 .. n - 1, k \in T PROVE k + 1 \in T
  <2>1. PICK f : Runs(f, k, S, start, step)
    BY <1>2
  <2> DEFINE g == [i \in 0 .. k + 1 |-> IF i <= k THEN f[i] ELSE step[<<f[k], k + 1>>]]
  <2>2. step[<<f[k], k + 1>>] \in S
    BY <2>1 DEF Runs
  <2>3. g \in [0 .. k + 1 -> S] /\ g[0] = start
    BY <2>1, <2>2 DEF Runs
  <2>4. ASSUME NEW i \in 1 .. k + 1 PROVE g[i] = step[<<g[i - 1], i>>]
    <3>1. CASE i <= k
      BY <2>1, <3>1 DEF Runs
    <3>2. CASE i = k + 1
      <4>1. i - 1 = k /\ i \in 0 .. k + 1 /\ ~ i <= k /\ k \in 0 .. k + 1
        BY <3>2
      <4> QED BY <4>1, <3>2
    <3> QED BY <3>1, <3>2
  <2>5. Runs(g, k + 1, S, start, step)
    <3> HIDE DEF g
    <3> QED BY <2>3, <2>4 DEF Runs
  <2> QED BY <2>5
<1>3. \A k \in 0 .. n : k \in T
  <2> HIDE DEF T
  <2> QED BY <1>1, <1>2, NextByNext
<1> QED BY <1>3

-----------------------------------------------------------------------------
(* Joined and Pick *)

\* What is joined of the first texts, one more at a time.
Joins(f, T, texts, I) ==
  /\ f \in [0 .. Len(texts) -> Seq(T)]
  /\ f[0] = <<>> /\ f[Len(texts)] = Joined(texts, I)
  /\ \A i \in 1 .. Len(texts) : f[i] = IF i \in I THEN f[i - 1] \o texts[i] ELSE f[i - 1]

\* Joined is such a function by steps.
LEMMA JoinedBySteps ==
  ASSUME NEW T, NEW texts \in Seq(Seq(T)), NEW I
  PROVE  \E f : Joins(f, T, texts, I)
<1> DEFINE n == Len(texts)
           Step(text, i) == IF i \in I THEN text \o texts[i] ELSE text
           step == [p \in Seq(T) \X (1 .. n) |-> Step(p[1], p[2])]
           Is(f) == f = [i \in 0 .. n |-> IF i = 0 THEN <<>> ELSE Step(f[i - 1], Indices(texts)[i])]
           f == CHOOSE f : Is(f)
<1>1. n \in Nat /\ Len(Indices(texts)) = n
      /\ \A i \in 1 .. n : Indices(texts)[i] = i /\ texts[i] \in Seq(T)
  BY DEF Indices
<1>2. \A text \in Seq(T), i \in 1 .. n : Step(text, i) \in Seq(T)
  BY <1>1
<1>3. Joined(texts, I) = f[n]
  BY <1>1 DEF Joined, Final
<1> HIDE DEF Step
<1>4. step \in [Seq(T) \X (1 .. n) -> Seq(T)] /\ <<>> \in Seq(T)
  BY <1>2
<1>5. \A text \in Seq(T), i \in 1 .. n : step[<<text, i>>] = Step(text, i)
  OBVIOUS
<1> HIDE DEF n, step
<1>6. PICK g : Runs(g, n, Seq(T), <<>>, step)
  BY <1>1, <1>4, BySteps
<1>7. Is(g)
  <2>1. \A i \in 1 .. n : g[i - 1] \in Seq(T) /\ Indices(texts)[i] = i /\ i # 0
    BY <1>1, <1>6 DEF Runs
  <2>2. \A i \in 1 .. n : g[i] = Step(g[i - 1], Indices(texts)[i])
    BY <1>5, <1>6, <2>1 DEF Runs
  <2>3. \A i \in 0 .. n : g[i] = IF i = 0 THEN <<>> ELSE Step(g[i - 1], Indices(texts)[i])
    BY <1>1, <1>6, <2>2 DEF Runs
  <2>4. g = [i \in 0 .. n |-> g[i]]
    BY <1>6 DEF Runs
  <2> QED BY <2>3, <2>4
<1>8. Is(f)
  BY <1>7
<1> HIDE DEF f
<1>9. f[0] = <<>> /\ \A i \in 1 .. n : f[i] = Step(f[i - 1], i)
  BY <1>1, <1>8
<1>10. f \in [0 .. n -> Seq(T)]
  <2>1. f[0] \in Seq(T) /\ \A i \in 1 .. n : f[i - 1] \in Seq(T) => f[i] \in Seq(T)
    BY <1>2, <1>4, <1>9
  <2>2. \A i \in 0 .. n : f[i] \in Seq(T)
    BY <1>1, <2>1, StaysIn
  <2> QED BY <1>8, <2>2
<1>11. Joins(f, T, texts, I)
  BY <1>3, <1>9, <1>10 DEF n, Step, Joins
<1> QED BY <1>11

\* Sequences put together are one.
LEMMA JoinedIsText ==
  ASSUME NEW T, NEW texts \in Seq(Seq(T)), NEW I
  PROVE  Joined(texts, I) \in Seq(T)
<1>1. PICK f : Joins(f, T, texts, I)
  BY JoinedBySteps
<1>2. Len(texts) \in 0 .. Len(texts)
  OBVIOUS
<1> QED BY <1>1, <1>2 DEF Joins

\* A sequence of one element.
LEMMA OneElement ==
  ASSUME NEW S, NEW c \in S
  PROVE  <<c>> \in Seq(S)
  OBVIOUS

\* What is picked from the first elements, one more at a time.
Picks(f, T, seq, I) ==
  /\ f \in [0 .. Len(seq) -> Seq(T)]
  /\ f[0] = <<>> /\ f[Len(seq)] = Pick(seq, I)
  /\ \A i \in 1 .. Len(seq) :
       f[i] = IF i \in I THEN Append(f[i - 1], seq[i]) ELSE f[i - 1]

\* Pick is such a function by steps.
LEMMA PickBySteps ==
  ASSUME NEW T, NEW seq \in Seq(T), NEW I
  PROVE  \E f : Picks(f, T, seq, I)
<1>1. Len(seq) \in Nat /\ \A i \in 1 .. Len(seq) : seq[i] \in T
  OBVIOUS
<1> DEFINE n == Len(seq)
           texts == [i \in 1 .. n |-> <<seq[i]>>]
<1>2. texts \in Seq(Seq(T)) /\ Len(texts) = n /\ \A i \in 1 .. n : texts[i] = <<seq[i]>>
  <2>1. \A i \in 1 .. n : <<seq[i]>> \in Seq(T)
    BY <1>1, OneElement
  <2> HIDE DEF n
  <2>2. n \in Nat
    BY <1>1 DEF n
  <2> QED BY <2>1, <2>2
<1>3. Pick(seq, I) = Joined(texts, I)
  BY DEF Pick
<1> HIDE DEF texts
<1>4. PICK f : Joins(f, T, texts, I)
  BY <1>2, JoinedBySteps
<1>5. f \in [0 .. n -> Seq(T)] /\ f[0] = <<>> /\ f[n] = Pick(seq, I)
  BY <1>2, <1>3, <1>4 DEF Joins
<1>6. ASSUME NEW i \in 1 .. n
      PROVE  f[i] = IF i \in I THEN Append(f[i - 1], seq[i]) ELSE f[i - 1]
  <2>1. f[i] = IF i \in I THEN f[i - 1] \o <<seq[i]>> ELSE f[i - 1]
    BY <1>2, <1>4 DEF Joins
  <2>2. f[i - 1] \in Seq(T) /\ seq[i] \in T
    BY <1>1, <1>5
  <2>3. Append(f[i - 1], seq[i]) = f[i - 1] \o <<seq[i]>>
    BY <2>2, AppendIsConcat
  <2> QED BY <2>1, <2>3
<1> QED BY <1>5, <1>6 DEF Picks

\* What is picked is a sequence of elements at those indices.
LEMMA PickElements ==
  ASSUME NEW T, NEW seq \in Seq(T), NEW I
  PROVE  /\ Pick(seq, I) \in Seq(T)
         /\ \A j \in DOMAIN Pick(seq, I) : \E i \in I \cap DOMAIN seq : Pick(seq, I)[j] = seq[i]
<1>2. Len(seq) \in Nat /\ DOMAIN seq = 1 .. Len(seq) /\ \A i \in 1 .. Len(seq) : seq[i] \in T
  OBVIOUS
<1> DEFINE n == Len(seq)
           S == {s \in Seq(T) : \A j \in 1 .. Len(s) : \E i \in I \cap 1 .. n : s[j] = seq[i]}
<1>0. PICK f : Picks(f, T, seq, I)
  BY PickBySteps
<1>1. /\ f \in [0 .. n -> Seq(T)]
      /\ f[0] = <<>> /\ f[n] = Pick(seq, I)
      /\ \A i \in 1 .. n : f[i] = IF i \in I THEN Append(f[i - 1], seq[i]) ELSE f[i - 1]
  BY <1>0 DEF Picks
<1>3. f[0] \in S
  BY <1>1
<1>4. ASSUME NEW i \in 1 .. n, f[i - 1] \in S PROVE f[i] \in S
  <2>1. CASE i \notin I
    BY <1>1, <1>4, <2>1
  <2>2. CASE i \in I
    <3> DEFINE s == f[i - 1]
    <3>1. s \in Seq(T) /\ f[i] = Append(s, seq[i]) /\ seq[i] \in T
      <4>1. f[i - 1] \in Seq(T)
        BY <1>4
      <4>2. f[i] = Append(f[i - 1], seq[i])
        BY <1>1, <2>2
      <4> QED BY <1>2, <4>1, <4>2
    <3>2. ASSUME NEW j \in 1 .. Len(f[i]) PROVE \E h \in I \cap 1 .. n : f[i][j] = seq[h]
      <4>0. Len(s) \in Nat /\ \A h \in 1 .. Len(s) : \E k \in I \cap 1 .. n : s[h] = seq[k]
        <5> HIDE DEF n
        <5> QED BY <3>1, <1>4
      <4> HIDE DEF n
      <4> HIDE DEF s
      <4>1. CASE j \in 1 .. Len(s)
        <5>1. f[i][j] = s[j]
          BY <3>1, <4>1, AppendProperties
        <5> QED BY <5>1, <4>0, <4>1
      <4>2. CASE j = Len(s) + 1
        <5>1. f[i][j] = seq[i]
          BY <3>1, <4>2, AppendProperties
        <5> QED BY <5>1, <2>2
      <4>3. j \in 1 .. Len(s) + 1
        BY <3>1, <3>2
      <4> QED BY <4>0, <4>1, <4>2, <4>3
    <3>3. f[i] \in Seq(T)
      BY <3>1
    <3> QED BY <3>2, <3>3
  <2> QED BY <2>1, <2>2
<1>5. \A i \in 0 .. n : f[i] \in S
  <2> HIDE DEF S
  <2> QED BY <1>2, <1>3, <1>4, StaysIn
<1>6. Pick(seq, I) \in S
  <2>1. n \in 0 .. n
    BY <1>2
  <2> QED BY <1>1, <1>5, <2>1
<1>7. DOMAIN Pick(seq, I) = 1 .. Len(Pick(seq, I))
  BY <1>6, LenProperties
<1> QED BY <1>2, <1>6, <1>7

-----------------------------------------------------------------------------
(* Texts *)

\* The lexemes the planner adds, and texts put together, are texts.
LEMMA TokensAreTokens ==
  /\ \A p \in Path : <<Key(p)>> \in Texts /\ <<Header(p)>> \in Texts
  /\ <<Newline>> \in Texts /\ <<>> \in Texts
  /\ \A s, t \in Texts : s \o t \in Texts
<1> DEFINE S == [kind : Kinds, text : Path]
<1>1. \A p \in Path : Key(p) \in S /\ Header(p) \in S
  BY DEF Key, Header, Token, Kinds
<1>2. Newline \in S
  <2>1. <<>> \in Path
    BY EmptySeq DEF Path
  <2> QED BY <2>1 DEF Newline, Token, Kinds
<1>3. \A c \in S : <<c>> \in Seq(S)
  <2> HIDE DEF S
  <2> QED BY OneElement
<1>4. <<>> \in Seq(S) /\ \A s, t \in Seq(S) : s \o t \in Seq(S)
  <2> HIDE DEF S
  <2> QED BY EmptySeq, ConcatProperties
<1>5. Texts = Seq(S)
  BY DEF Texts
<1> HIDE DEF S
<1> QED BY <1>1, <1>2, <1>3, <1>4, <1>5

\* What is added to a section is a text.
LEMMA InsertionTextIsText ==
  ASSUME NEW snapshot, NEW edits, NEW parent, Len(edits) \in Nat,
         \A i \in 1 .. Len(edits) : /\ edits[i].key \in Path \ {<<>>}
                                   /\ edits[i].pending \in Texts
  PROVE  InsertionText(snapshot, edits, parent) \in Texts
<1> DEFINE n == Len(edits)
           line(i) == <<Key(<<Last(edits[i].key)>>)>> \o edits[i].pending \o <<Newline>>
           lines == [i \in 1 .. n |-> line(i)]
<1>1. ASSUME NEW i \in 1 .. n PROVE line(i) \in Texts
  <2> DEFINE key == edits[i].key
  <2>1. key \in Seq(STRING) /\ key # <<>>
    BY DEF Path
  <2> HIDE DEF key
  <2>2. Last(key) \in STRING
    BY <2>1 DEF Last
  <2>3. <<Last(key)>> \in Path
    BY <2>2, OneElement DEF Path
  <2> DEFINE k == <<Key(<<Last(key)>>)>>
             l == <<Newline>>
  <2>4. k \in Texts /\ l \in Texts /\ edits[i].pending \in Texts
    BY <2>3, TokensAreTokens
  <2>5. line(i) = k \o edits[i].pending \o l
    BY DEF key
  <2> HIDE DEF k, l, line
  <2> QED BY <2>4, <2>5, TokensAreTokens
<1>2. InsertionText(snapshot, edits, parent)
        = Joined(lines, {i \in DOMAIN edits :
                           Inserts(snapshot, edits[i]) /\ Front(edits[i].key) = parent})
  BY DEF InsertionText
<1>3. lines \in Seq(Texts)
  <2> HIDE DEF line
  <2> QED BY <1>1
<1> HIDE DEF lines
<1> QED BY <1>2, <1>3, JoinedIsText DEF Texts

-----------------------------------------------------------------------------
(* The parser *)

Modes == {"line", "tail", "value", "member", "after", "key", "broken"}
Frames(n)  == Seq([kind : {"key", "lbracket", "lbrace"}, path : Path, at : 1 .. n])
Spans(n)   == [begin : 0 .. n, end : 0 .. n, value : Texts]
Entries(n) == UNION {[P -> Spans(n)] : P \in SUBSET Path}

\* The states of the parser in a document of n lexemes: the first open frame
\* is that of a key, and it is open while a value is read.
States(n) ==
  {s \in [mode : Modes, section : Path, frames : Frames(n),
          headers : SUBSET Path, dotted : SUBSET Path, entries : Entries(n)] :
     /\ s.mode \in {"value", "member", "after", "key"} => s.frames # <<>>
     /\ s.frames # <<>> => s.frames[1].kind = "key"}

\* r comes of s by the lexeme i: frames are as they were or begin with it,
\* values as they were or end with it and begin with a frame.
Follows(s, r, i) ==
  /\ \A g \in DOMAIN r.frames :
       \/ g \in DOMAIN s.frames /\ r.frames[g] = s.frames[g]
       \/ r.frames[g].at = i
  /\ \A p \in DOMAIN r.entries :
       \/ p \in DOMAIN s.entries /\ r.entries[p] = s.entries[p]
       \/ /\ r.entries[p].end = i
          /\ \E g \in DOMAIN s.frames : r.entries[p].begin = s.frames[g].at

\* The last of the open frames, and those before it.
LEMMA FrameFacts ==
  ASSUME NEW S, NEW fs \in Seq(S), fs # <<>>
  PROVE  /\ Len(fs) \in Nat /\ Len(fs) > 0 /\ DOMAIN fs = 1 .. Len(fs)
         /\ Last(fs) \in S /\ Last(fs) = fs[Len(fs)]
         /\ Front(fs) \in Seq(S) /\ Len(Front(fs)) = Len(fs) - 1
         /\ DOMAIN Front(fs) = 1 .. Len(fs) - 1
         /\ \A g \in DOMAIN Front(fs) : Front(fs)[g] = fs[g]
<1>1. /\ Len(fs) \in Nat /\ Len(fs) > 0 /\ DOMAIN fs = 1 .. Len(fs)
      /\ \A g \in 1 .. Len(fs) : fs[g] \in S
  OBVIOUS
<1>2. SubSeq(fs, 1, Len(fs) - 1) \in Seq(S)
      /\ Len(SubSeq(fs, 1, Len(fs) - 1)) = Len(fs) - 1
      /\ \A g \in 1 .. Len(fs) - 1 : SubSeq(fs, 1, Len(fs) - 1)[g] = fs[g]
  <2>1. \A g \in 1 .. Len(fs) - 1 : fs[g] \in S
    BY <1>1
  <2> QED BY <1>1, <2>1, SubSeqProperties
<1>3. DOMAIN SubSeq(fs, 1, Len(fs) - 1) = 1 .. Len(fs) - 1
  BY <1>2, LenProperties
<1> QED BY <1>1, <1>2, <1>3 DEF Last, Front

\* A frame is opened at the lexeme i.
LEMMA PushedStays ==
  ASSUME NEW n \in Nat, NEW s \in States(n), NEW i \in 1 .. n, NEW path \in Path,
         NEW kind \in {"key", "lbracket", "lbrace"}, NEW mode \in Modes,
         s.frames = <<>> => kind = "key"
  PROVE  /\ Pushed(s, kind, path, i, mode) \in States(n)
         /\ Follows(s, Pushed(s, kind, path, i, mode), i)
<1> DEFINE S == [kind : {"key", "lbracket", "lbrace"}, path : Path, at : 1 .. n]
           f == [kind |-> kind, path |-> path, at |-> i]
           fs == Append(s.frames, f)
           r == [s EXCEPT !.mode = mode, !.frames = fs]
<1>1. s \in [mode : Modes, section : Path, frames : Seq(S),
             headers : SUBSET Path, dotted : SUBSET Path, entries : Entries(n)]
      /\ (s.frames # <<>> => s.frames[1].kind = "key")
  BY DEF States, Frames
<1>2. f \in S /\ f.kind = kind /\ f.at = i
  OBVIOUS
<1>3. r = Pushed(s, kind, path, i, mode)
  BY <1>1 DEF Pushed
<1> HIDE DEF S, f
<1>4. s.frames \in Seq(S) /\ Len(s.frames) \in Nat /\ DOMAIN s.frames = 1 .. Len(s.frames)
  BY <1>1
<1>5. /\ fs \in Seq(S) /\ fs # <<>> /\ DOMAIN fs = 1 .. Len(s.frames) + 1
      /\ \A g \in 1 .. Len(s.frames) : fs[g] = s.frames[g]
      /\ fs[Len(s.frames) + 1] = f
  BY <1>2, <1>4, AppendProperties
<1> HIDE DEF fs
<1>6. fs[1].kind = "key"
  <2>1. CASE s.frames = <<>>
    <3>1. Len(s.frames) = 0
      BY <2>1
    <3>2. fs[1] = f
      BY <1>5, <3>1
    <3> QED BY <1>2, <2>1, <3>2
  <2>2. CASE s.frames # <<>>
    <3>1. 1 \in 1 .. Len(s.frames)
      BY <1>1, <1>4, <2>2, EmptySeq
    <3> QED BY <1>1, <1>5, <2>2, <3>1
  <2> QED BY <2>1, <2>2
<1>7. /\ r \in [mode : Modes, section : Path, frames : Seq(S),
                headers : SUBSET Path, dotted : SUBSET Path, entries : Entries(n)]
      /\ r.frames = fs /\ r.entries = s.entries
  BY <1>1, <1>5
<1> HIDE DEF r
<1>8. r \in States(n)
  BY <1>5, <1>6, <1>7 DEF States, Frames, S
<1>9. Follows(s, r, i)
  BY <1>2, <1>4, <1>5, <1>7 DEF Follows
<1> QED BY <1>3, <1>8, <1>9

\* The value of a node is a text.
LEMMA CanonicalIsText ==
  ASSUME NEW doc \in Texts, NEW lex, NEW begin, NEW end
  PROVE  Canonical(doc, lex, begin, end) \in Texts
  BY PickElements DEF Canonical, Texts

\* A state whose innermost frame is taken away: that of a key that has its
\* value, or of a table or array that is closed, and then has a key around it.
LEMMA PoppedStays ==
  ASSUME NEW n \in Nat, NEW s \in States(n), s.frames # <<>>
  PROVE  /\ Front(s.frames) \in Frames(n)
         /\ Last(s.frames) \in [kind : {"key", "lbracket", "lbrace"}, path : Path, at : 1 .. n]
         /\ \E g \in DOMAIN s.frames : Last(s.frames) = s.frames[g]
         /\ \A g \in DOMAIN Front(s.frames) :
              g \in DOMAIN s.frames /\ Front(s.frames)[g] = s.frames[g]
         /\ Front(s.frames) # <<>> => Front(s.frames)[1].kind = "key"
         /\ Len(s.frames) # 1 \/ Last(s.frames).kind # "key" => Front(s.frames) # <<>>
<1> DEFINE S == [kind : {"key", "lbracket", "lbrace"}, path : Path, at : 1 .. n]
           fs == s.frames
           front == Front(fs)
<1>1. fs \in Seq(S) /\ fs # <<>> /\ fs[1].kind = "key"
  BY DEF States, Frames
<1> HIDE DEF S, fs
<1>2. /\ Len(fs) \in Nat /\ Len(fs) > 0 /\ DOMAIN fs = 1 .. Len(fs)
      /\ Last(fs) \in S /\ Last(fs) = fs[Len(fs)]
      /\ front \in Seq(S) /\ Len(front) = Len(fs) - 1
      /\ DOMAIN front = 1 .. Len(fs) - 1
      /\ \A g \in DOMAIN front : front[g] = fs[g]
  BY <1>1, FrameFacts
<1> HIDE DEF front
<1>3. front # <<>> => front[1].kind = "key"
  <2> SUFFICES ASSUME front # <<>> PROVE front[1].kind = "key"
    OBVIOUS
  <2>1. 1 \in DOMAIN front
    BY <1>2, EmptySeq
  <2> QED BY <1>1, <1>2, <2>1
<1>4. Len(fs) # 1 \/ Last(fs).kind # "key" => front # <<>>
  <2> SUFFICES ASSUME Len(fs) # 1 \/ Last(fs).kind # "key" PROVE front # <<>>
    OBVIOUS
  <2>1. Len(fs) # 1
    BY <1>1, <1>2
  <2>2. Len(front) # 0
    BY <1>2, <2>1
  <2> QED BY <2>2, EmptySeq
<1>5. /\ \E g \in DOMAIN fs : Last(fs) = fs[g]
      /\ \A g \in DOMAIN front : g \in DOMAIN fs /\ front[g] = fs[g]
  BY <1>2
<1> QED BY <1>2, <1>3, <1>4, <1>5 DEF S, fs, front, Frames

\* A value ends at the lexeme i: its span begins where its frame does.
LEMMA EndedStays ==
  ASSUME NEW n \in Nat, NEW doc \in Texts, NEW lex, NEW s \in States(n), s.frames # <<>>,
         NEW i \in 1 .. n
  PROVE  /\ Ended(doc, lex, s, i) \in States(n)
         /\ Follows(s, Ended(doc, lex, s, i), i)
<1> DEFINE f == Last(s.frames)
           front == Front(s.frames)
           rec == [begin |-> f.at, end |-> i, value |-> Canonical(doc, lex, f.at, i)]
           added == [p \in DOMAIN s.entries \cup {f.path} |->
                       IF p \in DOMAIN s.entries THEN s.entries[p] ELSE rec]
           es == IF \E g \in Range(s.frames) : g.kind = "lbracket" THEN s.entries ELSE added
           mode == IF Len(s.frames) = 1 THEN "tail" ELSE "after"
           r == [s EXCEPT !.frames = front, !.mode = mode, !.entries = es]
<1>1. /\ s \in [mode : Modes, section : Path, frames : Frames(n),
                headers : SUBSET Path, dotted : SUBSET Path, entries : Entries(n)]
      /\ s.frames[1].kind = "key"
  BY DEF States
<1>2. Ended(doc, lex, s, i) = IF f.kind # "key" THEN [s EXCEPT !.mode = "after"] ELSE r
  BY <1>1 DEF Ended
<1>3. /\ front \in Frames(n)
      /\ f \in [kind : {"key", "lbracket", "lbrace"}, path : Path, at : 1 .. n]
      /\ \E g \in DOMAIN s.frames : f = s.frames[g]
      /\ \A g \in DOMAIN front : g \in DOMAIN s.frames /\ front[g] = s.frames[g]
      /\ front # <<>> => front[1].kind = "key"
      /\ Len(s.frames) # 1 => front # <<>>
  BY PoppedStays
<1>4. CASE f.kind # "key"
  <2> DEFINE q == [s EXCEPT !.mode = "after"]
  <2>1. /\ q \in [mode : Modes, section : Path, frames : Frames(n),
                  headers : SUBSET Path, dotted : SUBSET Path, entries : Entries(n)]
        /\ q.frames = s.frames /\ q.entries = s.entries
    BY <1>1 DEF Modes
  <2> HIDE DEF q
  <2>2. q \in States(n)
    BY <1>1, <2>1 DEF States
  <2>3. Follows(s, q, i)
    BY <2>1 DEF Follows
  <2> QED BY <1>2, <1>4, <2>2, <2>3 DEF q
<1>5. CASE f.kind = "key"
  <2>1. rec \in Spans(n) /\ rec.begin = f.at /\ rec.end = i
    <3>1. Canonical(doc, lex, f.at, i) \in Texts
      BY CanonicalIsText
    <3> HIDE DEF f
    <3> QED BY <1>3, <3>1 DEF Spans
  <2> HIDE DEF rec, f, front
  <2>2. PICK P \in SUBSET Path : s.entries \in [P -> Spans(n)]
    BY <1>1 DEF Entries
  <2>3. /\ added \in [P \cup {f.path} -> Spans(n)]
        /\ \A p \in DOMAIN added : \/ p \in DOMAIN s.entries /\ added[p] = s.entries[p]
                                   \/ added[p] = rec
    BY <1>3, <2>1, <2>2
  <2>4. added \in Entries(n)
    <3>1. P \cup {f.path} \in SUBSET Path
      BY <1>3
    <3> HIDE DEF added
    <3> QED BY <2>3, <3>1 DEF Entries
  <2> HIDE DEF added
  <2>5. /\ es \in Entries(n)
        /\ \A p \in DOMAIN es : \/ p \in DOMAIN s.entries /\ es[p] = s.entries[p]
                                \/ es[p] = rec
    BY <1>1, <2>3, <2>4
  <2> HIDE DEF es
  <2>6. /\ r \in [mode : Modes, section : Path, frames : Frames(n),
                  headers : SUBSET Path, dotted : SUBSET Path, entries : Entries(n)]
        /\ r.frames = front /\ r.entries = es
        /\ r.mode = mode
    BY <1>1, <1>3, <2>5 DEF Modes
  <2> HIDE DEF r
  <2>7. r.mode \in {"value", "member", "after", "key"} => r.frames # <<>>
    BY <1>3, <2>6
  <2>8. r \in States(n)
    BY <1>3, <2>6, <2>7 DEF States
  <2>9. Follows(s, r, i)
    BY <1>3, <2>1, <2>5, <2>6 DEF Follows
  <2> QED BY <1>2, <1>5, <2>8, <2>9 DEF r, f, es, rec, added, front
<1> QED BY <1>4, <1>5

\* Frames and entries are as they were.
LEMMA SameFramesStay ==
  ASSUME NEW n \in Nat, NEW s \in States(n), NEW i \in 1 .. n, NEW mode \in Modes,
         NEW section \in Path, NEW headers \in SUBSET Path,
         mode \in {"value", "member", "after", "key"} => s.frames # <<>>
  PROVE  LET r == [s EXCEPT !.mode = mode, !.section = section, !.headers = headers]
         IN  r \in States(n) /\ Follows(s, r, i)
<1> DEFINE r == [s EXCEPT !.mode = mode, !.section = section, !.headers = headers]
<1>1. s \in [mode : Modes, section : Path, frames : Frames(n),
             headers : SUBSET Path, dotted : SUBSET Path, entries : Entries(n)]
      /\ (s.frames # <<>> => s.frames[1].kind = "key")
  BY DEF States
<1>2. /\ r \in [mode : Modes, section : Path, frames : Frames(n),
                headers : SUBSET Path, dotted : SUBSET Path, entries : Entries(n)]
      /\ r.frames = s.frames /\ r.entries = s.entries /\ r.mode = mode
  BY <1>1
<1> HIDE DEF r
<1>3. r \in States(n) /\ Follows(s, r, i)
  BY <1>1, <1>2 DEF States, Follows
<1> QED BY <1>3 DEF r

\* The path a key or header leads to, and the tables on it.
LEMMA PathsArePaths ==
  ASSUME NEW base \in Path, NEW text \in Path
  PROVE  base \o text \in Path /\ Through(base, base \o text) \subseteq Path
<1>1. base \o text \in Path
  BY ConcatProperties DEF Path
<1> DEFINE path == base \o text
<1>2. path \in Seq(STRING) /\ Len(base) \in Nat /\ Len(path) \in Nat
  BY <1>1 DEF Path
<1> HIDE DEF path
<1>3. ASSUME NEW m \in Len(base) + 1 .. Len(path) - 1 PROVE SubSeq(path, 1, m) \in Path
  <2>1. \A j \in 1 .. m : path[j] \in STRING
    BY <1>2
  <2>2. m \in Int
    BY <1>2
  <2> QED BY <2>1, <2>2, SubSeqProperties DEF Path
<1> QED BY <1>1, <1>3 DEF Through, path

\* What the parser does with a lexeme.
LEMMA FeedStays ==
  ASSUME NEW n \in Nat, NEW doc \in Texts, Len(doc) = n, NEW lex, NEW s \in States(n),
         NEW i \in 1 .. n
  PROVE  Feed(doc, lex, s, i) \in States(n) /\ Follows(s, Feed(doc, lex, s, i), i)
<1> DEFINE t == doc[i]
           base == IF Top(s) = "none" THEN s.section ELSE Last(s.frames).path
           path == base \o t.text
           popped == [s EXCEPT !.frames = Front(s.frames)]
           keyed == [Pushed(s, "key", path, i, "value")
                       EXCEPT !.dotted = @ \cup Through(base, path)]
           Fine(r) == r \in States(n) /\ Follows(s, r, i)
<1>1. /\ s \in [mode : Modes, section : Path, frames : Frames(n),
                headers : SUBSET Path, dotted : SUBSET Path, entries : Entries(n)]
      /\ s.mode \in {"value", "member", "after", "key"} => s.frames # <<>>
      /\ s.frames # <<>> => s.frames[1].kind = "key"
  BY DEF States
<1>2. t.text \in Path
  <2>1. t \in [kind : Kinds, text : Path]
    BY ElementOfSeq DEF Texts
  <2> QED BY <2>1
<1> HIDE DEF t
<1>3. base \in Path /\ (Top(s) \in {"lbracket", "lbrace"} => s.frames # <<>>)
  <2>1. CASE s.frames = <<>>
    BY <1>1, <2>1 DEF Top
  <2>2. CASE s.frames # <<>>
    BY <1>1, <2>2, PoppedStays DEF Top
  <2> QED BY <2>1, <2>2
<1> HIDE DEF base
<1>4. path \in Path /\ Through(base, path) \subseteq Path
  BY <1>2, <1>3, PathsArePaths
<1> HIDE DEF path
<1>5. Fine(s)
  <2>1. Follows(s, s, i)
    BY DEF Follows
  <2> QED BY <2>1
<1>6. ASSUME NEW mode \in Modes, mode \in {"value", "member", "after", "key"} => s.frames # <<>>
      PROVE  Fine([s EXCEPT !.mode = mode])
  <2> DEFINE section == s.section
             headers == s.headers
  <2>1. [s EXCEPT !.mode = mode]
          = [s EXCEPT !.mode = mode, !.section = section, !.headers = headers]
    BY <1>1
  <2>2. section \in Path /\ headers \in SUBSET Path
    BY <1>1
  <2> HIDE DEF section, headers
  <2>3. Fine([s EXCEPT !.mode = mode, !.section = section, !.headers = headers])
    BY <1>6, <2>2, SameFramesStay
  <2> QED BY <2>1, <2>3
<1>7. Fine([s EXCEPT !.mode = "tail", !.section = t.text, !.headers = @ \cup {t.text}])
  <2>1. s.headers \cup {t.text} \in SUBSET Path
    BY <1>1, <1>2
  <2> DEFINE hs == s.headers \cup {t.text}
  <2> HIDE DEF hs
  <2>2. Fine([s EXCEPT !.mode = "tail", !.section = t.text, !.headers = hs])
    BY <1>2, <2>1, SameFramesStay DEF hs, Modes
  <2> QED BY <2>2 DEF hs
<1>8. Fine(keyed)
  <2> DEFINE q == Pushed(s, "key", path, i, "value")
             ds == q.dotted \cup Through(base, path)
             r == [q EXCEPT !.dotted = ds]
  <2>1. q \in States(n) /\ Follows(s, q, i)
    BY <1>4, PushedStays DEF Modes
  <2> HIDE DEF q
  <2>2. /\ q \in [mode : Modes, section : Path, frames : Frames(n),
                  headers : SUBSET Path, dotted : SUBSET Path, entries : Entries(n)]
        /\ q.mode \in {"value", "member", "after", "key"} => q.frames # <<>>
        /\ q.frames # <<>> => q.frames[1].kind = "key"
    BY <2>1 DEF States
  <2>3. ds \in SUBSET Path
    BY <1>4, <2>2
  <2> HIDE DEF ds
  <2>4. /\ r \in [mode : Modes, section : Path, frames : Frames(n),
                  headers : SUBSET Path, dotted : SUBSET Path, entries : Entries(n)]
        /\ r.mode = q.mode /\ r.frames = q.frames /\ r.entries = q.entries
    BY <2>2, <2>3
  <2> HIDE DEF r
  <2>5. Fine(r)
    BY <2>1, <2>2, <2>4 DEF States, Follows
  <2>6. keyed = r
    BY DEF q, ds, r
  <2> QED BY <2>5, <2>6
<1>9. ASSUME NEW kind \in {"lbracket", "lbrace"}, NEW mode \in Modes, s.mode = "value"
      PROVE  Fine(Pushed(s, kind, base, i, mode))
  BY <1>1, <1>3, <1>9, PushedStays
<1>10. ASSUME s.frames # <<>>
       PROVE  Fine(Ended(doc, lex, s, i))
  BY <1>10, EndedStays
<1>11. ASSUME Top(s) \in {"lbracket", "lbrace"}
       PROVE  Fine(Ended(doc, lex, popped, i))
  <2>1. s.frames # <<>> /\ Last(s.frames).kind # "key"
    BY <1>3, <1>11 DEF Top
  <2>2. /\ Front(s.frames) \in Frames(n)
        /\ \A g \in DOMAIN Front(s.frames) :
             g \in DOMAIN s.frames /\ Front(s.frames)[g] = s.frames[g]
        /\ Front(s.frames) # <<>> => Front(s.frames)[1].kind = "key"
        /\ Front(s.frames) # <<>>
    BY <2>1, PoppedStays
  <2>3. /\ popped \in [mode : Modes, section : Path, frames : Frames(n),
                       headers : SUBSET Path, dotted : SUBSET Path, entries : Entries(n)]
        /\ popped.frames = Front(s.frames) /\ popped.entries = s.entries
    BY <1>1, <2>2
  <2> HIDE DEF popped
  <2>4. popped \in States(n) /\ popped.frames # <<>>
    BY <2>2, <2>3 DEF States
  <2> DEFINE r == Ended(doc, lex, popped, i)
  <2>5. r \in States(n) /\ Follows(popped, r, i)
    BY <2>4, EndedStays
  <2> HIDE DEF r
  <2>6. Follows(s, r, i)
    BY <2>2, <2>3, <2>5 DEF Follows
  <2> QED BY <2>5, <2>6 DEF r
<1> HIDE DEF Fine, popped, keyed
<1> DEFINE r == Feed(doc, lex, s, i)
<1> DEFINE lined    == [s EXCEPT !.mode = "line"]
           broken   == [s EXCEPT !.mode = "broken"]
           headed   == [s EXCEPT !.mode = "tail", !.section = t.text, !.headers = @ \cup {t.text}]
           array    == Pushed(s, "lbracket", base, i, "value")
           table    == Pushed(s, "lbrace", base, i, "member")
           comma    == [s EXCEPT !.mode = IF Top(s) = "lbracket" THEN "value" ELSE "key"]
           closed   == Ended(doc, lex, popped, i)
           scalar   == Ended(doc, lex, s, i)
<1>12. r = CASE t = Newline /\ s.mode \in {"line", "tail"} -> lined
          [] t = Newline /\ Top(s) = "lbracket" -> s
          [] t.kind = "header" /\ s.mode = "line" /\ ~ Reopens(s, t.text) -> headed
          [] /\ t.kind = "key" /\ s.mode \in {"line", "member", "key"}
             /\ ~ Clashes(s, path) /\ Through(base, path) \cap s.headers = {} -> keyed
          [] t = LBracket /\ s.mode = "value" -> array
          [] t = LBrace /\ s.mode = "value" -> table
          [] t = Comma /\ s.mode = "after" -> comma
          [] t = RBracket /\ s.mode \in {"value", "after"} /\ Top(s) = "lbracket" -> closed
          [] t = RBrace /\ s.mode \in {"member", "after"} /\ Top(s) = "lbrace" -> closed
          [] (t.kind = "atom" \/ t \in Quotes) /\ s.mode = "value" -> scalar
          [] OTHER -> broken
  BY Zenon DEF Feed, t, base, path, popped, keyed
<1> HIDE DEF r, lined, broken, headed, array, table, comma, closed, scalar
<1>13. \/ r \in {s, lined, broken, headed, keyed}
       \/ s.mode = "value" /\ r \in {array, table, scalar}
       \/ s.mode = "after" /\ r = comma
       \/ Top(s) \in {"lbracket", "lbrace"} /\ r = closed
  BY <1>12, SMT
<1>14. \/ r = s
       \/ r \in {[s EXCEPT !.mode = "line"], [s EXCEPT !.mode = "broken"]}
       \/ r = [s EXCEPT !.mode = "tail", !.section = t.text, !.headers = @ \cup {t.text}]
       \/ r = keyed
       \/ s.mode = "value" /\ r \in {Pushed(s, "lbracket", base, i, "value"),
                                     Pushed(s, "lbrace", base, i, "member")}
       \/ s.mode = "after" /\ r = [s EXCEPT !.mode = IF Top(s) = "lbracket" THEN "value" ELSE "key"]
       \/ Top(s) \in {"lbracket", "lbrace"} /\ r = Ended(doc, lex, popped, i)
       \/ s.mode = "value" /\ r = Ended(doc, lex, s, i)
  BY <1>13 DEF lined, broken, headed, array, table, comma, closed, scalar
<1>15. Fine([s EXCEPT !.mode = "line"]) /\ Fine([s EXCEPT !.mode = "broken"])
  BY <1>6 DEF Modes
<1>16. CASE s.mode = "value"
  <2>1. Fine(Ended(doc, lex, s, i))
    BY <1>1, <1>10, <1>16
  <2>2. /\ Fine(Pushed(s, "lbracket", base, i, "value"))
        /\ Fine(Pushed(s, "lbrace", base, i, "member"))
    BY <1>9, <1>16 DEF Modes
  <2> QED BY <1>5, <1>7, <1>8, <1>11, <1>14, <1>15, <1>16, <2>1, <2>2 DEF Fine, r
<1>17. CASE s.mode = "after"
  <2>1. Fine([s EXCEPT !.mode = IF Top(s) = "lbracket" THEN "value" ELSE "key"])
    BY <1>1, <1>6, <1>17 DEF Modes
  <2> QED BY <1>5, <1>7, <1>8, <1>11, <1>14, <1>15, <1>17, <2>1 DEF Fine, r
<1>18. CASE s.mode \notin {"value", "after"}
  BY <1>5, <1>7, <1>8, <1>11, <1>14, <1>15, <1>18 DEF Fine, r
<1> QED BY <1>16, <1>17, <1>18

\* Every value that is found ends where it begins or later, in the document.
LEMMA EntriesAreSpans ==
  ASSUME NEW doc \in Texts
  PROVE  \A p \in DOMAIN Parsed(doc).entries :
           LET e == Parsed(doc).entries[p]
           IN  e \in Spans(Len(doc)) /\ e.begin <= e.end
<1> DEFINE n == Len(doc)
           lex == Lex(doc)
           Step(s, i) == IF lex[i] = "code" THEN Feed(doc, lex, s, i) ELSE s
           step == [p \in States(n) \X (1 .. n) |-> Step(p[1], p[2])]
           Is(f) == f = [i \in 0 .. n |->
                           IF i = 0 THEN ParseStart ELSE Step(f[i - 1], Indices(doc)[i])]
           f == CHOOSE f : Is(f)
<1>1. n \in Nat /\ Len(Indices(doc)) = n /\ \A i \in 1 .. n : Indices(doc)[i] = i
  BY DEF Indices, Texts
<1>2. Parsed(doc).entries = f[n].entries
  BY <1>1 DEF Parsed, Final
<1>3. ASSUME NEW s \in States(n), NEW i \in 1 .. n
      PROVE  Step(s, i) \in States(n) /\ Follows(s, Step(s, i), i)
  <2>1. Follows(s, s, i)
    BY DEF Follows
  <2>2. Feed(doc, lex, s, i) \in States(n) /\ Follows(s, Feed(doc, lex, s, i), i)
    <3> HIDE DEF lex
    <3> QED BY <1>1, FeedStays
  <2> HIDE DEF lex
  <2> QED BY <2>1, <2>2
<1> HIDE DEF lex, Step
<1>4. /\ ParseStart \in States(n)
      /\ ParseStart.frames = <<>> /\ DOMAIN ParseStart.entries = {}
  <2>1. <<>> \in Path /\ <<>> \in Frames(n)
    BY EmptySeq DEF Path, Frames
  <2>2. <<>> \in [{} -> Spans(n)]
    OBVIOUS
  <2>3. <<>> \in Entries(n)
    BY <2>2 DEF Entries
  <2> DEFINE none == <<>>
  <2>4. none \in Path /\ none \in Frames(n) /\ none \in Entries(n) /\ DOMAIN none = {}
    BY <2>1, <2>3
  <2>5. ParseStart = [mode |-> "line", section |-> none, frames |-> none,
                      headers |-> {}, dotted |-> {}, entries |-> none]
    BY DEF ParseStart
  <2> HIDE DEF none
  <2>6. ParseStart \in States(n) /\ ParseStart.frames = none /\ ParseStart.entries = none
    <3>1. /\ ParseStart \in [mode : Modes, section : Path, frames : Frames(n),
                             headers : SUBSET Path, dotted : SUBSET Path, entries : Entries(n)]
          /\ ParseStart.mode = "line" /\ ParseStart.frames = none /\ ParseStart.entries = none
      BY <2>4, <2>5 DEF Modes
    <3> QED BY <3>1 DEF States, none
  <2> QED BY <2>4, <2>6 DEF none
<1>5. step \in [States(n) \X (1 .. n) -> States(n)]
  BY <1>3
<1>6. \A s \in States(n), i \in 1 .. n : step[<<s, i>>] = Step(s, i)
  OBVIOUS
<1> HIDE DEF n, step
<1>7. PICK run : Runs(run, n, States(n), ParseStart, step)
  <2> DEFINE S == States(n)
  <2>1. ParseStart \in S /\ step \in [S \X (1 .. n) -> S] /\ n \in Nat
    BY <1>1, <1>4, <1>5
  <2> HIDE DEF S
  <2>2. \E run : Runs(run, n, S, ParseStart, step)
    BY <2>1, BySteps
  <2> QED BY <2>2 DEF S
<1>8. Is(run)
  <2>1. \A i \in 1 .. n : run[i - 1] \in States(n) /\ Indices(doc)[i] = i /\ i # 0
    BY <1>1, <1>7 DEF Runs
  <2>2. \A i \in 1 .. n : run[i] = Step(run[i - 1], Indices(doc)[i])
    BY <1>6, <1>7, <2>1 DEF Runs
  <2>3. \A i \in 0 .. n : run[i] = IF i = 0 THEN ParseStart ELSE Step(run[i - 1], Indices(doc)[i])
    BY <1>1, <1>7, <2>2 DEF Runs
  <2>4. run = [i \in 0 .. n |-> run[i]]
    BY <1>7 DEF Runs
  <2> QED BY <2>3, <2>4
<1>9. Is(f)
  BY <1>8
<1> HIDE DEF f
<1>10. f[0] = ParseStart /\ \A i \in 1 .. n : f[i] = Step(f[i - 1], i)
  BY <1>1, <1>9
<1>11. \A i \in 0 .. n : f[i] \in States(n)
  <2> DEFINE S == States(n)
  <2>1. f[0] \in S /\ \A i \in 1 .. n : f[i - 1] \in S => f[i] \in S
    BY <1>3, <1>4, <1>10
  <2> HIDE DEF S
  <2>2. \A i \in 0 .. n : f[i] \in S
    BY <1>1, <2>1, StaysIn
  <2> QED BY <2>2 DEF S
<1> DEFINE Ordered(i) ==
             /\ \A g \in DOMAIN f[i].frames : f[i].frames[g].at <= i
             /\ \A p \in DOMAIN f[i].entries : f[i].entries[p].begin <= f[i].entries[p].end
           T == {i \in 0 .. n : Ordered(i)}
<1>12. 0 \in T
  <2>1. f[0].frames = <<>> /\ DOMAIN f[0].entries = {}
    BY <1>4, <1>10
  <2> QED BY <1>1, <2>1
<1>13. ASSUME NEW k \in 0 .. n - 1, k \in T PROVE k + 1 \in T
  <2> DEFINE i == k + 1
             s == f[k]
             r == f[i]
  <2>1. i \in 1 .. n /\ i - 1 = k /\ k \in 0 .. n
    BY <1>1
  <2>2. s \in States(n) /\ r \in States(n) /\ Follows(s, r, i)
    <3>1. r = Step(s, i)
      BY <1>10, <2>1
    <3>2. s \in States(n)
      BY <1>11, <2>1
    <3> HIDE DEF s, r, i
    <3> QED BY <1>3, <2>1, <3>1, <3>2
  <2>3. Ordered(k)
    BY <1>13
  <2>4. \A g \in DOMAIN s.frames : s.frames[g].at \in Nat
    <3>1. s.frames \in Frames(n)
      BY <2>2 DEF States
    <3> DEFINE S == [kind : {"key", "lbracket", "lbrace"}, path : Path, at : 1 .. n]
               fs == s.frames
    <3>2. fs \in Seq(S)
      BY <3>1 DEF Frames
    <3> HIDE DEF fs, S
    <3>3. \A g \in DOMAIN fs : fs[g] \in S
      BY <3>2
    <3> QED BY <1>1, <3>3 DEF fs, S
  <2> HIDE DEF i, s, r
  <2>5. i \in Nat /\ k \in Nat /\ k < i
    BY <2>1 DEF i
  <2>6. /\ \A g \in DOMAIN s.frames : s.frames[g].at <= k
        /\ \A p \in DOMAIN s.entries : s.entries[p].begin <= s.entries[p].end
    BY <2>3 DEF s
  <2>7. \A g \in DOMAIN r.frames : r.frames[g].at <= i
    BY <2>2, <2>4, <2>5, <2>6 DEF Follows
  <2>8. ASSUME NEW p \in DOMAIN r.entries PROVE r.entries[p].begin <= r.entries[p].end
    <3>1. CASE p \in DOMAIN s.entries /\ r.entries[p] = s.entries[p]
      BY <2>6, <3>1
    <3>2. CASE /\ r.entries[p].end = i
               /\ \E g \in DOMAIN s.frames : r.entries[p].begin = s.frames[g].at
      BY <2>4, <2>5, <2>6, <3>2
    <3> QED BY <2>2, <3>1, <3>2 DEF Follows
  <2>9. Ordered(i)
    BY <2>7, <2>8 DEF r
  <2> HIDE DEF Ordered
  <2> QED BY <2>1, <2>9 DEF i
<1>14. \A i \in 0 .. n : i \in T
  <2> HIDE DEF T
  <2> QED BY <1>1, <1>12, <1>13, NextByNext
<1>15. Ordered(n) /\ f[n] \in States(n)
  <2>1. n \in 0 .. n
    BY <1>1
  <2> HIDE DEF Ordered
  <2> QED BY <1>11, <1>14, <2>1
<1>16. \A p \in DOMAIN f[n].entries : f[n].entries[p] \in Spans(n)
  <2>1. f[n].entries \in Entries(n)
    BY <1>15 DEF States
  <2> QED BY <2>1 DEF Entries
<1> QED BY <1>2, <1>15, <1>16 DEF n

-----------------------------------------------------------------------------
(* The plan *)

\* A snapshot is what its document parses to.
IsRead(s) == s \in ParseDocument(s.doc)

\* The replacements of a plan: their spans are in the document, and what they
\* take away is what an edit is about.
Fitting(snapshot, edits) ==
  {r \in [begin : 0 .. Len(snapshot.doc), end : 0 .. Len(snapshot.doc), text : Texts] :
     r.begin <= r.end /\ r.begin + 1 .. r.end \subseteq Edited(snapshot, edits)}

\* A set of numbers up to n has a greatest element.
LEMMA GreatestElement ==
  ASSUME NEW n \in Nat, NEW T \in SUBSET (0 .. n), T # {}
  PROVE  Max(T) \in T
<1> DEFINE U == {u \in 0 .. n : n - u \in T}
<1>1. U \in SUBSET Nat /\ U # {}
  <2>1. PICK t \in T : TRUE
    OBVIOUS
  <2>2. t \in 0 .. n
    BY <2>1
  <2>3. n - t \in U
    BY <2>1, <2>2
  <2> QED BY <2>3
<1>2. PICK u \in U : \A v \in U : u <= v
  <2> HIDE DEF U
  <2> QED BY <1>1, LeastElement
<1> DEFINE t == n - u
<1>3. t \in T /\ u \in 0 .. n
  BY <1>2
<1>4. ASSUME NEW v \in T PROVE t >= v
  <2>1. v \in 0 .. n /\ n - v \in U
    <3>1. v \in 0 .. n
      OBVIOUS
    <3> QED BY <3>1
  <2>2. u <= n - v
    BY <1>2, <2>1
  <2> QED BY <1>3, <2>1, <2>2
<1> HIDE DEF t
<1> QED BY <1>3, <1>4 DEF Max

\* A line begins before what is on it.
LEMMA LineOfBounds ==
  ASSUME NEW doc, NEW offset \in Nat
  PROVE  LineOf(doc, offset) \in 0 .. offset
<1> DEFINE T == {0} \cup {i \in 1 .. offset : doc[i] = Newline}
<1>1. T \in SUBSET (0 .. offset) /\ T # {}
  OBVIOUS
<1>2. LineOf(doc, offset) = Max(T)
  BY DEF LineOf
<1> HIDE DEF T
<1> QED BY <1>1, <1>2, GreatestElement

\* Min is the least element.
LEMMA LeastIsMin ==
  ASSUME NEW T \in SUBSET Nat, T # {}
  PROVE  Min(T) \in T
  BY LeastElement DEF Min

\* The end of a line is in the document.
LEMMA NextLineBounds ==
  ASSUME NEW doc \in Texts, NEW line \in Nat
  PROVE  NextLine(doc, line) \in 0 .. Len(doc)
<1> DEFINE T == {Len(doc)} \cup {i \in line + 1 .. Len(doc) : doc[i] = Newline}
<1>1. Len(doc) \in Nat
  BY DEF Texts
<1>2. T \in SUBSET Nat /\ T # {} /\ T \subseteq 0 .. Len(doc)
  BY <1>1
<1>3. NextLine(doc, line) = Min(T)
  BY DEF NextLine
<1> HIDE DEF T
<1> QED BY <1>2, <1>3, LeastIsMin

\* There is at most one point to insert at, and it is in the document.
LEMMA InsertionPointBounds ==
  ASSUME NEW snapshot, snapshot.doc \in Texts, NEW parent
  PROVE  \/ InsertionPoint(snapshot, parent) = {}
         \/ \E point \in 0 .. Len(snapshot.doc) : InsertionPoint(snapshot, parent) = {point}
<1> DEFINE doc == snapshot.doc
           InValue(line) ==
             \E e \in Range(snapshot.entries) : e.begin < line /\ line < e.end
           found == {line \in 0 .. Len(doc) - 1 :
                       /\ line = 0 \/ doc[line] = Newline
                       /\ ~ InValue(line) /\ HeaderMatches(doc, line, parent)}
<1>1. Len(doc) \in Nat
  BY DEF Texts
<1>2. InsertionPoint(snapshot, parent)
        = IF parent = <<>> THEN {0}
          ELSE IF found = {} THEN {} ELSE {NextLine(doc, Min(found))}
  BY DEF InsertionPoint
<1>3. found \in SUBSET Nat
  BY <1>1
<1> HIDE DEF found
<1>4. CASE found = {} \/ parent = <<>>
  BY <1>1, <1>2, <1>4
<1>5. CASE found # {} /\ parent # <<>>
  <2>1. Min(found) \in Nat
    BY <1>3, <1>5, LeastIsMin
  <2>2. NextLine(doc, Min(found)) \in 0 .. Len(doc)
    BY <2>1, NextLineBounds
  <2> QED BY <1>2, <1>5, <2>2
<1> QED BY <1>4, <1>5

\* An insertion takes nothing away.
LEMMA InsertionFits ==
  ASSUME NEW snapshot, snapshot.doc \in Texts, NEW edits, NEW parent \in Path, NEW text \in Texts
  PROVE  InsertionOf(snapshot, parent, text) \in Fitting(snapshot, edits)
<1> DEFINE doc == snapshot.doc
           points == InsertionPoint(snapshot, parent)
           point == IF points = {} THEN Len(doc) ELSE Min(points)
           break == IF point # 0 /\ doc[point] # Newline THEN <<Newline>> ELSE <<>>
           heading == IF points = {} THEN <<Header(parent), Newline>> ELSE <<>>
           added == break \o heading \o text
<1>1. point \in 0 .. Len(doc)
  <2>1. Len(doc) \in Nat
    BY DEF Texts
  <2>2. ASSUME NEW p \in 0 .. Len(doc) PROVE Min({p}) = p
    BY LeastIsMin
  <2> QED BY <2>1, <2>2, InsertionPointBounds
<1>2. added \in Texts
  <2>1. <<Header(parent), Newline>> = <<Header(parent)>> \o <<Newline>>
    OBVIOUS
  <2>2. break \in Texts /\ heading \in Texts
    BY <2>1, TokensAreTokens
  <2> HIDE DEF break, heading
  <2> QED BY <2>2, TokensAreTokens
<1>3. InsertionOf(snapshot, parent, text) = [begin |-> point, end |-> point, text |-> added]
  BY DEF InsertionOf, Replacement
<1> HIDE DEF point, added
<1>4. point \in Nat /\ point + 1 .. point = {}
  <2>1. Len(doc) \in Nat
    BY DEF Texts
  <2> QED BY <1>1, <2>1
<1> QED BY <1>1, <1>2, <1>3, <1>4 DEF Fitting

\* A span of a document is a text.
LEMMA SubSpanIsText ==
  ASSUME NEW doc \in Texts, NEW begin \in 0 .. Len(doc), NEW end \in 0 .. Len(doc)
  PROVE  SubSpan(doc, begin, end) \in Texts
<1> DEFINE S == [kind : Kinds, text : Path]
<1>1. doc \in Seq(S)
  BY DEF Texts
<1> HIDE DEF S
<1>2. Len(doc) \in Nat /\ \A i \in 1 .. Len(doc) : doc[i] \in S
  BY <1>1
<1>3. SubSeq(doc, begin + 1, end) \in Seq(S)
  <2>1. \A i \in begin + 1 .. end : doc[i] \in S
    BY <1>2
  <2>2. begin + 1 \in Int /\ end \in Int
    BY <1>2
  <2> QED BY <2>1, <2>2, SubSeqProperties
<1> QED BY <1>3 DEF SubSpan, Texts, S

\* A replacement takes away what its edit is about, and nothing else.
LEMMA ReplacementFits ==
  ASSUME NEW snapshot, snapshot.doc \in Texts, NEW edits, NEW i \in DOMAIN edits,
         Replaces(snapshot, edits[i]), edits[i].pending \in Texts,
         snapshot.entries[edits[i].key] \in Spans(Len(snapshot.doc)),
         snapshot.entries[edits[i].key].begin <= snapshot.entries[edits[i].key].end,
         Assignment(snapshot.doc, snapshot.entries[edits[i].key].begin) # {}
  PROVE  ReplacementOf(snapshot.doc, snapshot.entries[edits[i].key], edits[i])
           \in Fitting(snapshot, edits)
<1> DEFINE doc == snapshot.doc
           e == edits[i]
           entry == snapshot.entries[e.key]
           begin == IF e.pending # NoValue THEN entry.begin ELSE LineOf(doc, entry.begin)
           text == IF e.pending # NoValue THEN e.pending
                   ELSE RetainedComments(SubSpan(doc, entry.begin, entry.end))
<1>1. Len(doc) \in Nat /\ entry.begin \in 0 .. Len(doc) /\ entry.end \in 0 .. Len(doc)
  BY DEF Texts, Spans
<1>2. begin \in 0 .. Len(doc) /\ begin <= entry.end
  <2>1. LineOf(doc, entry.begin) \in 0 .. entry.begin
    BY <1>1, LineOfBounds
  <2> QED BY <1>1, <2>1
<1>3. text \in Texts
  <2> DEFINE value == SubSpan(doc, entry.begin, entry.end)
  <2>1. value \in Texts
    BY <1>1, SubSpanIsText
  <2> HIDE DEF value
  <2>2. RetainedComments(value) \in Texts
    BY <2>1, PickElements DEF RetainedComments, Texts
  <2> QED BY <2>2 DEF value
<1>4. (CHOOSE line \in Assignment(doc, entry.begin) : TRUE) = LineOf(doc, entry.begin)
  <2>1. Assignment(doc, entry.begin) \subseteq {LineOf(doc, entry.begin)}
    BY DEF Assignment
  <2>2. Assignment(doc, entry.begin) # {}
    OBVIOUS
  <2> QED BY <2>1, <2>2
<1>5. ReplacementOf(doc, entry, e) = [begin |-> begin, end |-> entry.end, text |-> text]
  BY <1>4 DEF ReplacementOf, Replacement
<1>6. begin + 1 .. entry.end \subseteq Edited(snapshot, edits)
  <2>1. begin + 1 .. entry.end = About(snapshot, e)
    BY DEF About
  <2>2. About(snapshot, e) \subseteq Edited(snapshot, edits)
    BY DEF Edited
  <2> QED BY <2>1, <2>2
<1> HIDE DEF begin, text, entry, e, doc
<1> SUFFICES ReplacementOf(doc, entry, e) \in Fitting(snapshot, edits)
  BY DEF entry, e, doc
<1> QED BY <1>1, <1>2, <1>3, <1>5, <1>6 DEF Fitting, doc

\* What is planned for a batch that goes through fits.
LEMMA PlanFits ==
  ASSUME NEW snapshot, snapshot.doc \in Texts, IsRead(snapshot), NEW edits,
         Len(edits) \in Nat, DOMAIN edits = 1 .. Len(edits),
         \A i \in DOMAIN edits : edits[i].key \in Path /\ edits[i].pending \in Texts,
         edits \in Seq(Range(edits)),
         Plannable(snapshot, edits)
  PROVE  PlannedEdits(snapshot, edits) \o PlannedInsertions(snapshot, edits)
           \in Seq(Fitting(snapshot, edits))
<1> DEFINE doc == snapshot.doc
           F == Fitting(snapshot, edits)
           replaced == Pick(edits, {i \in DOMAIN edits : Replaces(snapshot, edits[i])})
           Text(p) == InsertionText(snapshot, edits, p)
           parents == Pick(Parents, {i \in DOMAIN Parents : Text(Parents[i]) # <<>>})
<1>1. snapshot.entries = Parsed(doc).entries
  BY DEF IsRead, ParseDocument
<1>2. PlannedEdits(snapshot, edits) \in Seq(F)
  <2>1. replaced \in Seq(Range(edits))
        /\ \A j \in DOMAIN replaced :
             \E i \in DOMAIN edits : Replaces(snapshot, edits[i]) /\ replaced[j] = edits[i]
    <3> DEFINE I == {i \in DOMAIN edits : Replaces(snapshot, edits[i])}
               T == Range(edits)
    <3>1. edits \in Seq(T) /\ replaced = Pick(edits, I)
      OBVIOUS
    <3> HIDE DEF I, T, replaced
    <3>2. replaced \in Seq(T)
          /\ \A j \in DOMAIN replaced : \E i \in I \cap DOMAIN edits : replaced[j] = edits[i]
      BY <3>1, PickElements
    <3> QED BY <3>2 DEF I, T
  <2>2. ASSUME NEW j \in DOMAIN replaced
        PROVE  ReplacementOf(doc, snapshot.entries[replaced[j].key], replaced[j]) \in F
    <3>1. PICK i \in DOMAIN edits : Replaces(snapshot, edits[i]) /\ replaced[j] = edits[i]
      BY <2>1
    <3> DEFINE e == edits[i]
               entry == snapshot.entries[e.key]
    <3>2. e.key \in DOMAIN snapshot.entries
      BY <3>1 DEF Replaces, Works, Value
    <3>3. entry \in Spans(Len(doc)) /\ entry.begin <= entry.end
      BY <1>1, <3>2, EntriesAreSpans
    <3>4. Assignment(doc, entry.begin) # {}
      BY <3>1 DEF Plannable
    <3>5. ReplacementOf(doc, entry, e) \in F
      BY <3>1, <3>3, <3>4, ReplacementFits
    <3> QED BY <3>1, <3>5
  <2> HIDE DEF replaced, F
  <2>3. DOMAIN replaced = 1 .. Len(replaced) /\ Len(replaced) \in Nat
    BY <2>1, LenProperties
  <2>4. PlannedEdits(snapshot, edits)
          = [j \in DOMAIN replaced |->
               ReplacementOf(doc, snapshot.entries[replaced[j].key], replaced[j])]
    BY DEF PlannedEdits, replaced
  <2> DEFINE R(j) == ReplacementOf(doc, snapshot.entries[replaced[j].key], replaced[j])
  <2>5. \A j \in 1 .. Len(replaced) : R(j) \in F
    BY <2>2, <2>3
  <2> HIDE DEF R
  <2>6. [j \in 1 .. Len(replaced) |-> R(j)] \in Seq(F)
    BY <2>3, <2>5
  <2> QED BY <2>3, <2>4, <2>6 DEF R
<1>3. PlannedInsertions(snapshot, edits) \in Seq(F)
  <2>1. Parents \in Seq(Path)
    BY PatchAssumption
  <2>2. parents \in Seq(Path)
    BY <2>1, PickElements
  <2>3. ASSUME NEW p \in Path PROVE InsertionOf(snapshot, p, Text(p)) \in F
    <3>1. \A i \in 1 .. Len(edits) : /\ edits[i].key \in Path \ {<<>>}
                                    /\ edits[i].pending \in Texts
      BY DEF Plannable
    <3>2. Text(p) \in Texts
      BY <3>1, InsertionTextIsText
    <3> QED BY <3>2, InsertionFits
  <2> HIDE DEF parents, F
  <2>4. /\ DOMAIN parents = 1 .. Len(parents) /\ Len(parents) \in Nat
        /\ \A j \in 1 .. Len(parents) : parents[j] \in Path
    BY <2>2, LenProperties, ElementOfSeq
  <2> DEFINE R(j) == InsertionOf(snapshot, parents[j], Text(parents[j]))
  <2>5. \A j \in 1 .. Len(parents) : R(j) \in F
    BY <2>3, <2>4
  <2>6. PlannedInsertions(snapshot, edits) = [j \in DOMAIN parents |-> R(j)]
    BY DEF PlannedInsertions, parents
  <2> HIDE DEF R
  <2>7. [j \in 1 .. Len(parents) |-> R(j)] \in Seq(F)
    BY <2>4, <2>5
  <2> QED BY <2>4, <2>6, <2>7
<1> HIDE DEF F
<1>4. PlannedEdits(snapshot, edits) \o PlannedInsertions(snapshot, edits) \in Seq(F)
  BY <1>2, <1>3, ConcatProperties
<1> QED BY <1>4 DEF F

\* Insertions at one offset that are put together stay where they are.
LEMMA CoalescedFits ==
  ASSUME NEW snapshot, NEW edits, NEW rs \in Seq(Fitting(snapshot, edits))
  PROVE  Coalesced(rs) \in Seq(Fitting(snapshot, edits))
<1> DEFINE F == Fitting(snapshot, edits)
           Same(i, j) == rs[i].begin = rs[i].end /\ rs[i].begin = rs[j].begin
                         /\ rs[i].end = rs[j].end
           texts == [j \in 1 .. Len(rs) |-> rs[j].text]
           all(i) == Joined(texts, {j \in DOMAIN rs : Same(i, j)})
           kept == {i \in DOMAIN rs : \A j \in 1 .. i - 1 : ~ Same(i, j)}
           R(i) == IF Same(i, i) THEN [rs[i] EXCEPT !.text = all(i)] ELSE rs[i]
<1>1. Coalesced(rs) = Pick([i \in DOMAIN rs |-> R(i)], kept)
  BY DEF Coalesced
<1>2. Len(rs) \in Nat /\ DOMAIN rs = 1 .. Len(rs) /\ \A i \in 1 .. Len(rs) : rs[i] \in F
  <2> HIDE DEF F
  <2> SUFFICES ASSUME rs \in Seq(F)
               PROVE  /\ Len(rs) \in Nat /\ DOMAIN rs = 1 .. Len(rs)
                      /\ \A i \in 1 .. Len(rs) : rs[i] \in F
    BY DEF F
  <2> QED OBVIOUS
<1>3. \A i \in 1 .. Len(rs) : all(i) \in Texts
  <2>1. \A j \in 1 .. Len(rs) : rs[j].text \in Texts
    BY <1>2 DEF Fitting
  <2>2. texts \in Seq(Texts)
    BY <1>2, <2>1
  <2> HIDE DEF texts
  <2> QED BY <2>2, JoinedIsText DEF Texts
<1> HIDE DEF all
<1>4. ASSUME NEW i \in 1 .. Len(rs) PROVE R(i) \in F
  <2>1. rs[i] \in F /\ all(i) \in Texts
    BY <1>2, <1>3
  <2>2. [rs[i] EXCEPT !.text = all(i)] \in F
    BY <2>1 DEF Fitting
  <2> HIDE DEF F
  <2> QED BY <2>1, <2>2
<1> HIDE DEF F, kept, R
<1>5. [i \in DOMAIN rs |-> R(i)] \in Seq(F)
  BY <1>2, <1>4
<1>6. Pick([i \in DOMAIN rs |-> R(i)], kept) \in Seq(F)
  BY <1>5, PickElements
<1> QED BY <1>1, <1>6 DEF F

\* Sorting keeps the replacements what they are.
LEMMA SortedFits ==
  ASSUME NEW F, NEW rs \in Seq(F), NEW sorted \in Sorted(rs)
  PROVE  sorted \in Seq(F)
<1>1. Len(rs) \in Nat /\ DOMAIN rs = 1 .. Len(rs) /\ \A i \in DOMAIN rs : rs[i] \in F
  OBVIOUS
<1>2. PICK p \in [DOMAIN rs -> DOMAIN rs] : sorted = [n \in DOMAIN rs |-> rs[p[n]]]
  BY DEF Sorted
<1>3. \A n \in 1 .. Len(rs) : rs[p[n]] \in F
  BY <1>1
<1> QED BY <1>1, <1>2, <1>3

-----------------------------------------------------------------------------
(* Splicing *)

\* h says where in whole the lexemes of doc at the indices O are: in their
\* order, and up to b where they were.
Embeds(h, doc, O, b, whole) ==
  /\ h \in [O -> 1 .. Len(whole)]
  /\ \A x \in O : whole[h[x]] = doc[x]
  /\ \A x, y \in O : x < y => h[x] < h[y]
  /\ \A x \in O : IF x <= b THEN h[x] = x ELSE h[x] > b
  /\ b <= Len(whole)

\* Three texts, one after the other: the first and the last are where they are.
Parts(s, S, A, B, C) ==
  /\ s \in Seq(S) /\ Len(s) = Len(A) + Len(B) + Len(C)
  /\ \A x \in 1 .. Len(A) : s[x] = A[x]
  /\ \A x \in 1 .. Len(C) : s[Len(A) + Len(B) + x] = C[x]

\* There are such parts when three texts are put together.
LEMMA ThreeParts ==
  ASSUME NEW S, NEW A \in Seq(S), NEW B \in Seq(S), NEW C \in Seq(S)
  PROVE  Parts(A \o B \o C, S, A, B, C)
<1> DEFINE D == A \o B
           s == D \o C
<1>1. D \in Seq(S) /\ Len(D) = Len(A) + Len(B)
      /\ \A x \in 1 .. Len(A) + Len(B) :
           D[x] = IF x <= Len(A) THEN A[x] ELSE B[x - Len(A)]
  BY ConcatProperties, Zenon
<1> HIDE DEF D
<1>2. s \in Seq(S) /\ Len(s) = Len(D) + Len(C)
      /\ \A x \in 1 .. Len(D) + Len(C) :
           s[x] = IF x <= Len(D) THEN D[x] ELSE C[x - Len(D)]
  <2>1. D \in Seq(S)
    BY <1>1
  <2> QED BY <2>1, ConcatProperties, Zenon
<1>3. Len(A) \in Nat /\ Len(B) \in Nat /\ Len(C) \in Nat
  OBVIOUS
<1> HIDE DEF s
<1>4. ASSUME NEW x \in 1 .. Len(A) PROVE s[x] = A[x]
  <2>1. /\ x \in 1 .. Len(A) + Len(B) /\ x <= Len(A)
        /\ x \in 1 .. Len(D) + Len(C) /\ x <= Len(D)
    BY <1>1, <1>3
  <2>2. s[x] = D[x] /\ D[x] = A[x]
    BY <1>1, <1>2, <2>1
  <2> QED BY <2>2
<1>5. ASSUME NEW x \in 1 .. Len(C) PROVE s[Len(A) + Len(B) + x] = C[x]
  <2> DEFINE y == Len(A) + Len(B) + x
  <2>1. y \in 1 .. Len(D) + Len(C) /\ ~ y <= Len(D) /\ y - Len(D) = x
    BY <1>1, <1>3
  <2> HIDE DEF y
  <2>2. s[y] = C[y - Len(D)]
    BY <1>2, <2>1
  <2> QED BY <2>1, <2>2 DEF y
<1>6. Parts(s, S, A, B, C)
  BY <1>1, <1>2, <1>4, <1>5 DEF Parts
<1> QED BY <1>6 DEF s, D

\* What comes of a text by a replacement: what is before and after its span.
LEMMA SplicedParts ==
  ASSUME NEW whole \in Texts, NEW r, r.text \in Texts,
         r.begin \in 0 .. Len(whole), r.end \in r.begin .. Len(whole)
  PROVE  LET s == Spliced(whole, r)
             t == Len(r.text)
         IN  /\ s \in Texts /\ t \in Nat /\ Len(whole) \in Nat
             /\ Len(s) = r.begin + t + (Len(whole) - r.end)
             /\ \A x \in 1 .. r.begin : s[x] = whole[x]
             /\ \A x \in r.end + 1 .. Len(whole) : s[r.begin + t + (x - r.end)] = whole[x]
<1> DEFINE S == [kind : Kinds, text : Path]
           n == Len(whole)
           A == SubSeq(whole, 1, r.begin)
           B == r.text
           C == SubSeq(whole, r.end + 1, n)
<1>1. whole \in Seq(S) /\ B \in Seq(S)
  BY DEF Texts
<1> HIDE DEF S
<1>2. /\ n \in Nat /\ r.begin \in 0 .. n /\ r.end \in r.begin .. n
      /\ \A x \in 1 .. n : whole[x] \in S
  BY <1>1
<1>3. /\ A \in Seq(S) /\ Len(A) = r.begin
      /\ \A x \in 1 .. r.begin : A[x] = whole[x]
  <2> DEFINE m == r.begin
  <2>1. m \in Int /\ 0 <= m /\ m <= n
    BY <1>2
  <2>2. \A x \in 1 .. m : whole[x] \in S
    BY <1>2, <2>1
  <2> HIDE DEF m, n
  <2>3. /\ SubSeq(whole, 1, m) \in Seq(S)
        /\ Len(SubSeq(whole, 1, m)) = IF 1 <= m THEN m - 1 + 1 ELSE 0
        /\ \A x \in 1 .. m - 1 + 1 : SubSeq(whole, 1, m)[x] = whole[1 + x - 1]
    BY <2>1, <2>2, SubSeqProperties
  <2> QED BY <2>1, <2>3 DEF m
<1>4. /\ C \in Seq(S) /\ Len(C) = n - r.end
      /\ \A x \in 1 .. n - r.end : C[x] = whole[r.end + x]
  <2> DEFINE m == r.end + 1
  <2>1. m \in Int /\ n \in Int /\ 1 <= m /\ m <= n + 1
    BY <1>2
  <2>2. \A x \in m .. n : whole[x] \in S
    BY <1>2, <2>1
  <2>3. m = r.end + 1 /\ r.end \in Int
    BY <1>2
  <2> HIDE DEF m, n
  <2>4. /\ SubSeq(whole, m, n) \in Seq(S)
        /\ Len(SubSeq(whole, m, n)) = IF m <= n THEN n - m + 1 ELSE 0
        /\ \A x \in 1 .. n - m + 1 : SubSeq(whole, m, n)[x] = whole[m + x - 1]
    BY <2>1, <2>2, SubSeqProperties
  <2>5. C = SubSeq(whole, m, n)
    BY DEF m
  <2>6. n - m + 1 = n - r.end /\ (~ m <= n => n - r.end = 0)
    BY <2>1, <2>3
  <2>7. \A x \in 1 .. n - r.end : m + x - 1 = r.end + x
    BY <2>1, <2>3
  <2> HIDE DEF C
  <2> QED BY <2>4, <2>5, <2>6, <2>7
<1>5. Spliced(whole, r) = A \o B \o C
  BY DEF Spliced, SubSpan
<1> HIDE DEF A, B, C
<1>6. Len(B) \in Nat
  BY <1>1
<1> DEFINE s == A \o B \o C
<1>7. /\ s \in Seq(S) /\ Len(s) = Len(A) + Len(B) + Len(C)
      /\ \A x \in 1 .. Len(A) : s[x] = A[x]
      /\ \A x \in 1 .. Len(C) : s[Len(A) + Len(B) + x] = C[x]
  <2>1. A \in Seq(S) /\ B \in Seq(S) /\ C \in Seq(S)
    BY <1>1, <1>3, <1>4
  <2>2. Parts(s, S, A, B, C)
    BY <2>1, ThreeParts
  <2> HIDE DEF s
  <2> QED BY <2>2 DEF Parts
<1>8. s = Spliced(whole, r) /\ s \in Texts
  BY <1>5, <1>7 DEF Texts, S
<1> HIDE DEF s
<1>9. \A x \in 1 .. r.begin : s[x] = whole[x]
  BY <1>3, <1>7
<1>10. ASSUME NEW x \in r.end + 1 .. n
       PROVE  s[r.begin + Len(B) + (x - r.end)] = whole[x]
  <2> DEFINE e == r.end
             y == x - e
  <2>1. y \in 1 .. n - e /\ e + y = x
    <3>1. e \in Nat /\ n \in Nat /\ x \in e + 1 .. n
      BY <1>2, <1>10
    <3> HIDE DEF e, n
    <3> QED BY <3>1
  <2> HIDE DEF y
  <2>2. y \in 1 .. Len(C)
    BY <1>4, <2>1
  <2>3. s[Len(A) + Len(B) + y] = C[y]
    BY <1>7, <2>2
  <2>4. C[y] = whole[r.end + y]
    BY <1>4, <2>1
  <2>5. s[r.begin + Len(B) + y] = whole[x]
    BY <1>3, <2>1, <2>3, <2>4
  <2> QED BY <2>5 DEF y
<1>11. Len(s) = r.begin + Len(B) + (n - r.end)
  BY <1>3, <1>4, <1>7
<1> QED BY <1>2, <1>6, <1>8, <1>9, <1>10, <1>11 DEF B

\* One more replacement, which ends before all that were made, keeps the rest.
LEMMA SpliceKeeps ==
  ASSUME NEW doc \in Texts, NEW whole \in Texts, NEW O \in SUBSET (1 .. Len(doc)),
         NEW b \in Nat, NEW h, Embeds(h, doc, O, b, whole),
         NEW r, r.text \in Texts, r.begin \in Nat, r.end \in Nat,
         r.begin <= r.end, r.end <= b, O \cap (r.begin + 1 .. r.end) = {}
  PROVE  /\ Spliced(whole, r) \in Texts
         /\ \E g : Embeds(g, doc, O, r.begin, Spliced(whole, r))
<1> DEFINE s == Spliced(whole, r)
           t == Len(r.text)
           n == Len(whole)
           g == [x \in O |-> IF x <= r.begin THEN x ELSE r.begin + t + (h[x] - r.end)]
<1>1. /\ h \in [O -> 1 .. n]
      /\ \A x \in O : whole[h[x]] = doc[x]
      /\ \A x, y \in O : x < y => h[x] < h[y]
      /\ \A x \in O : IF x <= b THEN h[x] = x ELSE h[x] > b
      /\ b <= n
  BY DEF Embeds
<1>2. n \in Nat /\ \A x \in O : x \in Nat /\ h[x] \in Nat /\ h[x] <= n /\ 1 <= x
  <2>1. Len(doc) \in Nat /\ n \in Nat
    BY DEF Texts
  <2> QED BY <1>1, <2>1
<1>3. /\ s \in Texts /\ t \in Nat
      /\ Len(s) = r.begin + t + (n - r.end)
      /\ \A x \in 1 .. r.begin : s[x] = whole[x]
      /\ \A x \in r.end + 1 .. n : s[r.begin + t + (x - r.end)] = whole[x]
  <2>1. r.begin \in 0 .. n /\ r.end \in r.begin .. n
    BY <1>1, <1>2
  <2> QED BY <2>1, SplicedParts
<1>4. \A x \in O : x <= r.begin => h[x] = x
  BY <1>1, <1>2
<1>5. \A x \in O : x > r.begin => h[x] > r.end
  <2> TAKE x \in O
  <2> SUFFICES ASSUME x > r.begin PROVE h[x] > r.end
    OBVIOUS
  <2>1. x > r.end
    BY <1>2
  <2> QED BY <1>1, <1>2, <2>1
<1> HIDE DEF s, t, n
<1>6. ASSUME NEW x \in O
      PROVE  /\ g[x] \in 1 .. Len(s) /\ s[g[x]] = doc[x]
             /\ IF x <= r.begin THEN g[x] = x ELSE g[x] > r.begin
  <2>1. CASE x <= r.begin
    <3>1. g[x] = x /\ x \in 1 .. r.begin /\ h[x] = x
      BY <1>2, <1>4, <2>1
    <3>2. x \in 1 .. Len(s)
      BY <1>1, <1>2, <1>3, <3>1
    <3> QED BY <1>1, <1>3, <2>1, <3>1, <3>2
  <2>2. CASE x > r.begin
    <3>1. g[x] = r.begin + t + (h[x] - r.end) /\ h[x] \in r.end + 1 .. n
      BY <1>2, <1>5, <2>2
    <3>2. s[g[x]] = doc[x]
      BY <1>1, <1>3, <3>1
    <3>3. g[x] \in 1 .. Len(s) /\ g[x] > r.begin
      <4> DEFINE c == h[x]
                 l == Len(s)
                 y == g[x]
                 b1 == r.begin
                 e1 == r.end
      <4>1. /\ y = b1 + t + (c - e1) /\ c \in e1 + 1 .. n /\ n \in Nat /\ e1 \in Nat
            /\ t \in Nat /\ l = b1 + t + (n - e1) /\ b1 \in Nat
        BY <1>2, <1>3, <3>1
      <4> HIDE DEF c, l, y, b1, e1
      <4>2. y \in 1 .. l /\ y > b1
        BY <4>1
      <4> QED BY <4>2 DEF l, y, b1
    <3> QED BY <1>2, <2>2, <3>2, <3>3
  <2> QED BY <1>2, <2>1, <2>2
<1>7. ASSUME NEW x \in O, NEW y \in O, x < y PROVE g[x] < g[y]
  <2>1. x \in Nat /\ y \in Nat /\ h[x] \in Nat /\ h[y] \in Nat /\ h[x] < h[y]
    BY <1>1, <1>2, <1>7
  <2>2. CASE y <= r.begin
    BY <1>7, <2>1, <2>2
  <2>3. CASE x <= r.begin /\ y > r.begin
    <3>1. g[x] = x
      BY <2>3
    <3>2. ~ y <= r.begin
      BY <2>1, <2>3
    <3>3. g[y] > r.begin
      BY <1>6, <3>2
    <3>4. g[y] \in Nat
      BY <1>3, <1>6
    <3> HIDE DEF g
    <3> QED BY <2>1, <2>3, <3>1, <3>3, <3>4
  <2>4. CASE x > r.begin
    <3>1. g[x] = r.begin + t + (h[x] - r.end) /\ g[y] = r.begin + t + (h[y] - r.end)
      BY <1>7, <2>1, <2>4
    <3> HIDE DEF g
    <3> QED BY <1>3, <2>1, <3>1
  <2> QED BY <2>1, <2>2, <2>3, <2>4
<1>8. r.begin <= Len(s)
  BY <1>1, <1>2, <1>3
<1>9. g \in [O -> 1 .. Len(s)]
  <2>1. \A x \in O : g[x] \in 1 .. Len(s)
    BY <1>6
  <2>2. g = [x \in O |-> g[x]]
    OBVIOUS
  <2> HIDE DEF g
  <2> QED BY <2>1, <2>2
<1> HIDE DEF g
<1>10. Embeds(g, doc, O, r.begin, s)
  BY <1>6, <1>7, <1>8, <1>9 DEF Embeds
<1> QED BY <1>3, <1>10 DEF s

\* A document as its replacements are spliced in, one after the other.
Splices(f, doc, rs) ==
  /\ f[0] = doc /\ f[Len(rs)] = Final(Spliced, doc, rs)
  /\ \A i \in 1 .. Len(rs) : f[i] = Spliced(f[i - 1], rs[i])

\* There is such a function for all documents and replacements.
LEMMA SplicedBySteps ==
  ASSUME NEW doc, NEW rs, Len(rs) \in Nat
  PROVE  \E f : Splices(f, doc, rs)
<1> DEFINE n == Len(rs)
           Goes(g, k) ==
             g = [i \in 0 .. k |-> IF i = 0 THEN doc ELSE Spliced(g[i - 1], rs[i])]
           T == {k \in 0 .. n : \E g : Goes(g, k)}
           f == CHOOSE g : Goes(g, n)
<1>1. 0 \in T
  <2>1. Goes([i \in 0 .. 0 |-> doc], 0)
    OBVIOUS
  <2> HIDE DEF Goes
  <2> QED BY <2>1
<1>2. ASSUME NEW k \in 0 .. n - 1, k \in T PROVE k + 1 \in T
  <2>1. PICK g : Goes(g, k)
    BY <1>2
  <2> DEFINE h == [i \in 0 .. k + 1 |-> IF i <= k THEN g[i] ELSE Spliced(g[k], rs[k + 1])]
  <2>2. DOMAIN g = 0 .. k /\ g[0] = doc
        /\ \A i \in 1 .. k : g[i] = Spliced(g[i - 1], rs[i])
    <3> DEFINE G(i) == IF i = 0 THEN doc ELSE Spliced(g[i - 1], rs[i])
    <3>1. g = [i \in 0 .. k |-> G(i)]
      BY <2>1
    <3>2. G(0) = doc /\ \A i \in 1 .. k : G(i) = Spliced(g[i - 1], rs[i])
      OBVIOUS
    <3>3. 0 \in 0 .. k /\ 1 .. k \subseteq 0 .. k
      OBVIOUS
    <3> HIDE DEF G
    <3> QED BY <3>1, <3>2, <3>3
  <2>3. ASSUME NEW i \in 0 .. k + 1
        PROVE  h[i] = IF i = 0 THEN doc ELSE Spliced(h[i - 1], rs[i])
    <3>1. CASE i = 0
      BY <2>2, <3>1
    <3>2. CASE i \in 1 .. k
      <4>1. i - 1 \in 0 .. k + 1 /\ i - 1 <= k /\ i <= k /\ i # 0
        BY <3>2
      <4> QED BY <2>2, <3>2, <4>1
    <3>3. CASE i = k + 1
      <4>1. i - 1 = k /\ i \in 0 .. k + 1 /\ ~ i <= k /\ k \in 0 .. k + 1 /\ i # 0
        BY <3>3
      <4> QED BY <3>3, <4>1
    <3> QED BY <3>1, <3>2, <3>3
  <2>4. h = [i \in 0 .. k + 1 |-> h[i]]
    OBVIOUS
  <2> HIDE DEF h
  <2>5. Goes(h, k + 1)
    BY <2>3, <2>4
  <2> QED BY <2>5
<1>3. \A k \in 0 .. n : k \in T
  <2> HIDE DEF T
  <2> QED BY <1>1, <1>2, NextByNext
<1>4. n \in T /\ n \in Nat
  <2> HIDE DEF T
  <2> QED BY <1>3
<1>5. Goes(f, n)
  <2>1. \E g : Goes(g, n)
    BY <1>4
  <2> HIDE DEF Goes
  <2> QED BY <2>1
<1>6. Final(Spliced, doc, rs) = f[n]
  BY DEF Final
<1> HIDE DEF f
<1>7. f[0] = doc /\ \A i \in 1 .. n : f[i] = Spliced(f[i - 1], rs[i])
  BY <1>4, <1>5
<1>8. Splices(f, doc, rs)
  BY <1>6, <1>7 DEF Splices
<1> QED BY <1>8

\* Replacements with spans in a document, each of which ends where the one
\* before it begins or earlier, leave the rest of it in its order.
Outside(doc, O) ==
  {r \in [begin : 0 .. Len(doc), end : 0 .. Len(doc), text : Texts] :
     r.begin <= r.end /\ O \cap (r.begin + 1 .. r.end) = {}}

\* Final keeps them: such replacements leave all that is outside their spans.
LEMMA FinalKeeps ==
  ASSUME NEW doc \in Texts, NEW O \in SUBSET (1 .. Len(doc)), NEW rs \in Seq(Outside(doc, O)),
         ~ Overlaps(rs)
  PROVE  /\ Final(Spliced, doc, rs) \in Texts
         /\ \E h, b : Embeds(h, doc, O, b, Final(Spliced, doc, rs))
<1> DEFINE n == Len(rs)
           At(k) == IF k = 0 THEN Len(doc) ELSE rs[k].begin
<1>1. n \in Nat /\ Len(doc) \in Nat /\ DOMAIN rs = 1 .. n
      /\ \A k \in 1 .. n : rs[k] \in Outside(doc, O)
  <2>1. Len(doc) \in Nat
    BY DEF Texts
  <2> DEFINE S == Outside(doc, O)
  <2>2. rs \in Seq(S)
    OBVIOUS
  <2> HIDE DEF S
  <2>3. Len(rs) \in Nat /\ DOMAIN rs = 1 .. Len(rs) /\ \A k \in 1 .. Len(rs) : rs[k] \in S
    BY <2>2
  <2> QED BY <2>1, <2>3 DEF S
<1>2. PICK f : Splices(f, doc, rs)
  BY <1>1, SplicedBySteps
<1> DEFINE T == {k \in 0 .. n : f[k] \in Texts /\ \E h : Embeds(h, doc, O, At(k), f[k])}
<1>3. 0 \in T
  <2> DEFINE h == [x \in O |-> x]
  <2>1. \A x \in O : h[x] = x /\ x \in Nat /\ x <= Len(doc) /\ x \in 1 .. Len(doc)
    BY <1>1
  <2>2. h \in [O -> 1 .. Len(doc)]
    OBVIOUS
  <2> HIDE DEF h
  <2>3. Embeds(h, doc, O, Len(doc), doc)
    BY <1>1, <2>1, <2>2 DEF Embeds
  <2>4. f[0] = doc /\ At(0) = Len(doc) /\ 0 \in 0 .. n
    BY <1>1, <1>2 DEF Splices
  <2> HIDE DEF At
  <2> QED BY <2>3, <2>4
<1>4. ASSUME NEW k \in 0 .. n - 1, k \in T PROVE k + 1 \in T
  <2> DEFINE r == rs[k + 1]
  <2>1. k + 1 \in 1 .. n /\ k + 1 \in 0 .. n /\ k + 1 # 0 /\ (k + 1) - 1 = k /\ k \in Nat
    BY <1>1
  <2>2. /\ r.begin \in 0 .. Len(doc) /\ r.end \in 0 .. Len(doc) /\ r.text \in Texts
        /\ r.begin <= r.end /\ O \cap (r.begin + 1 .. r.end) = {}
    BY <1>1, <2>1 DEF Outside
  <2>3. At(k) \in Nat /\ r.end <= At(k)
    <3>1. CASE k = 0
      BY <1>1, <2>2, <3>1
    <3>2. CASE k # 0
      <4>1. k \in 1 .. n /\ k + 1 \in DOMAIN rs \ {1} /\ At(k) = rs[k].begin
        BY <1>1, <2>1, <3>2
      <4>2. rs[k].begin \in 0 .. Len(doc)
        BY <1>1, <4>1 DEF Outside
      <4>3. ~ rs[k + 1].end > rs[(k + 1) - 1].begin
        BY <4>1 DEF Overlaps
      <4>4. ~ r.end > At(k)
        BY <2>1, <4>1, <4>3
      <4> QED BY <1>1, <2>2, <4>1, <4>2, <4>4
    <3> QED BY <3>1, <3>2
  <2>4. At(k + 1) = r.begin
    BY <2>1
  <2>5. f[k + 1] = Spliced(f[k], r)
    BY <1>2, <2>1 DEF Splices
  <2>6. f[k] \in Texts /\ \E h : Embeds(h, doc, O, At(k), f[k])
    BY <1>4
  <2> HIDE DEF At, r
  <2>7. PICK h : Embeds(h, doc, O, At(k), f[k])
    BY <2>6
  <2>8. r.begin \in Nat /\ r.end \in Nat
    BY <1>1, <2>2
  <2>9. /\ Spliced(f[k], r) \in Texts
        /\ \E g : Embeds(g, doc, O, r.begin, Spliced(f[k], r))
    BY <2>2, <2>3, <2>6, <2>7, <2>8, SpliceKeeps
  <2> QED BY <2>1, <2>4, <2>5, <2>9
<1>5. \A k \in 0 .. n : k \in T
  <2> HIDE DEF T
  <2> QED BY <1>1, <1>3, <1>4, NextByNext
<1>6. n \in T
  <2> HIDE DEF T
  <2> QED BY <1>1, <1>5
<1>7. f[n] = Final(Spliced, doc, rs)
  BY <1>2 DEF Splices
<1> HIDE DEF At
<1> QED BY <1>6, <1>7

-----------------------------------------------------------------------------
(* Found *)

\* What is found in the first lexemes, one more at a time.
Matches(m, part, whole) ==
  /\ m \in [0 .. Len(whole) -> 0 .. Len(part)]
  /\ m[0] = 0 /\ m[Len(whole)] = Found(part, whole)
  /\ \A j \in 1 .. Len(whole) :
       m[j] = IF m[j - 1] < Len(part) /\ part[m[j - 1] + 1] = whole[j]
              THEN m[j - 1] + 1 ELSE m[j - 1]

\* There is such a function for all parts and wholes.
LEMMA MatchesBySteps ==
  ASSUME NEW part, NEW whole, Len(part) \in Nat, Len(whole) \in Nat
  PROVE  \E m : Matches(m, part, whole)
<1> DEFINE n == Len(whole)
           S == 0 .. Len(part)
           Match(k, t) == IF k < Len(part) /\ part[k + 1] = t THEN k + 1 ELSE k
           step == [p \in S \X (1 .. n) |-> Match(p[1], whole[p[2]])]
           Is(f) == f = [i \in 0 .. n |-> IF i = 0 THEN 0 ELSE Match(f[i - 1], whole[i])]
           f == CHOOSE f : Is(f)
<1>1. \A k \in S : \A t : Match(k, t) \in S
  OBVIOUS
<1>2. Found(part, whole) = f[n]
  BY DEF Found, Final
<1> HIDE DEF Match
<1>3. step \in [S \X (1 .. n) -> S] /\ 0 \in S
  BY <1>1
<1>4. \A k \in S, i \in 1 .. n : step[<<k, i>>] = Match(k, whole[i])
  OBVIOUS
<1>5. n \in Nat
  OBVIOUS
<1> HIDE DEF n, step, S
<1>6. PICK g : Runs(g, n, S, 0, step)
  BY <1>3, <1>5, BySteps
<1>7. Is(g)
  <2>1. \A i \in 1 .. n : g[i - 1] \in S /\ i # 0
    BY <1>5, <1>6 DEF Runs
  <2>2. \A i \in 1 .. n : g[i] = Match(g[i - 1], whole[i])
    BY <1>4, <1>6, <2>1 DEF Runs
  <2>3. \A i \in 0 .. n : g[i] = IF i = 0 THEN 0 ELSE Match(g[i - 1], whole[i])
    BY <1>5, <1>6, <2>2 DEF Runs
  <2>4. g = [i \in 0 .. n |-> g[i]]
    BY <1>6 DEF Runs
  <2> QED BY <2>3, <2>4
<1>8. Is(f)
  BY <1>7
<1> HIDE DEF f
<1>9. f[0] = 0 /\ \A i \in 1 .. n : f[i] = Match(f[i - 1], whole[i])
  BY <1>5, <1>8
<1>10. f \in [0 .. n -> S]
  <2>1. f[0] \in S /\ \A i \in 1 .. n : f[i - 1] \in S => f[i] \in S
    BY <1>1, <1>3, <1>9
  <2>2. \A i \in 0 .. n : f[i] \in S
    BY <1>5, <2>1, StaysIn
  <2> QED BY <1>8, <2>2
<1>11. Matches(f, part, whole)
  BY <1>2, <1>9, <1>10 DEF n, Match, Matches, S
<1> QED BY <1>11

\* What grows by steps has grown between any two.
LEMMA Grows ==
  ASSUME NEW n \in Nat, NEW m, \A j \in 0 .. n : m[j] \in Nat,
         \A j \in 1 .. n : m[j - 1] <= m[j]
  PROVE  \A j \in 0 .. n : \A i \in 0 .. j : m[i] <= m[j]
<1> DEFINE T == {j \in 0 .. n : \A i \in 0 .. j : m[i] <= m[j]}
<1>1. 0 \in T
  OBVIOUS
<1>2. ASSUME NEW j \in 0 .. n - 1, j \in T PROVE j + 1 \in T
  <2>1. j + 1 \in 1 .. n /\ j + 1 \in 0 .. n /\ (j + 1) - 1 = j /\ j \in 0 .. n
    OBVIOUS
  <2>2. m[j] <= m[j + 1] /\ m[j] \in Nat /\ m[j + 1] \in Nat
    BY <2>1
  <2>3. ASSUME NEW i \in 0 .. j + 1 PROVE m[i] <= m[j + 1]
    <3>1. CASE i = j + 1
      BY <2>2, <3>1
    <3>2. CASE i \in 0 .. j
      <4>1. m[i] <= m[j] /\ m[i] \in Nat
        BY <1>2, <3>2
      <4> QED BY <2>2, <4>1
    <3> QED BY <3>1, <3>2
  <2> QED BY <2>1, <2>3
<1>3. \A j \in 0 .. n : j \in T
  <2> HIDE DEF T
  <2> QED BY <1>1, <1>2, NextByNext
<1> QED BY <1>3

\* What is picked from the first elements begins what is picked.
LEMMA PickedSoFar ==
  ASSUME NEW T, NEW seq \in Seq(T), NEW I, NEW P, Picks(P, T, seq, I)
  PROVE  \A i \in 0 .. Len(seq) :
           /\ Len(P[i]) \in Nat /\ Len(P[i]) <= Len(Pick(seq, I))
           /\ \A j \in 1 .. Len(P[i]) : Pick(seq, I)[j] = P[i][j]
<1> DEFINE n == Len(seq)
           Begins(k, i) == Len(P[k]) <= Len(P[i]) /\ \A j \in 1 .. Len(P[k]) : P[i][j] = P[k][j]
           U == {i \in 0 .. n : \A k \in 0 .. i : Begins(k, i)}
<1>1. /\ n \in Nat /\ P[n] = Pick(seq, I)
      /\ \A i \in 0 .. n : P[i] \in Seq(T)
      /\ \A i \in 1 .. n : /\ seq[i] \in T
                            /\ P[i] = IF i \in I THEN Append(P[i - 1], seq[i]) ELSE P[i - 1]
  <2>1. n \in Nat /\ \A i \in 1 .. n : seq[i] \in T
    OBVIOUS
  <2>2. P \in [0 .. n -> Seq(T)] /\ P[n] = Pick(seq, I)
    BY DEF Picks
  <2>3. \A i \in 1 .. n : P[i] = IF i \in I THEN Append(P[i - 1], seq[i]) ELSE P[i - 1]
    BY DEF Picks
  <2> QED BY <2>1, <2>2, <2>3
<1>2. \A i \in 0 .. n : Len(P[i]) \in Nat
  BY <1>1
<1>3. 0 \in U
  BY <1>1, <1>2
<1>4. ASSUME NEW i \in 0 .. n - 1, i \in U PROVE i + 1 \in U
  <2>1. i + 1 \in 1 .. n /\ i + 1 \in 0 .. n /\ (i + 1) - 1 = i /\ i \in 0 .. n
    BY <1>1
  <2>2. Begins(i, i + 1)
    <3> DEFINE p == P[i]
               c == seq[i + 1]
    <3>1. p \in Seq(T) /\ c \in T /\ (P[i + 1] = Append(p, c) \/ P[i + 1] = p)
      BY <1>1, <2>1
    <3>2. Len(Append(p, c)) = Len(p) + 1 /\ Len(p) \in Nat
          /\ \A j \in 1 .. Len(p) : Append(p, c)[j] = p[j]
      <4> HIDE DEF p, c
      <4> QED BY <3>1
    <3> DEFINE q == P[i + 1]
    <3> HIDE DEF p, c, q
    <3>3. Len(p) <= Len(q) /\ \A j \in 1 .. Len(p) : q[j] = p[j]
      BY <3>1, <3>2 DEF q
    <3> QED BY <3>3 DEF p, q
  <2>3. ASSUME NEW k \in 0 .. i + 1 PROVE Begins(k, i + 1)
    <3>1. CASE k = i + 1
      BY <1>2, <2>1, <3>1
    <3>2. CASE k \in 0 .. i
      <4>1. Begins(k, i)
        BY <1>4, <3>2
      <4>2. Len(P[k]) \in Nat /\ Len(P[i]) \in Nat /\ Len(P[i + 1]) \in Nat
        BY <1>2, <2>1, <3>2
      <4>3. \A j \in 1 .. Len(P[k]) : j \in 1 .. Len(P[i])
        BY <4>1, <4>2
      <4> QED BY <2>2, <4>1, <4>2, <4>3
    <3> QED BY <3>1, <3>2
  <2> HIDE DEF Begins
  <2> QED BY <2>1, <2>3
<1>5. \A i \in 0 .. n : i \in U
  <2> HIDE DEF U
  <2> QED BY <1>1, <1>3, <1>4, NextByNext
<1>6. \A k \in 0 .. n : Begins(k, n)
  <2> HIDE DEF Begins
  <2>1. n \in 0 .. n
    BY <1>1
  <2> QED BY <1>5, <2>1
<1> QED BY <1>1, <1>2, <1>6

\* All that is picked is found where it is, in its order.
LEMMA FoundAll ==
  ASSUME NEW doc \in Texts, NEW whole \in Texts, NEW O \in SUBSET (1 .. Len(doc)),
         NEW h, NEW b, Embeds(h, doc, O, b, whole)
  PROVE  Found(Pick(doc, O), whole) = Len(Pick(doc, O))
<1> DEFINE S == [kind : Kinds, text : Path]
           part == Pick(doc, O)
           n == Len(doc)
           l == Len(whole)
<1>1. doc \in Seq(S) /\ whole \in Seq(S)
  BY DEF Texts
<1> HIDE DEF S
<1>2. part \in Seq(S)
  BY <1>1, PickElements
<1>3. n \in Nat /\ l \in Nat /\ Len(part) \in Nat
  BY <1>1, <1>2
<1>4. PICK P : Picks(P, S, doc, O)
  BY <1>1, PickBySteps
<1>5. PICK m : Matches(m, part, whole)
  BY <1>3, MatchesBySteps
<1> DEFINE L(i) == Len(P[i])
<1>6. /\ \A i \in 0 .. n : L(i) \in Nat /\ L(i) <= Len(part)
      /\ L(0) = 0 /\ L(n) = Len(part)
  BY <1>1, <1>4, PickedSoFar DEF Picks
<1>7. ASSUME NEW i \in 1 .. n
      PROVE  IF i \in O THEN L(i) = L(i - 1) + 1 /\ part[L(i)] = doc[i]
             ELSE L(i) = L(i - 1)
  <2>1. P[i] = IF i \in O THEN Append(P[i - 1], doc[i]) ELSE P[i - 1]
    BY <1>4 DEF Picks
  <2>2. CASE i \notin O
    BY <2>1, <2>2
  <2>3. CASE i \in O
    <3> DEFINE p == P[i - 1]
               c == doc[i]
    <3>1. p \in Seq(S) /\ c \in S
      <4>1. i - 1 \in 0 .. n
        BY <1>3
      <4>2. P \in [0 .. n -> Seq(S)]
        BY <1>4 DEF Picks
      <4>3. doc[i] \in S
        BY <1>1
      <4> QED BY <4>1, <4>2, <4>3
    <3>2. P[i] = Append(p, c)
      BY <2>1, <2>3
    <3>3. Len(Append(p, c)) = Len(p) + 1 /\ Append(p, c)[Len(p) + 1] = c /\ Len(p) \in Nat
      <4> HIDE DEF p, c
      <4> QED BY <3>1
    <3>4. L(i) = L(i - 1) + 1 /\ P[i][L(i)] = doc[i] /\ L(i - 1) \in Nat
      BY <3>2, <3>3
    <3>5. part[L(i)] = P[i][L(i)]
      <4>1. i \in 0 .. n /\ L(i) \in 1 .. L(i)
        BY <1>3, <3>4
      <4> QED BY <1>1, <1>4, <4>1, PickedSoFar
    <3> QED BY <2>3, <3>4, <3>5
  <2> QED BY <2>2, <2>3
<1> HIDE DEF L
<1>8. /\ \A j \in 0 .. l : m[j] \in 0 .. Len(part)
      /\ m[l] = Found(part, whole)
      /\ \A j \in 1 .. l :
           m[j] = IF m[j - 1] < Len(part) /\ part[m[j - 1] + 1] = whole[j]
                  THEN m[j - 1] + 1 ELSE m[j - 1]
  BY <1>5 DEF Matches
<1>9. /\ \A x \in O : h[x] \in 1 .. l /\ whole[h[x]] = doc[x]
      /\ \A x, y \in O : x < y => h[x] < h[y]
  BY DEF Embeds
<1> HIDE DEF part, n, l
<1>10. \A j \in 0 .. l : \A i \in 0 .. j : m[i] <= m[j]
  <2>1. \A j \in 0 .. l : m[j] \in Nat
    BY <1>3, <1>8
  <2>2. \A j \in 1 .. l : m[j - 1] <= m[j]
    <3> TAKE j \in 1 .. l
    <3>1. j - 1 \in 0 .. l
      BY <1>3
    <3>2. m[j - 1] \in Nat
      BY <2>1, <3>1
    <3> QED BY <1>8, <3>2
  <2> QED BY <1>3, <2>1, <2>2, Grows
<1> DEFINE After(i, j) == \A x \in O : x <= i => h[x] <= j
           T == {i \in 0 .. n : \A j \in 0 .. l : After(i, j) => L(i) <= m[j]}
<1>11. 0 \in T
  BY <1>3, <1>6, <1>8
<1>12. ASSUME NEW i \in 0 .. n - 1, i \in T PROVE i + 1 \in T
  <2>1. i + 1 \in 1 .. n /\ i + 1 \in 0 .. n /\ (i + 1) - 1 = i /\ i \in 0 .. n
    BY <1>3
  <2>2. ASSUME NEW j \in 0 .. l, After(i + 1, j) PROVE L(i + 1) <= m[j]
    <3>0. \A x \in O : x \in Nat
      BY <1>3 DEF n
    <3>1. CASE i + 1 \notin O
      <4>1. After(i, j)
        <5>1. \A x \in O : x <= i => x <= i + 1
          BY <2>1, <3>0
        <5> QED BY <2>2, <5>1
      <4>2. L(i) <= m[j]
        BY <1>12, <4>1
      <4> QED BY <1>7, <2>1, <3>1, <4>2
    <3>2. CASE i + 1 \in O
      <4> DEFINE c == h[i + 1]
      <4>1. c \in 1 .. l /\ c <= j /\ whole[c] = doc[i + 1]
        BY <1>9, <2>2, <3>2
      <4>2. c - 1 \in 0 .. l /\ c \in 0 .. j /\ c - 1 \in 0 .. j
        BY <1>3, <4>1
      <4>3. After(i, c - 1)
        <5> SUFFICES ASSUME NEW x \in O, x <= i PROVE h[x] <= c - 1
          OBVIOUS
        <5>1. x < i + 1
          BY <2>1, <3>0
        <5>2. h[x] < c
          BY <1>9, <3>2, <5>1
        <5>3. h[x] \in 1 .. l
          BY <1>9
        <5> HIDE DEF c
        <5> QED BY <1>3, <4>1, <5>2, <5>3
      <4> HIDE DEF c, After
      <4>4. L(i) <= m[c - 1]
        BY <1>12, <4>2, <4>3
      <4>5. L(i + 1) = L(i) + 1 /\ part[L(i + 1)] = whole[c]
        BY <1>7, <2>1, <3>2, <4>1
      <4>6. m[c - 1] <= m[j] /\ m[c] <= m[j]
        BY <1>10, <4>2
      <4> DEFINE a == L(i)
                 q == m[c - 1]
      <4>7. a \in Nat /\ a + 1 <= Len(part) /\ q \in Nat /\ m[c] \in Nat /\ m[j] \in Nat
        <5>1. L(i) \in Nat /\ L(i + 1) <= Len(part)
          BY <1>6, <2>1
        <5>2. m[c - 1] \in Nat /\ m[c] \in Nat /\ m[j] \in Nat
          <6>1. c \in 0 .. l
            BY <1>3, <4>1
          <6> QED BY <1>3, <1>8, <4>2, <6>1
        <5> QED BY <4>5, <5>1, <5>2
      <4>8. CASE a = q
        <5>1. q < Len(part) /\ part[q + 1] = whole[c]
          <6>1. part[a + 1] = whole[c]
            BY <4>5
          <6>2. a < Len(part)
            BY <1>3, <4>7
          <6> QED BY <4>8, <6>1, <6>2
        <5>2. m[c] = a + 1
          BY <1>8, <4>1, <4>8, <5>1
        <5> QED BY <4>5, <4>6, <5>2
      <4>9. CASE a # q
        <5> HIDE DEF a, q
        <5>1. a <= q /\ q <= m[j] /\ L(i + 1) = a + 1
          BY <4>4, <4>5, <4>6 DEF a, q
        <5>2. a + 1 <= m[j]
          BY <4>7, <4>9, <5>1
        <5> QED BY <5>1, <5>2
      <4> QED BY <4>8, <4>9
    <3> QED BY <3>1, <3>2
  <2> HIDE DEF After
  <2> QED BY <2>1, <2>2
<1>13. \A i \in 0 .. n : i \in T
  <2> HIDE DEF T
  <2> QED BY <1>3, <1>11, <1>12, NextByNext
<1>14. n \in T /\ l \in 0 .. l /\ After(n, l)
  <2>1. n \in T
    <3> HIDE DEF T
    <3> QED BY <1>3, <1>13
  <2>2. After(n, l)
    BY <1>3, <1>9
  <2> QED BY <1>3, <2>1, <2>2
<1>15. L(n) <= m[l] /\ m[l] \in 0 .. Len(part)
  <2> HIDE DEF After
  <2> QED BY <1>8, <1>14
<1> QED BY <1>3, <1>6, <1>8, <1>15 DEF part

-----------------------------------------------------------------------------
(* patchDocument *)

\* A batch is a sequence of edits that set keys to texts, or reset them.
IsBatch(edits) ==
  /\ Len(edits) \in Nat /\ DOMAIN edits = 1 .. Len(edits)
  /\ edits \in Seq(Range(edits))
  /\ \A i \in DOMAIN edits : edits[i].key \in Path /\ edits[i].pending \in Texts

\* What parseDocument gives is a snapshot of the document, which fits the bound.
LEMMA ParsedIsRead ==
  ASSUME NEW doc, NEW s \in ParseDocument(doc)
  PROVE  s.doc = doc /\ IsRead(s) /\ Len(s.doc) <= MaxTokens
  BY DEF ParseDocument, IsRead

\* The lexemes that no edit is about are in the candidate.
Keeps(snapshot, edits, c) ==
  LET rest == Pick(snapshot.doc, DOMAIN snapshot.doc \ Edited(snapshot, edits))
  IN  c.doc \in Texts /\ Found(rest, c.doc) = Len(rest)

\* A candidate is a snapshot, of what comes of the document by its replacements
\* in an order in which no two overlap, and has what the batch asks for.
LEMMA CandidatesAreRead ==
  ASSUME NEW doc, NEW edits, NEW planned, NEW c \in Candidates(doc, edits, planned)
  PROVE  /\ IsRead(c)
         /\ \A i \in DOMAIN edits : Value(c, edits[i].key) = edits[i].pending
         /\ \E sorted \in Sorted(Coalesced(planned)) :
              ~ Overlaps(sorted) /\ c.doc = Final(Spliced, doc, sorted)
<1>1. PICK sorted \in Sorted(Coalesced(planned)) :
        ~ Overlaps(sorted) /\ c \in ParseDocument(Final(Spliced, doc, sorted))
  BY DEF Candidates
<1>2. \A i \in DOMAIN edits : Value(c, edits[i].key) = edits[i].pending
  BY DEF Candidates
<1>3. IsRead(c) /\ c.doc = Final(Spliced, doc, sorted)
  BY <1>1, ParsedIsRead
<1> QED BY <1>1, <1>2, <1>3

\* Spans, coalescing, sorting and splicing keep what no edit is about.
LEMMA CandidatesKeep ==
  ASSUME NEW snapshot, snapshot.doc \in Texts, IsRead(snapshot),
         NEW edits, IsBatch(edits), Plannable(snapshot, edits),
         NEW c \in Candidates(snapshot.doc, edits,
                 PlannedEdits(snapshot, edits) \o PlannedInsertions(snapshot, edits))
  PROVE  Keeps(snapshot, edits, c)
<1> DEFINE doc == snapshot.doc
           planned == PlannedEdits(snapshot, edits) \o PlannedInsertions(snapshot, edits)
           F == Fitting(snapshot, edits)
           O == DOMAIN doc \ Edited(snapshot, edits)
<1>1. PICK sorted \in Sorted(Coalesced(planned)) :
        ~ Overlaps(sorted) /\ c.doc = Final(Spliced, doc, sorted)
  BY CandidatesAreRead
<1>2. planned \in Seq(F)
  BY PlanFits DEF IsBatch
<1> HIDE DEF planned
<1>3. Coalesced(planned) \in Seq(F)
  BY <1>2, CoalescedFits
<1>4. sorted \in Seq(F)
  <2> HIDE DEF F
  <2> QED BY <1>1, <1>3, SortedFits
<1>5. O \in SUBSET (1 .. Len(doc)) /\ DOMAIN doc = 1 .. Len(doc)
  BY DEF Texts
<1>6. F \subseteq Outside(doc, O)
  <2> SUFFICES ASSUME NEW r \in F PROVE r \in Outside(doc, O)
    OBVIOUS
  <2> QED BY DEF Fitting, Outside
<1> HIDE DEF F, O
<1>7. sorted \in Seq(Outside(doc, O))
  <2> DEFINE G == Outside(doc, O)
  <2>1. F \subseteq G
    BY <1>6
  <2> HIDE DEF G
  <2>2. sorted \in Seq(G)
    BY <1>4, <2>1
  <2> QED BY <2>2 DEF G
<1> HIDE DEF doc
<1>8. doc \in Texts
  BY DEF doc
<1>9. /\ Final(Spliced, doc, sorted) \in Texts
      /\ \E h, b : Embeds(h, doc, O, b, Final(Spliced, doc, sorted))
  BY <1>1, <1>5, <1>7, <1>8, FinalKeeps
<1>10. c.doc \in Texts /\ \E h, b : Embeds(h, doc, O, b, c.doc)
  BY <1>1, <1>9
<1>11. PICK h, b : Embeds(h, doc, O, b, c.doc)
  BY <1>10
<1>12. Found(Pick(doc, O), c.doc) = Len(Pick(doc, O))
  BY <1>5, <1>8, <1>10, <1>11, FoundAll
<1> QED BY <1>10, <1>12 DEF Keeps, doc, O

\* The returns of patchDocument.
LEMMA Returns ==
  ASSUME NEW snapshot, NEW edits
  PROVE  LET r == PatchDocument(snapshot, edits) IN
         /\ r.status \in {"Success", "Conflict", "Invalid", "UnsupportedPatch"}
         /\ \A c \in r.snapshot :
              /\ IsRead(c) /\ Accepts(c)
              /\ c \in Candidates(snapshot.doc, edits,
                         PlannedEdits(snapshot, edits) \o PlannedInsertions(snapshot, edits))
              /\ \A i \in DOMAIN edits :
                   /\ ~ Conflicts(snapshot, edits[i])
                   /\ Value(c, edits[i].key) = edits[i].pending
         /\ r.snapshot # {} \/ r.status = "Conflict" => Plannable(snapshot, edits)
         /\ r.status = "Conflict" => \E i \in DOMAIN edits : Conflicts(snapshot, edits[i])
  BY CandidatesAreRead DEF PatchDocument, Refused

-----------------------------------------------------------------------------
(* The invariant *)

\* Documents are sequences of lexemes, and a result is that of the batch, which
\* is one or two edits.
PatchInv ==
  /\ IsRead(current) /\ current.doc \in Texts
  /\ \A s \in result.snapshot : IsRead(s) /\ Keeps(current, batch, s)
  /\ Len(batch) \in 0 .. 2 /\ IsBatch(batch)
  /\ \A i \in DOMAIN batch : batch[i].key \in Paths
  /\ result = Idle \/ result = PatchDocument(current, batch)

\* No edits at all are a batch.
LEMMA NoBatch == Len(<<>>) = 0 /\ IsBatch(<<>>)
  BY DEF IsBatch, Range

\* A client begins with a document it has read.
LEMMA InitPatch == Init => PatchInv
<1> SUFFICES ASSUME Init PROVE PatchInv
  OBVIOUS
<1>1. PICK doc \in Initial : current \in ParseDocument(doc)
  BY DEF Init
<1>2. IsRead(current) /\ current.doc \in Texts
  BY <1>1, ParsedIsRead, PatchAssumption
<1>3. result = Idle /\ result.snapshot = {} /\ batch = <<>>
  BY DEF Init, Idle, Refused
<1>4. DOMAIN batch = {}
  BY <1>3
<1> QED BY <1>2, <1>3, <1>4, NoBatch DEF PatchInv

\* A client asks for one or two edits of keys that are requested.
LEMMA BatchesAreSmall ==
  ASSUME NEW edits \in Batches
  PROVE  /\ Len(edits) \in 0 .. 2 /\ IsBatch(edits)
         /\ \A i \in DOMAIN edits : edits[i].key \in Paths
<1> DEFINE asked == {Edit(r[1], Value(current, r[1]), r[2]) : r \in Requests}
                      \cup {Edit(r[1], <<Atom("outdated")>>, r[2]) : r \in Requests}
<1>1. \A e \in asked : e.key \in Paths /\ e.key \in Path /\ e.pending \in Texts
  BY PatchAssumption DEF Edit, Paths
<1>2. \/ \E e \in asked : edits = <<e>>
      \/ \E e, f \in asked : edits = <<e, f>>
  BY DEF Batches
<1> HIDE DEF asked
<1>3. ASSUME NEW e \in asked, edits = <<e>>
      PROVE  /\ Len(edits) \in 0 .. 2 /\ IsBatch(edits)
             /\ \A i \in DOMAIN edits : edits[i].key \in Paths
  <2>1. Len(edits) = 1 /\ DOMAIN edits = 1 .. 1 /\ \A i \in 1 .. 1 : edits[i] = e
    BY <1>3
  <2>2. e \in Range(edits)
    BY <2>1 DEF Range
  <2>3. edits \in Seq(Range(edits))
    BY <1>3, <2>2, OneElement
  <2> QED BY <1>1, <2>1, <2>3 DEF IsBatch
<1>4. ASSUME NEW e \in asked, NEW f \in asked, edits = <<e, f>>
      PROVE  /\ Len(edits) \in 0 .. 2 /\ IsBatch(edits)
             /\ \A i \in DOMAIN edits : edits[i].key \in Paths
  <2>1. Len(edits) = 2 /\ DOMAIN edits = 1 .. 2 /\ \A i \in 1 .. 2 : edits[i] \in {e, f}
    BY <1>4
  <2>2. edits \in Seq({e, f}) /\ edits[1] = e /\ edits[2] = f
    BY <1>4
  <2>3. {e, f} \subseteq Range(edits)
    BY <2>1, <2>2 DEF Range
  <2> DEFINE T == Range(edits)
  <2>4. edits \in Seq(T)
    <3>1. {e, f} \subseteq T
      BY <2>3
    <3> HIDE DEF T
    <3> QED BY <2>2, <3>1
  <2> QED BY <1>1, <2>1, <2>4 DEF IsBatch
<1> QED BY <1>2, <1>3, <1>4

\* Patching, saving and discarding keep the invariant.
LEMMA StepPatch == PatchInv /\ [Next]_vars => PatchInv'
<1> SUFFICES ASSUME PatchInv, [Next]_vars PROVE PatchInv'
  OBVIOUS
<1>1. CASE Patch
  <2>1. PICK edits \in Batches : batch' = edits /\ result' = PatchDocument(current, edits)
    BY <1>1 DEF Patch
  <2>2. current' = current
    BY <1>1 DEF Patch
  <2>3. /\ Len(edits) \in 0 .. 2 /\ IsBatch(edits)
        /\ \A i \in DOMAIN edits : edits[i].key \in Paths
    BY BatchesAreSmall
  <2>4. ASSUME NEW s \in result'.snapshot PROVE IsRead(s) /\ Keeps(current, edits, s)
    <3>1. /\ IsRead(s) /\ Plannable(current, edits)
          /\ s \in Candidates(current.doc, edits,
                     PlannedEdits(current, edits) \o PlannedInsertions(current, edits))
      BY <2>1, Returns
    <3>2. IsRead(current) /\ current.doc \in Texts
      BY DEF PatchInv
    <3> QED BY <2>3, <3>1, <3>2, CandidatesKeep
  <2>5. /\ IsRead(current') /\ current'.doc \in Texts
        /\ result' = Idle \/ result' = PatchDocument(current', batch')
    BY <2>1, <2>2 DEF PatchInv
  <2>6. \A s \in result'.snapshot : IsRead(s) /\ Keeps(current', batch', s)
    BY <2>1, <2>2, <2>4
  <2>7. /\ Len(batch') \in 0 .. 2 /\ IsBatch(batch')
        /\ \A i \in DOMAIN batch' : batch'[i].key \in Paths
    BY <2>1, <2>3
  <2> QED BY <2>5, <2>6, <2>7 DEF PatchInv
<1>2. CASE Save \/ Discard
  <2>1. batch' = <<>> /\ result' = Idle /\ current' \in {current} \cup result.snapshot
    BY <1>2 DEF Save, Discard
  <2>2. Idle.snapshot = {}
    BY DEF Idle, Refused
  <2>3. IsRead(current') /\ current'.doc \in Texts
    BY <2>1 DEF PatchInv, Keeps
  <2>4. DOMAIN batch' = {} /\ result'.snapshot = {}
    BY <2>1, <2>2
  <2> QED BY <2>1, <2>3, <2>4, NoBatch DEF PatchInv
<1>3. CASE UNCHANGED vars
  BY <1>3 DEF vars, PatchInv
<1> QED BY <1>1, <1>2, <1>3 DEF Next

-----------------------------------------------------------------------------
(* The merge *)

\* The keys of a batch without repetitions, as DocumentMerge has them.
LEMMA BatchAsMerge ==
  ASSUME PatchInv, Plannable(current, batch)
  PROVE  /\ \A i \in DOMAIN batch : /\ batch[i].key \in Keys
                                   /\ EditOf(batch[i].key) = batch[i]
         /\ \A k \in Keys : /\ k \in Paths
                           /\ \E i \in DOMAIN batch : k = batch[i].key /\ EditOf(k) = batch[i]
<1>1. \A i \in DOMAIN batch : EditOf(batch[i].key) = batch[i]
  <2> SUFFICES ASSUME NEW i \in DOMAIN batch PROVE EditOf(batch[i].key) = batch[i]
    OBVIOUS
  <2>1. batch[i] \in Range(batch)
    BY DEF Range
  <2>2. \A e \in Range(batch) : e.key = batch[i].key => e = batch[i]
    BY DEF Range, Plannable
  <2> QED BY <2>1, <2>2 DEF EditOf
<1> QED BY <1>1 DEF Keys, PatchInv

\* The conflicts and the merge of DocumentMerge, by the edits of the batch.
LEMMA MergeOfBatch ==
  ASSUME PatchInv, Plannable(current, batch)
  PROVE  /\ (\E i \in DOMAIN batch : Conflicts(current, batch[i]))
              <=> M!Conflicts(Overrides(current), AsMerge) # {}
         /\ \A i \in DOMAIN batch :
              M!Merge(Overrides(current), AsMerge)[batch[i].key] = batch[i].pending
<1>1. M!ValuesOf(Overrides(current)) = Overrides(current)
  <2>1. Overrides(current) \in [Paths -> Held]
    BY DEF Overrides, Held
  <2> QED BY <2>1 DEF M!ValuesOf
<1>2. \A k \in Keys : Overrides(current)[k] = Value(current, k)
  BY BatchAsMerge DEF Overrides
<1>3. /\ DOMAIN AsMerge = Keys
      /\ \A k \in Keys : /\ AsMerge[k].baseline = EditOf(k).baseline
                        /\ AsMerge[k].pending = EditOf(k).pending
  BY DEF AsMerge
<1>4. \A k : k \in M!Conflicts(Overrides(current), AsMerge)
               <=> k \in Keys /\ Value(current, k) \notin {EditOf(k).baseline, EditOf(k).pending}
  BY <1>1, <1>2, <1>3 DEF M!Conflicts
<1>5. \A k \in Keys : M!Merge(Overrides(current), AsMerge)[k] = EditOf(k).pending
  BY <1>3, BatchAsMerge DEF M!Merge
<1>6. ASSUME NEW i \in DOMAIN batch
      PROVE  batch[i].key \in M!Conflicts(Overrides(current), AsMerge)
               <=> Conflicts(current, batch[i])
  BY <1>4, BatchAsMerge DEF Conflicts
<1>7. \A k \in M!Conflicts(Overrides(current), AsMerge) :
        \E i \in DOMAIN batch : k = batch[i].key
  BY <1>4, BatchAsMerge
<1> QED BY <1>5, <1>6, <1>7, BatchAsMerge

-----------------------------------------------------------------------------
(* Theorems *)

\* However long a client patches, saves and discards, what is kept of the
\* document and of the last call is what the code keeps.
THEOREM PatchCorrect == Spec => []PatchInv
  BY InitPatch, StepPatch, PTL DEF Spec

\* Whatever patchDocument offers is within the bound on the size and parses to
\* the snapshot that is kept of it, however long a document is edited.
THEOREM PatchesCanBeRead == Spec => []TypeOK
<1>1. PatchInv => TypeOK
  <2> SUFFICES ASSUME PatchInv PROVE TypeOK
    OBVIOUS
  <2>1. \A s \in {current} \cup result.snapshot :
          Len(s.doc) <= MaxTokens /\ s \in ParseDocument(s.doc)
    BY ParsedIsRead DEF PatchInv, IsRead
  <2>2. Len(batch) <= 2
    <3>1. Len(batch) \in 0 .. 2
      BY DEF PatchInv
    <3> QED BY <3>1
  <2>3. result.status \in {"Idle", "Success", "Conflict", "Invalid", "UnsupportedPatch"}
    BY Returns DEF PatchInv, Idle, Refused
  <2> QED BY <2>1, <2>2, <2>3 DEF TypeOK
<1> QED BY <1>1, PatchCorrect, PTL

\* patchDocument answers Conflict only for a conflict of DocumentMerge, and
\* succeeds only without one, with a document that the schema accepts and that
\* holds the merge for every key of the batch: its spans may go wrong, but
\* then it refuses.
THEOREM PatchesMerge == Spec => []MergesAsPromised
<1>1. PatchInv => MergesAsPromised
  <2> SUFFICES ASSUME PatchInv PROVE MergesAsPromised
    OBVIOUS
  <2>1. CASE result = Idle
    BY <2>1 DEF MergesAsPromised, Idle, Refused
  <2>2. CASE result = PatchDocument(current, batch)
    <3>1. result.status = "Conflict" => M!Conflicts(Overrides(current), AsMerge) # {}
      BY <2>2, Returns, MergeOfBatch
    <3>2. ASSUME NEW after \in result.snapshot
          PROVE  /\ Accepts(after)
                 /\ M!Conflicts(Overrides(current), AsMerge) = {}
                 /\ \A k \in Keys : Value(after, k) = M!Merge(Overrides(current), AsMerge)[k]
      <4>1. /\ Plannable(current, batch) /\ Accepts(after)
            /\ \A i \in DOMAIN batch :
                 /\ ~ Conflicts(current, batch[i])
                 /\ Value(after, batch[i].key) = batch[i].pending
        BY <2>2, Returns
      <4> QED BY <4>1, MergeOfBatch, BatchAsMerge
    <3> QED BY <3>1, <3>2 DEF MergesAsPromised
  <2> QED BY <2>1, <2>2 DEF PatchInv
<1> QED BY <1>1, PatchCorrect, PTL

\* A patch leaves what no edit is about: all of it is in the document that
\* patchDocument offers, in its order.  Neither the bounds the parser finds for
\* a value, nor the scans for lines, comments and headers, nor coalescing and
\* sorting can make it lose or reorder a lexeme outside the spans of the edits,
\* even where it takes part of a string for a comment or a header.
THEOREM RestIsKept == Spec => []RestKept
<1>1. PatchInv => RestKept
  BY DEF PatchInv, Keeps, RestKept, Rest
<1> QED BY <1>1, PatchCorrect, PTL

\* Values set in place take nothing else with them: of UnrelatedKept, which a
\* reset can break, what it says of the lexemes holds for every batch that only
\* sets values, be they replaced or inserted.
THEOREM SettingKeepsUnrelated ==
  Spec => [](\A after \in result.snapshot :
               (\A i \in DOMAIN batch : batch[i].pending # NoValue)
                 => Found(Unrelated, after.doc) = Len(Unrelated))
<1> DEFINE Sets == \A i \in DOMAIN batch : batch[i].pending # NoValue
           Kept == \A after \in result.snapshot :
                     Sets => Found(Unrelated, after.doc) = Len(Unrelated)
<1>1. PatchInv => Kept
  <2> SUFFICES ASSUME PatchInv, NEW after \in result.snapshot, Sets
               PROVE  Found(Unrelated, after.doc) = Len(Unrelated)
    OBVIOUS
  <2> DEFINE lex == Lex(current.doc)
             indices == DOMAIN current.doc
             comment == {i \in indices : "comment" \in {lex[i - 1], lex[i]}}
             Gone(k) == LET e == current.entries[k]
                        IN  IF EditOf(k).pending # NoValue THEN e.begin + 1 .. e.end
                            ELSE (e.begin .. e.end) \ comment
             gone == UNION {Gone(k) : k \in {l \in Keys : Replaces(current, EditOf(l))}}
  <2>1. Unrelated = Pick(current.doc, indices \ gone)
    BY DEF Unrelated
  <2>2. Plannable(current, batch)
    <3>1. result.snapshot # {} /\ result # Idle
      BY DEF Idle, Refused
    <3>2. result = PatchDocument(current, batch)
      BY <3>1 DEF PatchInv
    <3> QED BY <3>1, <3>2, Returns
  <2>3. ASSUME NEW i \in DOMAIN batch
        PROVE  EditOf(batch[i].key) = batch[i] /\ Gone(batch[i].key) = About(current, batch[i])
    <3>1. EditOf(batch[i].key) = batch[i] /\ batch[i].pending # NoValue
      BY <2>2, BatchAsMerge
    <3> QED BY <3>1 DEF About
  <2> HIDE DEF Gone
  <2>4. gone = Edited(current, batch)
    <3>1. \A k \in Keys : \E i \in DOMAIN batch : k = batch[i].key
      BY DEF Keys
    <3>2. \A i \in DOMAIN batch : batch[i].key \in Keys
      BY DEF Keys
    <3> QED BY <2>3, <3>1, <3>2 DEF Edited
  <2>5. Unrelated = Rest
    BY <2>1, <2>4 DEF Rest
  <2> QED BY <2>5 DEF PatchInv, Keeps, Rest
<1>2. Spec => []Kept
  BY <1>1, PatchCorrect, PTL
<1> QED BY <1>2
=============================================================================
