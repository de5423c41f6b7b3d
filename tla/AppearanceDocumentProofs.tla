---------------------- MODULE AppearanceDocumentProofs ----------------------
(***************************************************************************)
(* For any number of clients of an appearance path and editors, and any    *)
(* documents: a stage works under the lock, it replaces no document of a   *)
(* version it does not know, and upgrades none that became older since it  *)
(* looked; and the three looks of a load answer as one.                    *)
(***************************************************************************)
EXTENDS AppearanceDocument, TLAPS

\* What the call of a client consists of at each of its steps.
Record(c, fields) == DOMAIN c = fields /\ c = [f \in fields |-> c[f]]

Reading(c)   == Record(c, {"kind", "pc", "batch", "at"})
                  /\ c.kind = "stage" /\ c.pc = "read"
Planning(c)  == Record(c, {"kind", "pc", "seen", "batch"})
                  /\ c.kind = "stage" /\ c.pc = "plan"
Replacing(c) == Record(c, {"kind", "pc", "seen", "batch", "at", "found", "left", "raced"})
                  /\ c.kind = "stage" /\ c.pc = "replace"
Resolving(c) == Record(c, {"kind", "pc", "batch"})
                  /\ c.kind = "stage" /\ c.pc = "resolve"
Encoding(c)  == Record(c, {"kind", "pc", "appearance"})
                  /\ c.kind = "write" /\ c.pc = "encode"
Renaming(c)  == Record(c, {"kind", "pc", "appearance", "bytes"})
                  /\ c.kind = "write" /\ c.pc = "temporary"
Looking(c)   == Record(c, {"kind", "pc", "looks"})
                  /\ c.kind = "load" /\ c.pc \in {"exists", "size", "open"}
Told(c)      == Record(c, {"kind", "pc", "looks", "status", "appearance"})
                  /\ c.kind = "load" /\ c.pc = "done"
Resting(c)   == Record(c, {"kind", "pc"}) /\ c.kind = "none" /\ c.pc = "idle"
Answered(c)  == Record(c, {"kind", "pc", "status"}) /\ c.kind = "none" /\ c.pc = "done"

Shaped(c) == \/ Resolving(c) \/ Reading(c) \/ Planning(c) \/ Replacing(c)
             \/ Encoding(c) \/ Renaming(c)
             \/ Looking(c) \/ Told(c)
             \/ Resting(c) \/ Answered(c)

\* The batch of a stage ends with the version edit, based on what was read.
Versioned(c) ==
  /\ Version \in DOMAIN c.batch
  /\ c.batch[Version] = [baseline |-> c.seen, pending |-> Int64(2)]

\* What a stage found is there until somebody races it; it is a document of
\* the version it saw, or already of version 2, and it leaves version 2.
Checked(c) ==
  /\ c.at \in Places /\ c.raced \in BOOLEAN
  /\ ~ c.raced => files[c.at] = c.found
  /\ VersionOf(c.found) \in {c.seen, Int64(2)}
  /\ VersionOf(c.found) \in {Absent, Int64(1), Int64(2)}
  /\ c.left[Version] = Int64(2)

\* The answer of a load is that of one of the documents it could look at.
OneLook(c) ==
  \E doc \in c.looks :
    /\ c.status = "File" => doc # Missing /\ c.appearance = Decode(doc)
    /\ c.status = "Invalid" => Decode(doc) = Failed
    /\ c.status \in {"Default", "IoError"} => doc = Missing

CallInv(c) ==
  /\ Shaped(c)
  /\ Planning(c)  => Versioned(c)
  /\ Replacing(c) => Versioned(c) /\ Checked(c)
  /\ Looking(c)   => files[leads] \in c.looks
  /\ Told(c)      => OneLook(c)

\* One stage at a time past the lock of a place, the lock's owner.
LockInv ==
  /\ owner \in [Places -> Procs \cup {None}]
  /\ \A p \in Procs, t \in Places :
       owner[t] = p <=> (call[p].pc = "replace" /\ call[p].at = t)

IInv ==
  /\ leads \in Places
  /\ DOMAIN files = Places /\ files = [t \in Places |-> files[t]]
  /\ DOMAIN call = Procs /\ call = [p \in Procs |-> call[p]]
  /\ LockInv
  /\ \A p \in Procs : CallInv(call[p])

-----------------------------------------------------------------------------
(* Calls *)

\* Each call has one shape, which its kind and its step tell.
LEMMA ShapeByStep ==
  ASSUME NEW c, Shaped(c)
  PROVE  /\ c.pc = "resolve"   => Resolving(c)
         /\ c.pc = "read"      => Reading(c)
         /\ c.pc = "plan"      => Planning(c)
         /\ c.pc = "replace"   => Replacing(c)
         /\ c.pc = "encode"    => Encoding(c)
         /\ c.pc = "temporary" => Renaming(c)
         /\ c.pc \in {"exists", "size", "open"} => Looking(c)
         /\ c.pc = "idle"      => Resting(c)
         /\ c.kind = "load"    => Looking(c) \/ Told(c)
         /\ c.kind # "load" /\ c.pc # "replace" =>
              ~ Looking(c) /\ ~ Told(c) /\ ~ Replacing(c)
  BY DEF Shaped, Resolving, Reading, Planning, Replacing, Encoding, Renaming,
         Looking, Told, Resting, Answered

\* What others do leaves a call what it was, except that a load sees the new
\* document and a stage that it would have affected is raced.
LEMMA OtherCall ==
  ASSUME IInv, NEW q \in Procs, NEW place \in Places,
         call'[q] = Noticed(call[q], place),
         leads' \in Places,
         \A t \in Places \ {place} : files'[t] = files[t]
  PROVE  /\ CallInv(call[q])'
         /\ call'[q].pc = call[q].pc
         /\ call[q].pc = "replace" => call'[q].at = call[q].at
<1> DEFINE c == call[q]
           d == call'[q]
<1>1. CallInv(c) /\ Shaped(c)
  BY DEF IInv, CallInv
<1>2. CASE c.kind = "load"
  <2>1. d = [c EXCEPT !.looks = c.looks \cup {files'[leads']}]
    BY <1>2 DEF Noticed
  <2>2. CASE Looking(c)
    <3>1. Looking(d) /\ d.looks = c.looks \cup {files'[leads']} /\ d.pc = c.pc
      BY <2>1, <2>2 DEF Looking, Record
    <3> QED BY <1>2, <2>2, <3>1 DEF CallInv, Shaped, Looking, Planning, Replacing, Told
  <2>3. CASE Told(c)
    <3>1. /\ Told(d) /\ d.looks = c.looks \cup {files'[leads']} /\ d.pc = c.pc
          /\ d.status = c.status /\ d.appearance = c.appearance
      BY <2>1, <2>3 DEF Told, Record
    <3>2. OneLook(c)
      BY <1>1, <2>3 DEF CallInv
    <3>3. OneLook(d)
      BY <3>1, <3>2 DEF OneLook
    <3> QED BY <1>2, <2>3, <3>1, <3>3 DEF CallInv, Shaped, Looking, Planning, Replacing, Told
  <2> QED BY <1>1, <1>2, <2>2, <2>3, ShapeByStep
<1>3. CASE c.pc = "replace" /\ c.kind # "load"
  <2>1. d = [c EXCEPT !.raced = c.raced \/ c.at = place \/ c.at # leads']
    BY <1>3 DEF Noticed
  <2>2. Replacing(c) /\ Versioned(c) /\ Checked(c)
    BY <1>1, <1>3, ShapeByStep DEF CallInv
  <2>3. /\ Replacing(d) /\ d.pc = c.pc /\ d.at = c.at /\ d.batch = c.batch
        /\ d.seen = c.seen /\ d.found = c.found /\ d.left = c.left
        /\ d.raced = (c.raced \/ c.at = place \/ c.at # leads')
    BY <2>1, <2>2 DEF Replacing, Record
  <2>4. Versioned(d)
    BY <2>2, <2>3 DEF Versioned
  <2>5. Checked(call[q])'
    BY <2>2, <2>3 DEF Checked
  <2> QED BY <2>3, <2>4, <2>5 DEF CallInv, Shaped, Looking, Planning, Replacing, Told
<1>4. CASE c.pc # "replace" /\ c.kind # "load"
  <2>1. d = c
    BY <1>4 DEF Noticed
  <2>2. ~ Looking(c) /\ ~ Told(c) /\ ~ Replacing(c)
    BY <1>1, <1>4, ShapeByStep
  <2> QED BY <1>1, <2>1, <2>2 DEF CallInv
<1> QED BY <1>2, <1>3, <1>4

-----------------------------------------------------------------------------
(* Steps *)

\* A step of p that writes nothing disturbs no other call.
LEMMA LocalStep ==
  ASSUME IInv, NEW p \in Procs, UNCHANGED <<files, leads>>, NEW c,
         call' = [call EXCEPT ![p] = c],
         LockInv', CallInv(call[p])'
  PROVE  IInv'
<1>1. ASSUME NEW q \in Procs, q # p PROVE CallInv(call[q])'
  <2>1. call'[q] = call[q] /\ CallInv(call[q])
    BY <1>1 DEF IInv
  <2> QED BY <2>1 DEF CallInv, Checked, Versioned, OneLook
<1>2. \A q \in Procs : CallInv(call[q])'
  BY <1>1
<1> QED BY <1>2 DEF IInv

\* What the locks depend on in the calls other than p's.
OthersStay(p) ==
  \A q \in Procs \ {p} : /\ call'[q].pc = call[q].pc
                         /\ call[q].pc = "replace" => call'[q].at = call[q].at

\* A step outside the lock, or of an editor, leaves the locks right.
LEMMA LocksKept ==
  ASSUME LockInv, NEW p, UNCHANGED owner, OthersStay(p),
         p \in Procs => call[p].pc # "replace" /\ call'[p].pc # "replace"
  PROVE  LockInv'
BY DEF LockInv, OthersStay

\* Released gives up what p holds and nothing else.
LEMMA LocksReleased ==
  ASSUME LockInv, NEW p \in Procs, owner' = Released(p), call'[p].pc # "replace",
         OthersStay(p)
  PROVE  LockInv'
<1>1. owner' \in [Places -> Procs \cup {None}]
  BY DEF LockInv, Released
<1>2. ASSUME NEW q \in Procs, NEW t \in Places
      PROVE  owner'[t] = q <=> (call'[q].pc = "replace" /\ call'[q].at = t)
  <2>1. owner'[t] = IF owner[t] = p THEN None ELSE owner[t]
    BY DEF Released
  <2>2. CASE q = p
    BY <2>1, <2>2, AppearanceAssumption, CodecAssumption
  <2>3. CASE q # p
    BY <2>1, <2>3, AppearanceAssumption, CodecAssumption DEF LockInv, OthersStay
  <2> QED BY <2>2, <2>3
<1> QED BY <1>1, <1>2 DEF LockInv

\* The calls that rely on nothing but their shape.
Plainly(c) == \/ Resolving(c) \/ Reading(c) \/ Encoding(c) \/ Renaming(c)
              \/ Resting(c) \/ Answered(c)

\* A step outside the lock to such a call.
LEMMA PlainStep ==
  ASSUME IInv, NEW p \in Procs, UNCHANGED <<files, leads, owner>>, NEW c,
         call' = [call EXCEPT ![p] = c],
         call[p].pc # "replace", Plainly(c)
  PROVE  IInv'
<1>1. /\ Shaped(c) /\ c.pc # "replace"
      /\ ~ Planning(c) /\ ~ Replacing(c) /\ ~ Looking(c) /\ ~ Told(c)
  BY DEF Plainly, Shaped, Resolving, Reading, Planning, Replacing, Encoding, Renaming,
         Looking, Told, Resting, Answered
<1>2. call'[p] = c
  BY DEF IInv
<1>3. CallInv(call[p])'
  BY <1>1, <1>2 DEF CallInv
<1>4. LockInv'
  BY <1>1, <1>2, LocksKept DEF IInv, OthersStay
<1> QED BY <1>3, <1>4, LocalStep

LEMMA AnswerIsPlain ==
  ASSUME NEW why PROVE Plainly(Answer(why)) /\ Answer(why).pc = "done"
BY DEF Answer, Plainly, Answered, Record

\* Each call has a shape, and steps of other shapes are excluded by its pc.
LEMMA ShapeOf ==
  ASSUME IInv, NEW p \in Procs PROVE CallInv(call[p]) /\ Shaped(call[p])
BY DEF IInv, CallInv

LEMMA BeginStageKeeps ==
  ASSUME IInv, NEW p \in Procs, BeginStage(p) PROVE IInv'
<1>1. PICK batch \in Staged :
        Begin(p, [kind |-> "stage", pc |-> "resolve", batch |-> batch])
  BY DEF BeginStage
<1> DEFINE c == [kind |-> "stage", pc |-> "resolve", batch |-> batch]
<1>2. Plainly(c)
  BY DEF Plainly, Resolving, Record
<1>3. /\ call' = [call EXCEPT ![p] = c] /\ UNCHANGED <<files, leads, owner>>
      /\ call[p].pc # "replace"
  BY <1>1 DEF Begin, Idle
<1> QED BY <1>2, <1>3, PlainStep

LEMMA BeginWriteKeeps ==
  ASSUME IInv, NEW p \in Procs, BeginWrite(p) PROVE IInv'
<1>1. PICK a \in Appearances :
        Begin(p, [kind |-> "write", pc |-> "encode", appearance |-> a])
  BY DEF BeginWrite
<1> DEFINE c == [kind |-> "write", pc |-> "encode", appearance |-> a]
<1>2. Plainly(c)
  BY DEF Plainly, Encoding, Record
<1>3. /\ call' = [call EXCEPT ![p] = c] /\ UNCHANGED <<files, leads, owner>>
      /\ call[p].pc # "replace"
  BY <1>1 DEF Begin, Idle
<1> QED BY <1>2, <1>3, PlainStep

LEMMA ReturnKeeps ==
  ASSUME IInv, NEW p \in Procs, Return(p) PROVE IInv'
<1>1. Plainly(Idle)
  BY DEF Plainly, Resting, Record, Idle
<1>2. /\ call' = [call EXCEPT ![p] = Idle] /\ UNCHANGED <<files, leads, owner>>
      /\ call[p].pc # "replace"
  BY DEF Return, Goto
<1> QED BY <1>1, <1>2, PlainStep

LEMMA ResolveKeeps ==
  ASSUME IInv, NEW p \in Procs, ResolveTarget(p) PROVE IInv'
<1> DEFINE c == [kind |-> "stage", pc |-> "read", batch |-> call[p].batch, at |-> leads]
<1>1. Plainly(c)
  BY DEF Plainly, Reading, Record
<1>2. /\ call' = [call EXCEPT ![p] = c] /\ UNCHANGED <<files, leads, owner>>
      /\ call[p].pc # "replace"
  BY DEF ResolveTarget, Goto
<1> QED BY <1>1, <1>2, PlainStep

LEMMA EncodeKeeps ==
  ASSUME IInv, NEW p \in Procs, Encode(p) PROVE IInv'
<1> DEFINE bytes == Serialize(call[p].appearance)
           c == [kind |-> "write", pc |-> "temporary",
                 appearance |-> call[p].appearance, bytes |-> bytes]
<1>1. Plainly(c)
  BY DEF Plainly, Renaming, Record
<1>2. PICK d \in {c, Answer("ValidationError")} :
        /\ call' = [call EXCEPT ![p] = d] /\ UNCHANGED <<files, leads, owner>>
        /\ call[p].pc # "replace"
  BY DEF Encode, Goto
<1> QED BY <1>1, <1>2, AnswerIsPlain, PlainStep

LEMMA WriteFailsKeeps ==
  ASSUME IInv, NEW p \in Procs, WriteFails(p) PROVE IInv'
BY AnswerIsPlain, PlainStep DEF WriteFails, Goto

\* The version edit is based on what the read found.
LEMMA ReadKeeps ==
  ASSUME IInv, NEW p \in Procs, ReadStage(p) PROVE IInv'
<1> DEFINE seen  == VersionOf(files[call[p].at])
           batch == WithVersion(call[p].batch, seen)
           c     == [kind |-> "stage", pc |-> "plan", seen |-> seen, batch |-> batch]
<1>1. /\ UNCHANGED <<files, leads, owner>> /\ call[p].pc # "replace"
      /\ \/ call' = [call EXCEPT ![p] = Answer("Invalid")]
         \/ call' = [call EXCEPT ![p] = c] /\ Version \notin DOMAIN call[p].batch
  BY DEF ReadStage, Goto
<1>2. CASE call' = [call EXCEPT ![p] = Answer("Invalid")]
  BY <1>1, <1>2, AnswerIsPlain, PlainStep
<1>3. CASE call' = [call EXCEPT ![p] = c] /\ Version \notin DOMAIN call[p].batch
  <2>1. Planning(c) /\ c.pc = "plan" /\ c.kind = "stage"
    BY DEF Planning, Record
  <2>2. /\ Version \in DOMAIN batch
        /\ batch[Version] = [baseline |-> seen, pending |-> Int64(2)]
    BY <1>3 DEF WithVersion
  <2>3. Versioned(c)
    BY <2>2 DEF Versioned
  <2>4. call'[p] = c
    BY <1>3 DEF IInv
  <2> HIDE DEF c
  <2>5. CallInv(call[p])'
    BY <2>1, <2>3, <2>4 DEF CallInv, Shaped, Planning, Replacing, Looking, Told, Versioned
  <2>6. LockInv'
    BY <1>1, <1>3, <2>1, <2>4, LocksKept DEF IInv, OthersStay
  <2> QED BY <1>1, <1>3, <2>5, <2>6, LocalStep
<1> QED BY <1>1, <1>2, <1>3

\* The steps of a load: it goes on looking, having seen what is there, or it
\* tells what one look saw.
LEMMA LoadStep ==
  ASSUME IInv, NEW p \in Procs, UNCHANGED <<files, leads, owner>>, NEW c,
         call' = [call EXCEPT ![p] = c], call[p].pc # "replace",
         \/ Looking(c) /\ files[leads] \in c.looks
         \/ Told(c) /\ OneLook(c)
  PROVE  IInv'
<1>1. Shaped(c) /\ c.pc # "replace" /\ ~ Planning(c) /\ ~ Replacing(c)
  BY DEF Shaped, Planning, Replacing, Looking, Told
<1>2. call'[p] = c
  BY DEF IInv
<1>3. ~ (Looking(c) /\ Told(c))
  BY DEF Looking, Told
<1>4. CallInv(call[p])'
  BY <1>1, <1>2, <1>3 DEF CallInv, OneLook
<1>5. LockInv'
  BY <1>1, <1>2, LocksKept DEF IInv, OthersStay
<1> QED BY <1>4, <1>5, LocalStep

LEMMA BeginLoadKeeps ==
  ASSUME IInv, NEW p \in Procs, BeginLoad(p) PROVE IInv'
<1> DEFINE c == [kind |-> "load", pc |-> "exists", looks |-> {files[leads]}]
<1>1. Looking(c) /\ files[leads] \in c.looks
  BY DEF Looking, Record
<1>2. /\ call' = [call EXCEPT ![p] = c] /\ UNCHANGED <<files, leads, owner>>
      /\ call[p].pc # "replace"
  BY DEF BeginLoad, Begin, Idle
<1> QED BY <1>1, <1>2, LoadStep

\* The answer of a load about the document that is there.
LEMMA LoadedKeeps ==
  ASSUME IInv, NEW p \in Procs, NEW status, NEW appearance,
         Looking(call[p]), Loaded(p, status, appearance),
         LET doc == files[leads] IN
         /\ status = "File" => doc # Missing /\ appearance = Decode(doc)
         /\ status = "Invalid" => Decode(doc) = Failed
         /\ status \in {"Default", "IoError"} => doc = Missing
  PROVE  IInv'
<1> DEFINE c == [kind |-> "load", pc |-> "done", looks |-> call[p].looks,
                 status |-> status, appearance |-> appearance]
<1>1. files[leads] \in call[p].looks /\ call[p].pc # "replace"
  BY ShapeOf DEF CallInv, Looking
<1>2. Told(c) /\ OneLook(c)
  BY <1>1 DEF Told, Record, OneLook
<1>3. call' = [call EXCEPT ![p] = c] /\ UNCHANGED <<files, leads, owner>>
  BY DEF Loaded, Goto
<1> QED BY <1>1, <1>2, <1>3, LoadStep

LEMMA LooksOnKeeps ==
  ASSUME IInv, NEW p \in Procs, Looking(call[p]), NEW pc \in {"exists", "size", "open"},
         Goto(p, [call[p] EXCEPT !.pc = pc])
  PROVE  IInv'
<1> DEFINE c == [call[p] EXCEPT !.pc = pc]
<1>1. files[leads] \in call[p].looks /\ call[p].pc # "replace"
  BY ShapeOf DEF CallInv, Looking
<1>2. Looking(c) /\ c.looks = call[p].looks
  BY DEF Looking, Record
<1>3. call' = [call EXCEPT ![p] = c] /\ UNCHANGED <<files, leads, owner>>
  BY DEF Goto
<1> HIDE DEF c
<1> QED BY <1>1, <1>2, <1>3, LoadStep

LEMMA ExistsKeeps ==
  ASSUME IInv, NEW p \in Procs, Exists(p) PROVE IInv'
<1>1. Looking(call[p])
  BY ShapeOf, ShapeByStep DEF Exists
<1> QED BY <1>1, LoadedKeeps, LooksOnKeeps DEF Exists

LEMMA FileSizeKeeps ==
  ASSUME IInv, NEW p \in Procs, FileSize(p) PROVE IInv'
<1>1. Looking(call[p])
  BY ShapeOf, ShapeByStep DEF FileSize
<1>2. CASE files[leads] = Missing /\ Loaded(p, "IoError", Absent)
  BY <1>1, <1>2, LoadedKeeps
<1>3. CASE files[leads] = Malformed /\ Loaded(p, "Invalid", Absent)
  <2>1. Decode(files[leads]) = Failed
    BY <1>3, AppearanceAssumption, CodecAssumption DEF Decode
  <2> QED BY <1>1, <1>3, <2>1, LoadedKeeps
<1>4. CASE Goto(p, [call[p] EXCEPT !.pc = "open"])
  BY <1>1, <1>4, LooksOnKeeps
<1> QED BY <1>2, <1>3, <1>4 DEF FileSize

LEMMA OpenAndReadKeeps ==
  ASSUME IInv, NEW p \in Procs, OpenAndRead(p) PROVE IInv'
<1> DEFINE doc == files[leads]
<1>1. Looking(call[p])
  BY ShapeOf, ShapeByStep DEF OpenAndRead
<1>2. doc # Missing => Contents(doc) = doc
  BY DEF Contents
<1>3. \/ doc = Missing /\ Loaded(p, "IoError", Absent)
      \/ doc # Missing /\ Decode(doc) = Failed /\ Loaded(p, "Invalid", Absent)
      \/ doc # Missing /\ Loaded(p, "File", Decode(doc))
  BY <1>2 DEF OpenAndRead, Opened
<1> QED BY <1>1, <1>3, LoadedKeeps

\* A document that is replaced is noticed by every other call.
LEMMA WriteStep ==
  ASSUME IInv, NEW p \in Procs \cup {None}, NEW place \in Places, NEW c, NEW doc,
         files' = [files EXCEPT ![place] = doc], leads' \in Places,
         Written(place, p, c), Plainly(c),
         \/ p \in Procs /\ owner' = Released(p)
         \/ UNCHANGED owner /\ (p \in Procs => call[p].pc # "replace")
  PROVE  IInv'
<1>1. DOMAIN files' = Places /\ files' = [t \in Places |-> files'[t]]
  BY DEF IInv
<1>2. DOMAIN call' = Procs /\ call' = [q \in Procs |-> call'[q]]
  BY DEF Written
<1>3. \A t \in Places \ {place} : files'[t] = files[t]
  BY DEF IInv
<1>4. ASSUME NEW q \in Procs \ {p}
      PROVE  /\ CallInv(call[q])'
             /\ call'[q].pc = call[q].pc
             /\ call[q].pc = "replace" => call'[q].at = call[q].at
  <2>1. call'[q] = Noticed(call[q], place)
    BY DEF Written
  <2> QED BY <1>3, <2>1, OtherCall
<1>5. /\ Shaped(c) /\ c.pc # "replace"
      /\ ~ Planning(c) /\ ~ Replacing(c) /\ ~ Looking(c) /\ ~ Told(c)
  BY DEF Plainly, Shaped, Resolving, Reading, Planning, Replacing, Encoding, Renaming,
         Looking, Told, Resting, Answered
<1>6. p \in Procs => call'[p] = c
  BY DEF Written
<1>7. p \in Procs => CallInv(call[p])'
  BY <1>5, <1>6 DEF CallInv
<1>8. OthersStay(p)
  BY <1>4 DEF OthersStay
<1>9. LockInv'
  BY <1>5, <1>6, <1>8, LocksKept, LocksReleased DEF IInv
<1>10. \A q \in Procs : CallInv(call[q])'
  BY <1>4, <1>7
<1> QED BY <1>1, <1>2, <1>9, <1>10 DEF IInv

LEMMA ReplaceKeeps ==
  ASSUME IInv, NEW p \in Procs, Replace(p) PROVE IInv'
<1>1. call[p].at \in Places
  BY ShapeOf, ShapeByStep DEF Replace, CallInv, Checked
<1>2. PICK status \in Replaced :
        /\ files' = [files EXCEPT ![call[p].at] = call[p].left]
        /\ Written(call[p].at, p, Answer(status))
        /\ owner' = Released(p) /\ leads' = leads
  BY DEF Replace
<1> QED BY <1>1, <1>2, AnswerIsPlain, WriteStep DEF IInv

LEMMA RenameKeeps ==
  ASSUME IInv, NEW p \in Procs, Rename(p) PROVE IInv'
<1>1. "path" \in Places
  BY DEF Places
<1>2. /\ files' = [files EXCEPT !["path"] = call[p].bytes]
      /\ Written("path", p, Answer("Success"))
      /\ UNCHANGED owner /\ call[p].pc # "replace" /\ leads' = "path"
  BY DEF Rename
<1> QED BY <1>1, <1>2, AnswerIsPlain, WriteStep

LEMMA EditorKeeps ==
  ASSUME IInv, Editor PROVE IInv'
<1>1. PICK doc \in Edited : files' = [files EXCEPT ![leads] = doc]
  BY DEF Editor
<1>2. Plainly(Idle)
  BY DEF Plainly, Resting, Record, Idle
<1>3. /\ Written(leads, None, Idle) /\ UNCHANGED owner /\ leads \in Places
      /\ leads' = leads /\ None \notin Procs
  BY AppearanceAssumption, CodecAssumption DEF Editor, IInv
<1> QED BY <1>1, <1>2, <1>3, WriteStep

\* A stage that gives up releases its lock.
LEMMA RefuseKeeps ==
  ASSUME IInv, NEW p \in Procs, Refuse(p) PROVE IInv'
<1>1. PICK why : call' = [call EXCEPT ![p] = Answer(why)]
  BY DEF Refuse
<1> DEFINE c == Answer(why)
<1>2. UNCHANGED <<files, leads>> /\ owner' = Released(p)
  BY DEF Refuse
<1>3. /\ Shaped(c) /\ c.pc # "replace"
      /\ ~ Planning(c) /\ ~ Replacing(c) /\ ~ Looking(c) /\ ~ Told(c)
  BY DEF Answer, Answered, Record, Shaped, Planning, Replacing, Looking, Told
<1>4. call'[p] = c
  BY <1>1 DEF IInv
<1>5. CallInv(call[p])'
  BY <1>3, <1>4 DEF CallInv
<1>6. OthersStay(p)
  BY <1>1 DEF OthersStay, IInv
<1>7. LockInv'
  BY <1>2, <1>3, <1>4, <1>6, LocksReleased DEF IInv
<1> QED BY <1>1, <1>2, <1>5, <1>7, LocalStep

\* What patchDocument accepts: the document on disk is of a version the library
\* knows, one that the version edit does not conflict with.
LEMMA MergeIsVersioned ==
  ASSUME NEW doc, NEW c, Versioned(c), D!PatchStatus(doc, c.batch) = "Success"
  PROVE  /\ VersionOf(doc) \in {c.seen, Int64(2)}
         /\ VersionOf(doc) \in {Absent, Int64(1), Int64(2)}
         /\ D!Merge(doc, c.batch)[Version] = Int64(2)
<1>1. Version \in Keys
  BY DEF Keys
<1>2. /\ doc \in [Keys -> Nodes \cup {Absent}] \cup {Missing}
      /\ Accepted(doc) /\ D!Conflicts(doc, c.batch) = {}
  BY DEF D!PatchStatus
<1>3. D!ValuesOf(doc)[Version] \in {c.seen, Int64(2)}
  BY <1>2 DEF D!Conflicts, Versioned
<1>4. D!Merge(doc, c.batch)[Version] = Int64(2)
  BY <1>1 DEF D!Merge, Versioned
<1>5. CASE doc = Missing
  <2>1. doc \notin [Keys -> Nodes \cup {Absent}]
    BY <1>5, AppearanceAssumption, CodecAssumption
  <2>2. D!ValuesOf(doc)[Version] = Absent
    BY <1>1, <2>1 DEF D!ValuesOf, D!EmptyDoc
  <2> QED BY <1>3, <1>4, <1>5, <2>2 DEF VersionOf
<1>6. CASE doc # Missing
  <2>1. doc \in [Keys -> Nodes \cup {Absent}] /\ doc # Malformed
    BY <1>2, <1>6, AppearanceAssumption, CodecAssumption
  <2>2. D!ValuesOf(doc) = doc
    BY <2>1 DEF D!ValuesOf
  <2>3. Decode(doc) # Failed
    BY <1>2 DEF Accepted
  <2>4. doc[Version] \in {Int64(1), Int64(2)}
    BY <1>6, <2>1, <2>3 DEF Decode, EditingVersions
  <2> QED BY <1>3, <1>4, <1>6, <2>2, <2>4 DEF VersionOf
<1> QED BY <1>5, <1>6

LEMMA PlanKeeps ==
  ASSUME IInv, NEW p \in Procs, PlanStage(p) PROVE IInv'
<1> DEFINE b == call[p]
           doc == files[leads]
           left == D!Merge(doc, b.batch)
           status == D!PatchStatus(doc, b.batch)
           c == [kind |-> "stage", pc |-> "replace", seen |-> b.seen,
                 batch |-> b.batch, at |-> leads, found |-> doc,
                 left |-> left, raced |-> FALSE]
<1>1. b.pc = "plan" /\ owner[leads] = None /\ UNCHANGED <<files, leads>>
  BY DEF PlanStage, Goto
<1>2. Versioned(b)
  BY <1>1, ShapeOf, ShapeByStep DEF CallInv
<1>3. CASE call' = [call EXCEPT ![p] = Answer(status)] /\ UNCHANGED owner
  BY <1>1, <1>3, AnswerIsPlain, PlainStep
<1>4. CASE /\ call' = [call EXCEPT ![p] = c]
           /\ owner' = [owner EXCEPT ![leads] = p]
           /\ status = "Success"
  <2>1. /\ VersionOf(doc) \in {b.seen, Int64(2)}
        /\ VersionOf(doc) \in {Absent, Int64(1), Int64(2)}
        /\ left[Version] = Int64(2)
    BY <1>2, <1>4, MergeIsVersioned
  <2> DEFINE d == call'[p]
  <2>2. d = c
    BY <1>4 DEF IInv
  <2>3. /\ Replacing(d) /\ d.pc = "replace" /\ d.at = leads /\ d.raced = FALSE
        /\ d.seen = b.seen /\ d.batch = b.batch /\ d.found = doc /\ d.left = left
    <3> HIDE DEF doc, left
    <3> QED BY <2>2 DEF Replacing, Record
  <2>4. Versioned(d)
    BY <1>2, <2>3 DEF Versioned
  <2>5. leads \in Places /\ leads' = leads /\ files'[leads] = doc
    BY <1>1 DEF IInv
  <2>6. Checked(call[p])'
    <3> HIDE DEF doc, left, d
    <3>1. /\ d.at \in Places /\ d.raced \in BOOLEAN /\ files'[d.at] = d.found
          /\ VersionOf(d.found) \in {d.seen, Int64(2)}
          /\ VersionOf(d.found) \in {Absent, Int64(1), Int64(2)}
          /\ d.left[Version] = Int64(2)
      BY <2>1, <2>3, <2>5
    <3> QED BY <3>1 DEF Checked, d
  <2>7. CallInv(call[p])'
    <3> HIDE DEF c
    <3> QED BY <2>3, <2>4, <2>6 DEF CallInv, Shaped, Replacing, Planning, Looking, Told
  <2>8. LockInv'
    <3>1. owner' \in [Places -> Procs \cup {None}]
      BY <1>4 DEF IInv, LockInv
    <3>2. ASSUME NEW q \in Procs, NEW t \in Places
          PROVE  owner'[t] = q <=> (call'[q].pc = "replace" /\ call'[q].at = t)
      <4> HIDE DEF c, doc, left, status
      <4>1. owner'[t] = IF t = leads THEN p ELSE owner[t]
        BY <1>4 DEF IInv, LockInv
      <4>2. CASE q = p
        <5>1. \A u \in Places : owner[u] # p
          BY <1>1 DEF IInv, LockInv
        <5> QED BY <2>3, <4>1, <4>2, <5>1
      <4>3. CASE q # p
        <5>1. call'[q] = call[q]
          BY <1>4, <4>3 DEF IInv
        <5>2. owner[leads] # q
          BY <1>1, AppearanceAssumption, CodecAssumption
        <5> QED BY <4>1, <4>3, <5>1, <5>2 DEF IInv, LockInv
      <4> QED BY <4>2, <4>3
    <3> QED BY <3>1, <3>2 DEF LockInv
  <2> QED BY <1>1, <1>4, <2>7, <2>8, LocalStep
<1>5. \/ call' = [call EXCEPT ![p] = Answer(status)] /\ UNCHANGED owner
      \/ /\ call' = [call EXCEPT ![p] = c]
         /\ owner' = [owner EXCEPT ![leads] = p]
         /\ status = "Success"
  BY DEF PlanStage, Goto
<1> QED BY <1>3, <1>4, <1>5

-----------------------------------------------------------------------------
(* Theorems *)

LEMMA InitKeeps ==
  ASSUME Init PROVE IInv
<1>1. \A p \in Procs : call[p] = Idle
  BY DEF Init
<1>2. Resting(Idle)
  BY DEF Resting, Record, Idle
<1>3. \A p \in Procs : CallInv(call[p])
  BY <1>1, <1>2 DEF CallInv, Shaped, Resting, Planning, Replacing, Looking, Told
<1>4. LockInv
  BY <1>1, AppearanceAssumption, CodecAssumption DEF Init, LockInv, Idle
<1> QED BY <1>3, <1>4 DEF Init, IInv

LEMMA NextKeeps ==
  ASSUME IInv, [Next]_vars PROVE IInv'
<1>1. CASE UNCHANGED vars
  <2>1. ASSUME NEW q \in Procs PROVE CallInv(call[q])'
    BY <1>1 DEF IInv, vars, CallInv, Checked, Versioned, OneLook
  <2> QED BY <1>1, <2>1 DEF IInv, vars, LockInv
<1>2. CASE Editor
  BY <1>2, EditorKeeps
<1>3. ASSUME NEW p \in Procs,
             \/ BeginStage(p) \/ ResolveTarget(p) \/ ReadStage(p) \/ PlanStage(p)
             \/ Replace(p) \/ Refuse(p)
             \/ BeginWrite(p) \/ Encode(p) \/ Rename(p) \/ WriteFails(p)
             \/ BeginLoad(p) \/ Exists(p) \/ FileSize(p) \/ OpenAndRead(p)
             \/ Return(p)
      PROVE  IInv'
  BY <1>3, BeginStageKeeps, ResolveKeeps, ReadKeeps, PlanKeeps, ReplaceKeeps,
     RefuseKeeps, BeginWriteKeeps, EncodeKeeps, RenameKeeps, WriteFailsKeeps,
     BeginLoadKeeps, ExistsKeeps, FileSizeKeeps, OpenAndReadKeeps, ReturnKeeps
<1> QED BY <1>1, <1>2, <1>3 DEF Next

\* The inductive invariant: what each call relies on at its step, and that the
\* lock of a place is held by the one stage past its last check there.
THEOREM CallsAreWhatTheyRelyOn == Spec => []IInv
<1>1. Init => IInv
  BY InitKeeps
<1>2. IInv /\ [Next]_vars => IInv'
  BY NextKeeps
<1> QED BY <1>1, <1>2, PTL DEF Spec

\* No return of stageAppearanceDocument keeps the lock, and no two stages are
\* past their last check at one file (document_store.cpp:267).
THEOREM OneStagePastItsCheck == Spec => []TypeOK
<1>1. IInv => TypeOK
  <2> SUFFICES ASSUME IInv, NEW t \in Places
               PROVE  {p \in Procs : call[p].pc = "replace" /\ call[p].at = t}
                        = (IF owner[t] = None THEN {} ELSE {owner[t]})
    BY DEF TypeOK, IInv
  <2>1. \A p \in Procs :
          owner[t] = p <=> (call[p].pc = "replace" /\ call[p].at = t)
    BY DEF IInv, LockInv
  <2>2. owner[t] \in Procs \cup {None}
    BY DEF IInv, LockInv
  <2> QED BY <2>1, <2>2, AppearanceAssumption, CodecAssumption
<1> QED BY <1>1, CallsAreWhatTheyRelyOn, PTL

\* A load answers for one document that was there while it looked
\* (store.cpp:103).
THEOREM LoadsAreOneLook == Spec => []LoadIsOneLook
<1>1. IInv => LoadIsOneLook
  <2> SUFFICES ASSUME IInv, NEW p \in Procs, call[p].kind = "load", call[p].pc = "done"
               PROVE  OneLook(call[p])
    BY DEF LoadIsOneLook, OneLook
  <2>1. Told(call[p])
    BY ShapeOf, ShapeByStep DEF Looking
  <2> QED BY <2>1, ShapeOf DEF CallInv
<1> QED BY <1>1, CallsAreWhatTheyRelyOn, PTL

\* Only Replace makes a stage answer so: it replaces the document it checked by
\* the merged one.
LEMMA AnswerIsReplace ==
  ASSUME IInv, [Next]_vars, NEW p \in Procs, Replaces(p)
  PROVE  Replace(p)
<1>1. call[p].pc = "replace" /\ call'[p].pc = "done" /\ call'[p].status \in Replaced
  BY DEF Replaces
<1>2. Replacing(call[p])
  BY <1>1, ShapeOf, ShapeByStep
<1>3. ASSUME NEW q, NEW place, NEW c, Written(place, q, c), q # p
      PROVE  FALSE
  <2>1. call'[p] = Noticed(call[p], place)
    BY <1>3 DEF Written
  <2>2. call[p].kind # "load"
    BY <1>2 DEF Replacing
  <2>3. call'[p].pc = call[p].pc
    BY <1>2, <2>1, <2>2 DEF Noticed, Replacing, Record
  <2> QED BY <1>1, <2>3
<1>4. ASSUME NEW q \in Procs, NEW c, call' = [call EXCEPT ![q] = c], call[q].pc # "replace"
      PROVE  FALSE
  BY <1>1, <1>4 DEF IInv
<1>5. ~ UNCHANGED vars
  BY <1>1 DEF vars
<1>6. ~ Editor
  BY <1>3, AppearanceAssumption, CodecAssumption DEF Editor
<1>7. PICK q \in Procs :
             \/ BeginStage(q) \/ ResolveTarget(q) \/ ReadStage(q) \/ PlanStage(q)
             \/ Replace(q) \/ Refuse(q)
             \/ BeginWrite(q) \/ Encode(q) \/ Rename(q) \/ WriteFails(q)
             \/ BeginLoad(q) \/ Exists(q) \/ FileSize(q) \/ OpenAndRead(q)
             \/ Return(q)
  BY <1>5, <1>6 DEF Next
<1>8. CASE BeginStage(q) \/ ResolveTarget(q) \/ ReadStage(q) \/ PlanStage(q)
  <2>1. call[q].pc # "replace" /\ \E c : call' = [call EXCEPT ![q] = c]
    BY <1>8 DEF BeginStage, Begin, Idle, ResolveTarget, ReadStage, PlanStage, Goto
  <2> QED BY <1>4, <2>1
<1>9. CASE BeginWrite(q) \/ Encode(q) \/ WriteFails(q) \/ Return(q)
  <2>1. call[q].pc # "replace" /\ \E c : call' = [call EXCEPT ![q] = c]
    BY <1>9 DEF BeginWrite, Begin, Idle, Encode, WriteFails, Return, Goto
  <2> QED BY <1>4, <2>1
<1>10. CASE BeginLoad(q) \/ Exists(q) \/ FileSize(q) \/ OpenAndRead(q)
  <2>1. call[q].pc # "replace" /\ \E c : call' = [call EXCEPT ![q] = c]
    BY <1>10 DEF BeginLoad, Begin, Idle, Exists, FileSize, OpenAndRead, Loaded, Goto
  <2> QED BY <1>4, <2>1
<1>11. CASE Rename(q)
  <2>1. call[q].pc = "temporary" /\ Written("path", q, Answer("Success"))
    BY <1>11 DEF Rename
  <2>2. q # p
    BY <1>1, <2>1
  <2> QED BY <1>3, <2>1, <2>2
<1>12. CASE Refuse(q)
  <2>1. PICK why \in {"StorageFailure", "RevisionChanged", "UnsupportedPatch"} :
          call' = [call EXCEPT ![q] = Answer(why)]
    BY <1>12 DEF Refuse
  <2>2. q # p => call'[p] = call[p]
    BY <2>1 DEF IInv
  <2>3. q = p => call'[p] = Answer(why)
    BY <2>1 DEF IInv
  <2>4. Answer(why).status \notin Replaced
    BY DEF Answer, Replaced
  <2> QED BY <1>1, <2>2, <2>3, <2>4
<1>13. CASE Replace(q)
  <2>1. PICK status \in Replaced : Written(call[q].at, q, Answer(status))
    BY <1>13 DEF Replace
  <2>2. q = p
    BY <1>3, <2>1
  <2> QED BY <1>13, <2>2
<1> QED BY <1>7, <1>8, <1>9, <1>10, <1>11, <1>12, <1>13

\* What a successful stage leaves, and what it replaces unless it was raced.
LEMMA ReplacesChecked ==
  ASSUME IInv, [Next]_vars, NEW p \in Procs, Replaces(p)
  PROVE  /\ Checked(call[p])
         /\ files'[call[p].at] = call[p].left
<1>1. Replace(p)
  BY AnswerIsReplace
<1>2. Checked(call[p])
  BY <1>1, ShapeOf, ShapeByStep DEF Replace, CallInv
<1> QED BY <1>1, <1>2 DEF Replace, IInv, Checked

\* A stage does not touch a document of a version from the future
\* (appearance_document.cpp:79), unless it is raced after its last check.
THEOREM FutureVersionsAreKept == Spec => UnsupportedIsKept
<1>1. IInv /\ [Next]_vars =>
        [\A p \in Procs :
           LET c == call[p] IN
           (Replaces(p) /\ ~ c.raced) =>
             VersionOf(files[c.at]) \in {Absent, Int64(1), Int64(2)}]_vars
  BY ReplacesChecked DEF Checked
<1> QED BY <1>1, CallsAreWhatTheyRelyOn, PTL DEF Spec, UnsupportedIsKept

\* An upgrade is of the version that was read without the lock
\* (appearance_document.cpp:161).
THEOREM UpgradesAreOfWhatWasSeen == Spec => UpgradesWhatItSaw
<1>1. IInv /\ [Next]_vars =>
        [\A p \in Procs :
           LET c == call[p] IN
           Replaces(p) =>
             /\ files'[c.at][Version] = Int64(2)
             /\ c.raced \/ VersionOf(files[c.at]) \in {c.seen, Int64(2)}]_vars
  BY ReplacesChecked DEF Checked
<1> QED BY <1>1, CallsAreWhatTheyRelyOn, PTL DEF Spec, UpgradesWhatItSaw
=============================================================================
