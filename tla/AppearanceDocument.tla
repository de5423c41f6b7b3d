-------------------------- MODULE AppearanceDocument --------------------------
(***************************************************************************)
(* Clients of one appearance path: stageAppearanceDocument, which edits    *)
(* whatever version it finds under the lock of the document store, the     *)
(* older writeAtomically, which replaces the path without that lock, and   *)
(* load, which looks at the file three times; and editors.                 *)
(*                                                                         *)
(* DocumentStore is taken at its word: from its read under the lock to its *)
(* last check nothing changed, or nothing is written.  That read is PlanStage, *)
(* the write after the last check is Replace.  What the locked merge       *)
(* answers is DocumentMerge.                                               *)
(***************************************************************************)
EXTENDS AppearanceCodec

CONSTANTS
  Procs,        \* clients
  None,         \* no client
  Kinds,        \* what each client calls: "stage", "write", "load"
  Initial,      \* documents that can be there at first
  Staged,       \* edits: baseline and pending node by key
  Appearances,  \* what is written atomically
  Edited,       \* what editors leave, Missing when they delete the file
  MaxCalls,     \* bound: calls of each client
  MaxChanges    \* bound: changes by editors

ASSUME AppearanceAssumption ==
  /\ MaxCalls \in Nat /\ MaxChanges \in Nat
  /\ None \notin Procs
  /\ Appearances \subseteq AppearanceType

VARIABLES
  files,    \* the documents at the path itself and at the target of a link there
  leads,    \* which of them the path leads to
  owner,    \* who holds the lock of each
  call,     \* the call of each client
  calls,    \* calls each client has made
  changes,  \* changes editors have made
  meant     \* history: the appearance the last writer meant each document to have

vars == <<files, leads, owner, call, calls, changes, meant>>

Places == {"path", "target"}
Idle   == [kind |-> "none", pc |-> "idle"]

D == INSTANCE DocumentMerge WITH
       Values    <- Nodes,
       NoValue   <- Absent,
       Detached  <- {},
       Documents <- [Keys -> Nodes \cup {Absent}],
       Valid     <- {doc \in [Keys -> Nodes \cup {Absent}] \cup {Missing} : Accepted(doc)}

-----------------------------------------------------------------------------
(* Steps *)

Init ==
  /\ files \in [Places -> Initial]
  /\ leads \in Places
  /\ \A t \in Places \ {leads} : files[t] = Missing
  /\ owner = [t \in Places |-> None]
  /\ call = [p \in Procs |-> Idle]
  /\ calls = [p \in Procs |-> 0]
  /\ changes = 0
  /\ meant = [t \in Places |-> Absent]

Begin(p, c) ==
  /\ call[p] = Idle
  /\ calls[p] < MaxCalls
  /\ c.kind \in Kinds[p]
  /\ call' = [call EXCEPT ![p] = c]
  /\ calls' = [calls EXCEPT ![p] = @ + 1]
  /\ UNCHANGED <<files, leads, owner, changes, meant>>

\* A step of p that changes nothing but its call.
Goto(p, c) ==
  /\ call' = [call EXCEPT ![p] = c]
  /\ UNCHANGED <<files, leads, owner, calls, changes, meant>>

Answer(status) == [kind |-> "none", pc |-> "done", status |-> status]

\* What a new document in a place is to another client's call: a load can see
\* it, a stage is past the check that would have.
Noticed(c, place) ==
  IF c.kind = "load" THEN [c EXCEPT !.looks = @ \cup {files'[leads']}]
  ELSE IF c.pc = "replace"
       THEN [c EXCEPT !.raced = @ \/ c.at = place \/ c.at # leads'] ELSE c

Written(place, p, c) ==
  call' = [q \in Procs |-> IF q = p THEN c ELSE Noticed(call[q], place)]

Return(p) == call[p].pc = "done" /\ Goto(p, Idle)

-----------------------------------------------------------------------------
(* stageAppearanceDocument *)

BeginStage(p) ==
  \E batch \in Staged : Begin(p, [kind |-> "stage", pc |-> "resolve", batch |-> batch])

\* resolveDocumentTarget, before the lock.
ResolveTarget(p) ==
  /\ call[p].pc = "resolve"
  /\ Goto(p, [kind |-> "stage", pc |-> "read", batch |-> call[p].batch, at |-> leads])

\* Mutant: the version is left as it is.
WithoutVersion(batch, seen) == batch

\* The reserved edit; it is based on the version that was read.
WithVersion(batch, seen) ==
  [k \in DOMAIN batch \cup {Version} |->
     IF k = Version THEN [baseline |-> seen, pending |-> Int64(2)] ELSE batch[k]]

VersionOf(doc) == IF doc = Missing THEN Absent ELSE doc[Version]

\* readAppearanceDocument, before the lock too.
ReadStage(p) ==
  /\ call[p].pc = "read"
  /\ LET c   == call[p]
         doc == files[c.at]
     IN IF Decode(doc) = Failed \/ Version \in DOMAIN c.batch
        THEN Goto(p, Answer("Invalid"))
        ELSE Goto(p, [kind |-> "stage", pc |-> "plan", seen |-> VersionOf(doc),
                      batch |-> WithVersion(c.batch, VersionOf(doc))])

\* stageDocument, to its last check: the path is resolved again, and the
\* document there is merged under the lock.
PlanStage(p) ==
  /\ call[p].pc = "plan"
  /\ owner[leads] = None
  /\ LET c      == call[p]
         doc    == files[leads]
         left   == D!Merge(doc, c.batch)
         status == D!PatchStatus(doc, c.batch)
     IN IF status # "Success" \/ D!SameBytes(doc, left)
        THEN Goto(p, Answer(status))
        ELSE /\ call' = [call EXCEPT ![p] =
                           [kind |-> "stage", pc |-> "replace", seen |-> c.seen,
                            batch |-> c.batch, at |-> leads, found |-> doc,
                            left |-> left, raced |-> FALSE]]
             /\ owner' = [owner EXCEPT ![leads] = p]
             /\ UNCHANGED <<files, leads, calls, changes, meant>>

\* Mutant: the lock is kept.
Kept(p) == owner

Released(p) == [t \in Places |-> IF owner[t] = p THEN None ELSE owner[t]]

\* The appearance that was found, with the edits; a reset is a default.
Intended(doc, batch) ==
  LET was == Decode(doc) IN
  [k \in Fields \cup {Version} |->
     IF k = Version \/ k \notin DOMAIN batch THEN was[k]
     ELSE IF batch[k].pending = Absent THEN Defaults[k]
     ELSE Trimmed(k, Converted(k, batch[k].pending))]

\* DurabilityFailure: the document is replaced, but its directory not synced.
Replaced == {"Success", "DurabilityFailure"}

Replace(p) ==
  /\ call[p].pc = "replace"
  /\ UNCHANGED <<leads, calls, changes>>
  /\ LET c == call[p]
     IN /\ files' = [files EXCEPT ![c.at] = c.left]
        /\ meant' = [meant EXCEPT ![c.at] = Intended(c.found, c.batch)]
        /\ \E status \in Replaced : Written(c.at, p, Answer(status))
  /\ owner' = Released(p)

\* Storage fails, a check finds a change, or the layout of the document does
\* not take the patch.
Refuse(p) ==
  /\ call[p].pc \in {"resolve", "read", "plan", "replace"}
  /\ \E why \in {"StorageFailure", "RevisionChanged", "UnsupportedPatch"} :
       /\ why = "StorageFailure" \/ call[p].pc \in {"plan", "replace"}
       /\ call' = [call EXCEPT ![p] = Answer(why)]
  /\ owner' = Released(p)
  /\ UNCHANGED <<files, leads, calls, changes, meant>>

-----------------------------------------------------------------------------
(* writeAtomically *)

BeginWrite(p) ==
  \E a \in Appearances : Begin(p, [kind |-> "write", pc |-> "encode", appearance |-> a])

Encode(p) ==
  /\ call[p].pc = "encode"
  /\ LET bytes == Serialize(call[p].appearance) IN
     Goto(p, IF bytes = Failed THEN Answer("ValidationError")
             ELSE [kind |-> "write", pc |-> "temporary",
                   appearance |-> call[p].appearance, bytes |-> bytes])

\* rename(2) puts the temporary file in the place of the path, a link included.
Rename(p) ==
  /\ call[p].pc = "temporary"
  /\ files' = [files EXCEPT !["path"] = call[p].bytes]
  /\ leads' = "path"
  /\ meant' = [meant EXCEPT !["path"] = Normalized(call[p].appearance)]
  /\ Written("path", p, Answer("Success"))
  /\ UNCHANGED <<owner, calls, changes>>

\* The directory, the temporary file or its rename fails; the file is removed.
WriteFails(p) ==
  /\ call[p].pc = "temporary"
  /\ Goto(p, Answer("AtomicWriteError"))

-----------------------------------------------------------------------------
(* load *)

BeginLoad(p) ==
  Begin(p, [kind |-> "load", pc |-> "exists", looks |-> {files[leads]}])

Loaded(p, status, appearance) ==
  Goto(p, [kind |-> "load", pc |-> "done", looks |-> call[p].looks,
           status |-> status, appearance |-> appearance])

Exists(p) ==
  /\ call[p].pc = "exists"
  /\ IF files[leads] = Missing THEN Loaded(p, "Default", Defaults)
                               ELSE Goto(p, [call[p] EXCEPT !.pc = "size"])

FileSize(p) ==
  /\ call[p].pc = "size"
  /\ \/ files[leads] = Missing /\ Loaded(p, "IoError", Absent)
     \/ files[leads] = Malformed /\ Loaded(p, "Invalid", Absent)
     \/ files[leads] # Missing /\ Goto(p, [call[p] EXCEPT !.pc = "open"])

\* Mutant: a file that is gone is read as an empty one.
OpenedEmpty(doc) == TRUE

Opened(doc) == doc # Missing

\* What the stream gives; half of what an editor writes is one more document.
Contents(doc) == IF doc = Missing THEN [k \in Keys |-> Absent] ELSE doc

OpenAndRead(p) ==
  /\ call[p].pc = "open"
  /\ LET doc == files[leads]
         got == Decode(Contents(doc))
     IN IF ~ Opened(doc) THEN Loaded(p, "IoError", Absent)
        ELSE IF got = Failed THEN Loaded(p, "Invalid", Absent)
        ELSE Loaded(p, "File", got)

-----------------------------------------------------------------------------
(* Editors, who take no lock *)

Editor ==
  /\ changes < MaxChanges
  /\ changes' = changes + 1
  /\ UNCHANGED <<leads, owner, calls>>
  /\ \E doc \in Edited : files' = [files EXCEPT ![leads] = doc]
  /\ Written(leads, None, Idle)
  /\ meant' = [meant EXCEPT ![leads] = Absent]

Next ==
  \/ \E p \in Procs :
       \/ BeginStage(p) \/ ResolveTarget(p) \/ ReadStage(p) \/ PlanStage(p)
       \/ Replace(p) \/ Refuse(p)
       \/ BeginWrite(p) \/ Encode(p) \/ Rename(p) \/ WriteFails(p)
       \/ BeginLoad(p) \/ Exists(p) \/ FileSize(p) \/ OpenAndRead(p)
       \/ Return(p)
  \/ Editor

Spec == Init /\ [][Next]_vars

-----------------------------------------------------------------------------
(* Properties *)

\* The lock of a place belongs to the one stage that is about to write there,
\* and only a stage holds one: no early return of stageAppearanceDocument
\* keeps it (document_store.cpp:267).
TypeOK ==
  /\ leads \in Places
  /\ \A t \in Places :
       {p \in Procs : call[p].pc = "replace" /\ call[p].at = t}
         = (IF owner[t] = None THEN {} ELSE {owner[t]})

\* A document the library wrote last decodes to the appearance its writer
\* meant: writeAtomically to the value it was given, a stage to the appearance
\* it found with its own edits, whatever the version it found and although
\* everything else about a version 1 document changes meaning in version 2.
StandsForWhatWasMeant ==
  \A t \in Places : meant[t] # Absent => Decode(files[t]) = meant[t]

\* The step in which a stage answers that it replaced a document.
Replaces(p) ==
  call[p].pc = "replace" /\ call'[p].pc = "done" /\ call'[p].status \in Replaced

\* A stage that no editor or writeAtomically raced never replaces a document of
\* a version the library does not know
\* (README.md:118), although writers of later versions come between its reads.
UnsupportedIsKept ==
  [][\A p \in Procs :
       LET c == call[p] IN
       (Replaces(p) /\ ~ c.raced) =>
         VersionOf(files[c.at]) \in {Absent, Int64(1), Int64(2)}]_vars

\* A stage leaves version 2, and upgrades only what it read as version 1 before
\* it had the lock: a document that writeAtomically took back to version 1
\* meanwhile is a conflict, one that another stage upgraded is not.
UpgradesWhatItSaw ==
  [][\A p \in Procs :
       LET c == call[p] IN
       Replaces(p) =>
         /\ files'[c.at][Version] = Int64(2)
         /\ c.raced \/ VersionOf(files[c.at]) \in {c.seen, Int64(2)}]_vars

\* The three looks of a load answer as one: the appearance of a document that
\* was there whole, a failure only for one that does not decode, defaults or
\* IoError only if the file was gone for a moment.
LoadIsOneLook ==
  \A p \in Procs :
    LET c == call[p] IN
    (c.kind = "load" /\ c.pc = "done") =>
      \E doc \in c.looks :
        /\ c.status = "File" => doc # Missing /\ c.appearance = Decode(doc)
        /\ c.status = "Invalid" => Decode(doc) = Failed
        /\ c.status \in {"Default", "IoError"} => doc = Missing
=============================================================================
