--------------------------- MODULE DocumentStore ---------------------------
(***************************************************************************)
(* The locked document store of src/src/document_store.cpp: saveDocument,  *)
(* stageDocument and restoreDocument, all of them calls of updateDocument, *)
(* run by any number of cooperating writers against one file system that   *)
(* editors, crashes and power losses may change at any point between two   *)
(* system calls of a writer.                                               *)
(*                                                                         *)
(* A step of a writer is what it does up to the next point where it looks  *)
(* at, or changes, something another actor can touch.                      *)
(***************************************************************************)
EXTENDS DocumentMerge

CONSTANTS
  Procs,     \* writers: processes or threads, each runs one call at a time
  Links,     \* paths that are symbolic links
  Targets,   \* physical paths of configuration files
  Inodes,    \* inode numbers the file system has to give out
  Modes,     \* permission bits
  Private,   \* mode 0600
  Kinds,     \* the operations each writer uses
  Requests,  \* what each writer's user asks for: pending overrides by key
  Hazards,   \* the things that may happen around the writers
  None       \* the absent writer, path, file metadata, handle, ...

Paths     == Links \cup Targets
Meta      == [ino : Inodes, mode : Modes]

\* A temporary file, which stays open until the call returns: what was written
\* to it and what of that has reached the disk.
Temporary == [ino : Inodes, mode : Modes, content : Contents, synced : Contents]

\* What restoreDocument is given: the staged revision, and the previous
\* snapshot with its path.
Handle == [staged : Revisions, previous : Revisions, home : Targets]

Operations == {"save", "stage", "restore"}

Statuses == {"Success", "Conflict", "Invalid", "UnsupportedPatch",
             "StorageFailure", "DurabilityFailure", "RevisionChanged"}

ASSUME StoreAssumption ==
  /\ Links \cap Targets = {}
  /\ Private \in Modes
  /\ Kinds \in [Procs -> SUBSET Operations]
  /\ Requests \in [Procs -> SUBSET UNION {[K -> Override] : K \in SUBSET Keys}]
  /\ Hazards \subseteq {"fault", "crash", "power", "write", "replace", "chmod",
                        "delete", "relink"}
  /\ None \notin Procs \cup Paths \cup Meta \cup Handle \cup Temporary
  /\ None \notin Contents \cup Operations \cup Statuses

VARIABLES
  \* The file system.
  link,     \* where each symbolic link points
  content,  \* what a reader of each physical path finds
  meta,     \* inode and mode of the file there, None when there is no file
  parent,   \* its directory: "none", "new" (not known to survive), "durable"
  stable,   \* what a power loss could leave at the path
  holder,   \* who holds the flock on the path's .lock file
  \* Each writer.
  pc,       \* the step it is at
  call,     \* the arguments and locals of the running call
  result,   \* the status it returns
  handle,   \* what its last stageDocument returned for rollback
  \* History, read by the properties only.
  raced,    \* what changed under a writer after it last checked it
  wrote,    \* whether the running call replaced or removed the file
  before,   \* what the writer's last stageDocument really found and left
  acked     \* what the last acknowledged write left at each path

disk    == <<link, content, meta, parent, stable>>
history == <<raced, wrote, before, acked>>
vars    == <<disk, holder, pc, call, result, handle, history>>

-----------------------------------------------------------------------------

Steps == {"idle", "resolve", "preread", "lock", "locked", "read", "stat",
          "create", "fill", "recheck", "retarget", "remeta", "rename",
          "unlink", "syncdir", "finish"}

\* The steps a writer takes with the lock in hand.
LockedSteps == Steps \ {"idle", "resolve", "preread", "lock", "finish"}

NoEdits == [k \in {} |-> EmptyDoc]

NoCall == [op |-> None, path |-> None, edits |-> NoEdits, target |-> None,
           current |-> None, next |-> None, seen |-> None, temp |-> None]

\* resolveTarget: the physical path behind a path.
Resolve(n) == IF n \in Links THEN link[n] ELSE n

Target(p) == call[p].target

\* What a writer finds at its target.
Found(p) == content[Target(p)]

\* An inode number no file, temporary or not, is using.
Free(i) == /\ \A t \in Targets : meta[t] # None => meta[t].ino # i
           /\ \A p \in Procs : call[p].temp # None => call[p].temp.ino # i

\* Inodes and modes a file system with these contents can have.
Metadata(c) ==
  {m \in [Targets -> Meta \cup {None}] :
     /\ \A t \in Targets : m[t] = None <=> c[t] = Missing
     /\ \A t, u \in Targets :
          m[t] # None /\ m[u] # None /\ t # u => m[t].ino # m[u].ino}

Init ==
  /\ link \in [Links -> Targets]
  /\ content \in [Targets -> Contents]
  /\ meta \in Metadata(content)
  /\ parent \in [Targets -> {"none", "durable"}]
  /\ \A t \in Targets : parent[t] = "none" => content[t] = Missing
  /\ stable = [t \in Targets |-> {content[t]}]
  /\ holder = [t \in Targets |-> None]
  /\ pc = [p \in Procs |-> "idle"]
  /\ call = [p \in Procs |-> NoCall]
  /\ result = [p \in Procs |-> None]
  /\ handle = [p \in Procs |-> None]
  /\ raced = [p \in Procs |-> {}]
  /\ wrote = [p \in Procs |-> FALSE]
  /\ before = [p \in Procs |-> None]
  /\ acked = [t \in Targets |-> None]

At(p, step) == pc' = [pc EXCEPT ![p] = step]

\* Leave updateDocument with this status.
Return(p, status) == /\ At(p, "finish")
                     /\ result' = [result EXCEPT ![p] = status]

\* Go on to a step, or leave with the status when its condition fails.
Check(p, holds, step, status) ==
  \/ holds /\ At(p, step) /\ UNCHANGED result
  \/ ~holds /\ Return(p, status)

-----------------------------------------------------------------------------
(* The calls.  A user edits what was on disk when the call was prepared, so  *)
(* the baselines can be out of date by the time the lock is held.            *)

Begin(p, kind, n, batch) ==
  /\ pc[p] = "idle"
  /\ At(p, "resolve")
  /\ call' = [call EXCEPT ![p] =
       [NoCall EXCEPT !.op = kind, !.path = n, !.edits = batch]]
  /\ UNCHANGED <<disk, holder, result, handle, history>>

BasedOn(doc, wanted) ==
  [k \in DOMAIN wanted |-> [baseline |-> doc[k], pending |-> wanted[k]]]

BeginUpdate(p) ==
  \E n \in Paths, kind \in Kinds[p] \ {"restore"}, wanted \in Requests[p] :
    Begin(p, kind, n, BasedOn(ValuesOf(content[Resolve(n)]), wanted))

BeginRestore(p) ==
  /\ "restore" \in Kinds[p]
  /\ handle[p] # None
  /\ \E n \in Paths : Begin(p, "restore", n, NoEdits)

-----------------------------------------------------------------------------
(* The steps of updateDocument.                                              *)

\* rollbackTargetMatches: the handle was captured from this physical path.
TargetMatchesAlways(p) == TRUE  \* mutant: only the revision guards a rollback

TargetMatches(p) ==
  call[p].op = "restore" => handle[p].home = Resolve(call[p].path)

\* The physical target, before anything is created.
ResolveTarget(p) ==
  /\ pc[p] = "resolve"
  /\ call' = [call EXCEPT ![p].target = Resolve(call[p].path)]
  /\ Check(p, TargetMatches(p), "preread", "RevisionChanged")
  /\ UNCHANGED <<disk, holder, handle, history>>

\* A document that cannot be read is refused before anything is created;
\* otherwise the directory is made.
PreRead(p) ==
  /\ pc[p] = "preread"
  /\ Check(p, Found(p) # Malformed, "lock", "Invalid")
  /\ parent' = IF Found(p) # Malformed /\ parent[Target(p)] = "none"
               THEN [parent EXCEPT ![Target(p)] = "new"] ELSE parent
  /\ UNCHANGED <<link, content, meta, stable, holder, call, handle, history>>

\* flock: blocks while another writer holds the lock of the same target.
CanLockAlways(p) == TRUE  \* mutant: flock never blocks

CanLock(p) == holder[Target(p)] = None

Lock(p) ==
  /\ pc[p] = "lock"
  /\ CanLock(p)
  /\ holder' = [holder EXCEPT ![Target(p)] = p]
  /\ At(p, "locked")
  /\ UNCHANGED <<disk, call, result, handle, history>>

\* The path still leads to the target.
SameTargetAlways(p) == TRUE  \* mutant: a link retargeted meanwhile is missed

SameTarget(p) == Resolve(call[p].path) = Target(p)

\* The path may have been retargeted while the writer waited.
ResolveAgain(p) ==
  /\ pc[p] = "locked"
  /\ Check(p, SameTarget(p), "read", "RevisionChanged")
  /\ UNCHANGED <<disk, holder, call, handle, history>>

\* Mutant: a rollback does not compare the staged revision.
ReadStatusUnstaged(p, c) ==
  IF c = Malformed THEN "Invalid"
  ELSE IF call[p].op = "restore" THEN RestoreStatus(handle[p].previous)
  ELSE PatchStatus(c, call[p].edits)

\* Why the call is turned down on reading c, or "Success".
ReadStatus(p, c) ==
  IF c = Malformed THEN "Invalid"
  ELSE IF call[p].op # "restore" THEN PatchStatus(c, call[p].edits)
  ELSE IF c # handle[p].staged THEN "RevisionChanged"
  ELSE RestoreStatus(handle[p].previous)

\* What the call wants at the target, given what it reads there.
Wanted(p, c) == IF call[p].op = "restore" THEN handle[p].previous
                                          ELSE Merge(c, call[p].edits)

\* Mutant: the revisions are compared, and a missing file is not an empty one.
UnchangedRevision(c, new) == c = new

\* Nothing to replace or remove.
Unchanged(c, new) ==
  IF new = Missing THEN c = Missing ELSE SameBytes(c, new)

\* The call goes on to leave new where it read c.
Plan(p, c, new) == call' = [call EXCEPT ![p].current = c, ![p].next = new]

\* History: what a stage finds at the target and what it leaves there.
Remember(p, was, left) ==
  before' = IF call[p].op # "stage" THEN before
            ELSE [before EXCEPT ![p] =
                    IF "content" \in raced[p] THEN None
                    ELSE [home |-> Target(p), was |-> was, left |-> left]]

\* The read under the lock and the decision it leads to.
ReadCurrent(p) ==
  LET c      == Found(p)
      new    == Wanted(p, c)
      status == ReadStatus(p, c)
  IN
  /\ pc[p] = "read"
  /\ \/ /\ status # "Success"
        /\ Return(p, status)
        /\ UNCHANGED <<call, before>>
     \/ /\ status = "Success" /\ Unchanged(c, new)
        /\ Return(p, "Success")
        /\ Plan(p, c, c)
        /\ Remember(p, c, c)
     \/ /\ status = "Success" /\ ~Unchanged(c, new)
        /\ At(p, IF new = Missing THEN "recheck" ELSE "stat")
        /\ Plan(p, c, new)
        /\ UNCHANGED <<result, before>>
  /\ UNCHANGED <<disk, holder, handle, raced, wrote, acked>>

-----------------------------------------------------------------------------
(* replaceDocument and removeDocument.                                       *)

\* The inode and permissions to preserve.
Stat(p) ==
  LET new == call[p].current = Missing IN
  /\ pc[p] = "stat"
  /\ Check(p, new \/ meta[Target(p)] # None, "create", "StorageFailure")
  /\ call' = [call EXCEPT ![p].seen = IF new THEN None ELSE meta[Target(p)]]
  /\ UNCHANGED <<disk, holder, handle, history>>

\* mkstemp: an empty file of its own, mode 0600.
CreateTemporary(p) ==
  /\ pc[p] = "create"
  /\ \E i \in Inodes :
       /\ Free(i)
       /\ call' = [call EXCEPT ![p].temp =
            [ino |-> i, mode |-> Private, content |-> Malformed,
             synced |-> Malformed]]
  /\ At(p, "fill")
  /\ UNCHANGED <<disk, holder, result, handle, history>>

\* fchmod: the mode the file had, or that of a new file.
ModeOf(p) == IF call[p].seen = None THEN Private ELSE call[p].seen.mode

\* Mutant: no fsync of the temporary file.
FilledUnsynced(p) == [ino |-> call[p].temp.ino, mode |-> ModeOf(p),
                      content |-> call[p].next, synced |-> Malformed]

\* write, fchmod, fsync.
Filled(p) == [ino |-> call[p].temp.ino, mode |-> ModeOf(p),
              content |-> call[p].next, synced |-> call[p].next]

\* Nobody else looks at the temporary file before it is renamed.
FillTemporary(p) ==
  /\ pc[p] = "fill"
  /\ call' = [call EXCEPT ![p].temp = Filled(p)]
  /\ At(p, "recheck")
  /\ UNCHANGED <<disk, holder, result, handle, history>>

\* The exact revision, existence included, is still the one that was read.
SameRevisionAlways(p) == TRUE  \* mutant: the last check is left out

SameRevision(p) == Found(p) = call[p].current

RecheckRevision(p) ==
  /\ pc[p] = "recheck"
  /\ Check(p, SameRevision(p), "retarget", "RevisionChanged")
  /\ UNCHANGED <<disk, holder, call, handle, history>>

RecheckTarget(p) ==
  /\ pc[p] = "retarget"
  /\ Check(p, SameTarget(p),
           IF call[p].next = Missing THEN "unlink" ELSE "remeta",
           "RevisionChanged")
  /\ UNCHANGED <<disk, holder, call, handle, history>>

\* An existing file is still the same inode with the same mode.
SameMetadataAlways(p) == TRUE  \* mutant: a chmod meanwhile is missed

SameMetadata(p) ==
  call[p].current = Missing \/ meta[Target(p)] = call[p].seen

RecheckMetadata(p) ==
  /\ pc[p] = "remeta"
  /\ Check(p, SameMetadata(p), "rename", "RevisionChanged")
  /\ UNCHANGED <<disk, holder, call, handle, history>>

\* The entry at t changes; until the directory is synced a power loss may
\* bring back what it was, or leave what has reached the disk of the new file.
Put(t, new, m, surviving) ==
  /\ content' = [content EXCEPT ![t] = new]
  /\ meta' = [meta EXCEPT ![t] = m]
  /\ stable' = [stable EXCEPT ![t] = @ \cup {surviving}]
  /\ acked' = [acked EXCEPT ![t] = None]
  /\ UNCHANGED <<link, parent, holder, handle>>

Rename(p) ==
  LET file == call[p].temp IN
  /\ pc[p] = "rename"
  /\ Put(Target(p), file.content, [ino |-> file.ino, mode |-> file.mode],
         file.synced)
  /\ wrote' = [wrote EXCEPT ![p] = TRUE]
  /\ Remember(p, Found(p), file.content)
  /\ At(p, "syncdir")
  /\ UNCHANGED <<call, result, raced>>

\* The rollback of a file that did not exist; unlink fails when it is gone.
Unlink(p) ==
  /\ pc[p] = "unlink"
  /\ \/ /\ Found(p) # Missing
        /\ Put(Target(p), Missing, None, Missing)
        /\ wrote' = [wrote EXCEPT ![p] = TRUE]
        /\ At(p, "syncdir")
        /\ UNCHANGED result
     \/ /\ Found(p) = Missing
        /\ Return(p, "StorageFailure")
        /\ UNCHANGED <<disk, holder, handle, wrote, acked>>
  /\ UNCHANGED <<call, raced, before>>

\* What the disk has of what the call put at the target.
Persisted(p) == IF call[p].temp = None THEN Missing ELSE call[p].temp.synced

\* fsync of the directory: the entry the call put there, or removed, can no
\* longer be lost, unless an editor has since changed it or the directory is
\* lost itself.
SyncDirectory(p) ==
  LET t == Target(p)
      new == call[p].next
  IN
  /\ pc[p] = "syncdir"
  /\ stable' = [stable EXCEPT ![t] = {Persisted(p), content[t]}]
  /\ acked' = [acked EXCEPT ![t] = IF content[t] = new THEN new ELSE None]
  /\ Return(p, "Success")
  /\ UNCHANGED <<link, content, meta, parent, holder, call, handle, raced,
                 wrote, before>>

Unreleased(p) == holder  \* mutant: the lock stays with its last holder

Released(p) == [t \in Targets |-> IF holder[t] = p THEN None ELSE holder[t]]

\* The destructors remove what is left of the temporary file and close the
\* lock; nothing of the call outlives it.
Forget(p) ==
  /\ At(p, "idle")
  /\ holder' = Released(p)
  /\ call' = [call EXCEPT ![p] = NoCall]
  /\ result' = [result EXCEPT ![p] = None]
  /\ raced' = [raced EXCEPT ![p] = {}]
  /\ wrote' = [wrote EXCEPT ![p] = FALSE]
  /\ UNCHANGED <<disk, before, acked>>

HandleWith(p, previous) ==
  [staged |-> call[p].next, previous |-> previous, home |-> Target(p)]

\* Mutant: previous is not reset after a failure.
StagedHandleOfAny(p) == HandleWith(p, call[p].current)

\* Mutant: a missing file is captured as an empty one.
StagedHandleOfBytes(p) ==
  IF result[p] \in {"Success", "DurabilityFailure"}
  THEN HandleWith(p, ValuesOf(call[p].current)) ELSE None

\* What stageDocument gives its caller for rollback: the staged revision and
\* the document it was made from, or nothing when the stage failed.
StagedHandle(p) ==
  IF result[p] \in {"Success", "DurabilityFailure"}
  THEN HandleWith(p, call[p].current) ELSE None

Finish(p) ==
  /\ pc[p] = "finish"
  /\ handle' = IF call[p].op = "stage"
               THEN [handle EXCEPT ![p] = StagedHandle(p)] ELSE handle
  /\ Forget(p)

-----------------------------------------------------------------------------
(* What can happen around the writers.                                       *)

StorageStatus == {"StorageFailure"}  \* mutant: the two are not told apart

DurabilityStatus == {"DurabilityFailure"}

\* The statuses a failing system call turns into at each step.
FaultStatus(p) ==
  CASE pc[p] \in {"resolve", "preread", "lock", "read", "create", "fill",
                  "rename", "unlink"} -> {"StorageFailure"}
    [] pc[p] = "stat" /\ call[p].current # Missing -> {"StorageFailure"}
    [] pc[p] = "recheck" /\ call[p].next = Missing ->
         {"StorageFailure", "RevisionChanged"}
    [] pc[p] = "recheck" /\ call[p].next # Missing -> {"RevisionChanged"}
    [] pc[p] \in {"locked", "retarget"} -> {"RevisionChanged"}
    [] pc[p] = "remeta" /\ call[p].current # Missing -> {"RevisionChanged"}
    [] pc[p] = "syncdir" -> DurabilityStatus
    [] OTHER -> {}

Fault(p) ==
  /\ "fault" \in Hazards
  /\ \E status \in FaultStatus(p) : Return(p, status)
  /\ UNCHANGED <<disk, holder, call, handle, history>>

\* A writer dies: the kernel closes its lock and its memory is gone.
Crash(p) ==
  /\ "crash" \in Hazards
  /\ pc[p] # "idle"
  /\ handle' = [handle EXCEPT ![p] = None]
  /\ Forget(p)

\* Every writer dies and each path comes back as one of the contents it could
\* have on the disk; a directory not known to survive may be gone with it.
PowerLoss ==
  /\ "power" \in Hazards
  /\ \E lost \in SUBSET {t \in Targets : parent[t] = "new"} :
       /\ parent' = [t \in Targets |->
            IF t \in lost THEN "none"
            ELSE IF parent[t] = "new" THEN "durable" ELSE parent[t]]
       /\ content' \in {c \in [Targets -> Contents] : \A t \in Targets :
            c[t] \in IF t \in lost THEN {Missing} ELSE stable[t]}
       /\ acked' = [t \in Targets |-> IF t \in lost THEN None ELSE acked[t]]
  /\ meta' \in {m \in Metadata(content') : \A t \in Targets :
       content'[t] = content[t] => m[t] = meta[t]}
  /\ stable' = [t \in Targets |-> {content'[t]}]
  /\ holder' = [t \in Targets |-> None]
  /\ pc' = [p \in Procs |-> "idle"]
  /\ call' = [p \in Procs |-> NoCall]
  /\ result' = [p \in Procs |-> None]
  /\ handle' = [p \in Procs |-> None]
  /\ raced' = [p \in Procs |-> {}]
  /\ wrote' = [p \in Procs |-> FALSE]
  /\ UNCHANGED <<link, before>>

\* History: what changes is what these writers have already checked.
Race(what, writers) ==
  raced' = [p \in Procs |-> IF p \in writers THEN raced[p] \cup {what}
                                              ELSE raced[p]]

\* The writers that are at one of these steps for target t.
Working(t, steps) == {p \in Procs : pc[p] \in steps /\ Target(p) = t}

\* An editor that does not take the lock leaves c, with this metadata, at t.
External(t, c, m) ==
  /\ Put(t, c, m, c)
  /\ Race("content",
          Working(t, {"retarget", "remeta", "rename", "unlink"}))
  /\ UNCHANGED <<pc, call, result, wrote, before>>

\* It opens the file that is there and writes into it.
ExternalWrite(t) ==
  /\ "write" \in Hazards
  /\ meta[t] # None
  /\ \E c \in Contents \ {Missing} : External(t, c, meta[t])

\* It puts a new file in place, with or without one there before.
ExternalReplace(t) ==
  /\ "replace" \in Hazards
  /\ parent[t] # "none"
  /\ \E c \in Contents \ {Missing}, m \in Meta :
       Free(m.ino) /\ External(t, c, m)

ExternalDelete(t) ==
  /\ "delete" \in Hazards
  /\ meta[t] # None
  /\ External(t, Missing, None)

ExternalChmod(t) ==
  /\ "chmod" \in Hazards
  /\ meta[t] # None
  /\ \E m \in Modes \ {meta[t].mode} : meta' = [meta EXCEPT ![t].mode = m]
  /\ Race("meta", Working(t, {"rename"}))
  /\ UNCHANGED <<link, content, parent, stable, holder, pc, call, result,
                 handle, wrote, before, acked>>

\* A symbolic link is pointed somewhere else.
Relink(l) ==
  /\ "relink" \in Hazards
  /\ \E t \in Targets \ {link[l]} : link' = [link EXCEPT ![l] = t]
  /\ Race("link", {p \in Procs : /\ pc[p] \in {"remeta", "rename", "unlink"}
                                 /\ call[p].path = l})
  /\ UNCHANGED <<content, meta, parent, stable, holder, pc, call, result,
                 handle, wrote, before, acked>>

-----------------------------------------------------------------------------

Step(p) ==
  \/ ResolveTarget(p) \/ PreRead(p) \/ Lock(p) \/ ResolveAgain(p)
  \/ ReadCurrent(p) \/ Stat(p) \/ CreateTemporary(p) \/ FillTemporary(p)
  \/ RecheckRevision(p) \/ RecheckTarget(p) \/ RecheckMetadata(p)
  \/ Rename(p) \/ Unlink(p) \/ SyncDirectory(p) \/ Finish(p)

Next ==
  \/ \E p \in Procs : \/ BeginUpdate(p) \/ BeginRestore(p) \/ Step(p)
                      \/ Fault(p) \/ Crash(p)
  \/ \E t \in Targets : \/ ExternalWrite(t) \/ ExternalReplace(t)
                        \/ ExternalDelete(t) \/ ExternalChmod(t)
  \/ \E l \in Links : Relink(l)
  \/ PowerLoss

Spec == Init /\ [][Next]_vars

\* Every writer keeps running, and a lock that comes free again and again is
\* not always given to somebody else.
Fairness == \A p \in Procs : WF_vars(Step(p)) /\ SF_vars(Lock(p))

FairSpec == Spec /\ Fairness

-----------------------------------------------------------------------------
(* Properties.                                                               *)

Call == [op : Operations \cup {None}, path : Paths \cup {None},
         edits : Batches, target : Targets \cup {None},
         current : Revisions \cup {None}, next : Revisions \cup {None},
         seen : Meta \cup {None}, temp : Temporary \cup {None}]

\* Every variable has the values the code can give it.
TypeOK ==
  /\ link \in [Links -> Targets]
  /\ content \in [Targets -> Contents]
  /\ meta \in [Targets -> Meta \cup {None}]
  /\ parent \in [Targets -> {"none", "new", "durable"}]
  /\ stable \in [Targets -> SUBSET Contents]
  /\ holder \in [Targets -> Procs \cup {None}]
  /\ pc \in [Procs -> Steps]
  /\ call \in [Procs -> Call]
  /\ result \in [Procs -> Statuses \cup {None}]
  /\ handle \in [Procs -> Handle \cup {None}]
  /\ raced \in [Procs -> SUBSET {"content", "meta", "link"}]
  /\ wrote \in [Procs -> BOOLEAN]
  /\ before \in [Procs -> [home : Targets, was : Contents, left : Contents]
                            \cup {None}]
  /\ acked \in [Targets -> Contents \cup {None}]

\* This step of p replaces or removes the file.
Commits(p) == ~wrote[p] /\ wrote'[p]

\* Two writers past flock are at work on different physical files, whatever
\* links they came through and wherever those have been pointed since.
LockExclusion ==
  \A p, q \in Procs :
    p # q /\ pc[p] \in LockedSteps /\ pc[q] \in LockedSteps
      => Target(p) # Target(q)

\* A save or stage that replaces the file gives every key it edits the pending
\* override and keeps all the others as they are in the very document it
\* replaces, where each edited key still was as the user saw it or as the user
\* wants it; unless an editor got in after the last check of the revision.
NoLostUpdate ==
  [][\A p \in Procs :
       Commits(p) /\ call[p].op # "restore" /\ "content" \notin raced[p]
       => LET was == ValuesOf(Found(p))
              now == content'[Target(p)]
              batch == call[p].edits
          IN /\ now \in Valid \ {Missing}
             /\ \A k \in DOMAIN batch :
                  /\ was[k] \in {batch[k].baseline, batch[k].pending}
                  /\ now[k] = batch[k].pending
             /\ \A k \in Keys \ DOMAIN batch : now[k] = was[k]]_vars

\* A rollback that writes puts back, at the same physical file, exactly what
\* its stage really overwrote, and overwrites nothing but what it left there.
RollbackUndoesStage ==
  [][\A p \in Procs :
       /\ Commits(p)
       /\ call[p].op = "restore"
       /\ "content" \notin raced[p]
       /\ before[p] # None
       => /\ Target(p) = before[p].home
          /\ Found(p) = before[p].left
          /\ content'[Target(p)] = before[p].was]_vars

\* A file that is replaced keeps its permissions and a new one is private,
\* unless an editor changed them after they were last checked.
PermissionsPreserved ==
  [][\A p \in Procs :
       Commits(p) /\ raced[p] = {} /\ content'[Target(p)] # Missing
       => meta'[Target(p)].mode = IF Found(p) = Missing
                                  THEN Private
                                  ELSE meta[Target(p)].mode]_vars

\* The file written is the one the path leads to at that moment, unless the
\* link was pointed elsewhere after it was last checked.
WriteFollowsLink ==
  [][\A p \in Procs :
       Commits(p) /\ "link" \notin raced[p]
       => Resolve(call[p].path) = Target(p)]_vars

\* Callers can tell from the status whether the document was written: a
\* StorageFailure or a refusal left it alone, a DurabilityFailure did not, and
\* a Success that wrote nothing found the requested bytes already there.
StatusTellsTheTruth ==
  \A p \in Procs : pc[p] = "finish" =>
    IF wrote[p] THEN result[p] \in {"Success", "DurabilityFailure"}
    ELSE /\ result[p] # "DurabilityFailure"
         /\ result[p] = "Success" => SameBytes(call[p].current, call[p].next)

\* A document whose replacement was answered with Success is what its path
\* holds until someone changes it, power losses included; only the loss of a
\* directory the call itself had to make can take the document with it.
AckedSurvives ==
  \A t \in Targets : acked[t] # None => content[t] = acked[t]

\* A file is replaced by other bytes only: a call whose edits somebody has
\* already made, an earlier try of it included, or one that resets what a
\* missing file does not have, leaves the file and its inode alone and creates
\* none; unless an editor got in after the last check of the revision.
NothingIsRewritten ==
  [][\A p \in Procs :
       /\ Commits(p)
       /\ "content" \notin raced[p]
       /\ content'[Target(p)] # Missing
       => ~SameBytes(Found(p), content'[Target(p)])]_vars

\* Who waits for flock waits for a call that is at work on the same physical
\* file and waits for nobody itself: never for its own descriptor, for a call
\* that has returned, failed or died, or for one that went to another file.
NobodyWaitsInVain ==
  \A p \in Procs : pc[p] = "lock" /\ holder[Target(p)] # None =>
    \E q \in Procs \ {p} : /\ holder[Target(p)] = q
                           /\ Target(q) = Target(p)
                           /\ pc[q] \in LockedSteps \cup {"finish"}

\* Every call comes to an end, however the writers contend for the lock.
EveryCallReturns == \A p \in Procs : pc[p] # "idle" ~> pc[p] = "idle"

\* README.md, of a rollback whose staged revision is no longer current:
\* "Otherwise it returns `RevisionChanged` and preserves the external
\* document."
RefusalIsRevisionChanged ==
  [][\A p \in Procs :
       /\ call[p].op = "restore"
       /\ pc[p] \in {"preread", "read"}
       /\ pc'[p] = "finish"
       /\ Found(p) # handle[p].staged
       => result'[p] = "RevisionChanged"]_vars

=============================================================================
