------------------------ MODULE DocumentStoreProofs ------------------------
(***************************************************************************)
(* Theorems about DocumentStore for any number of writers, paths and       *)
(* documents, any schema and any combination of hazards.                   *)
(***************************************************************************)
EXTENDS DocumentStore, TLAPS

\* What each step may rely on in the locals of its call.
LocalOK(p) ==
  /\ pc[p] # "idle" => call[p].path \in Paths
  /\ pc[p] \in Steps \ {"idle", "resolve", "finish"} => Target(p) \in Targets
  /\ call[p].op = "restore" => handle[p] # None
  /\ pc[p] \in LockedSteps \ {"locked", "read"}
       => call[p].current \in Revisions /\ call[p].next \in Revisions
  /\ \/ pc[p] \in {"fill", "remeta", "rename"}
     \/ pc[p] \in {"recheck", "retarget"} /\ call[p].next # Missing
     => call[p].temp # None
  /\ pc[p] = "finish" /\ result[p] \in {"Success", "DurabilityFailure"}
       => /\ Target(p) \in Targets
          /\ call[p].current \in Revisions
          /\ call[p].next \in Revisions

TypeInv == TypeOK /\ \A p \in Procs : LocalOK(p)

\* The other writers neither move nor change.
OthersStay(p) ==
  \A q \in Procs \ {p} : /\ pc'[q] = pc[q]
                         /\ call'[q] = call[q]
                         /\ result'[q] = result[q]
                         /\ handle'[q] = handle[q]
                         /\ raced'[q] = raced[q]
                         /\ wrote'[q] = wrote[q]
                         /\ before'[q] = before[q]

\* Nobody else's lock is released, no link is moved, and no file but the target
\* is written, and that only by rename and unlink.
KeepsToItself(p) ==
  /\ OthersStay(p)
  /\ \A t \in Targets : holder[t] \notin {None, p} => holder'[t] = holder[t]
  /\ \A t \in Targets : content'[t] # content[t] \/ meta'[t] # meta[t]
                          => pc[p] \in {"rename", "unlink"} /\ t = Target(p)
  /\ wrote'[p] /\ ~wrote[p] => pc[p] \in {"rename", "unlink"}
  /\ link' = link

\* A writer past flock has just come through it or keeps its target and lock.
KeepsLock(p) ==
  \/ pc'[p] \notin LockedSteps
  \/ Lock(p)
  \/ /\ pc[p] \in LockedSteps
     /\ call'[p].target = call[p].target
     /\ holder' = holder

\* A writer past flock holds the lock of its target.
LockInv ==
  \A p \in Procs : pc[p] \in LockedSteps => holder[Target(p)] = p

\* Between its last check of the revision and its write, a writer finds what it
\* read under the lock, unless an editor got in.
WindowInv ==
  \A p \in Procs :
    pc[p] \in {"retarget", "remeta", "rename", "unlink"}
      /\ "content" \notin raced[p] => Found(p) = call[p].current

\* What a writer is about to put at its target is what its edits make of what
\* it read there, and something else than that.
PlanOK(p) ==
  /\ pc[p] \in LockedSteps \ {"locked", "read"} /\ call[p].op # "restore"
       => /\ PatchStatus(call[p].current, call[p].edits) = "Success"
          /\ call[p].next = Merge(call[p].current, call[p].edits)
  /\ pc[p] \in LockedSteps \ {"locked", "read"}
       => ~Unchanged(call[p].current, call[p].next)
  /\ \/ pc[p] \in {"remeta", "rename"}
     \/ pc[p] \in {"recheck", "retarget"} /\ call[p].next # Missing
     => call[p].temp.content = call[p].next
  /\ pc[p] = "unlink" => call[p].next = Missing

StoreInv == /\ TypeInv
            /\ LockInv
            /\ WindowInv
            /\ \A p \in Procs : PlanOK(p)

-----------------------------------------------------------------------------
(* The document model.                                                       *)

\* A document has an override, or none, for every key.
LEMMA ValuesType ==
  ASSUME NEW c
  PROVE  ValuesOf(c) \in [Keys -> Override]
BY MergeAssumption DEF ValuesOf, EmptyDoc, Override

\* patchDocument returns one of its statuses.
LEMMA PatchStatusType ==
  ASSUME NEW c, NEW batch
  PROVE  PatchStatus(c, batch) \in Statuses \ {"DurabilityFailure"}
BY DEF PatchStatus, Statuses

\* A patch that succeeds met no conflict and has a document the schema accepts
\* as its candidate.
LEMMA PatchSuccess ==
  ASSUME NEW c, NEW batch, PatchStatus(c, batch) = "Success"
  PROVE  /\ Conflicts(c, batch) = {}
         /\ Merge(c, batch) \in Documents
         /\ Merge(c, batch) \in Valid
BY DEF PatchStatus

\* A batch based on a document is a batch.
LEMMA BasedOnType ==
  ASSUME NEW doc \in [Keys -> Override],
         NEW p \in Procs, NEW wanted \in Requests[p]
  PROVE  BasedOn(doc, wanted) \in Batches
<1>1. PICK K \in SUBSET Keys : wanted \in [K -> Override]
  BY StoreAssumption
<1>2. BasedOn(doc, wanted) \in [K -> Edit]
  BY <1>1 DEF BasedOn, Edit
<1> QED
  BY <1>2 DEF Batches

\* A restore, which edits nothing, has a batch too.
LEMMA NoEditsType == NoEdits \in Batches
<1>1. NoEdits \in [{} -> Edit]
  BY DEF NoEdits
<1> QED
  BY <1>1 DEF Batches

\* A writer between two calls has locals of the right type.
LEMMA NoCallType == NoCall \in Call
BY NoEditsType DEF NoCall, Call

\* A local that is assigned a value of its kind leaves the others alone.
LEMMA CallFields ==
  ASSUME NEW c \in Call
  PROVE  /\ \A x \in Targets \cup {None} : [c EXCEPT !.target = x] \in Call
         /\ \A x, y \in Revisions :
              [c EXCEPT !.current = x, !.next = y] \in Call
         /\ \A x \in Meta \cup {None} : [c EXCEPT !.seen = x] \in Call
         /\ \A x \in Temporary \cup {None} : [c EXCEPT !.temp = x] \in Call
BY DEF Call

-----------------------------------------------------------------------------
(* Types.                                                                    *)

\* No call is running at first, so no step relies on any local.
LEMMA TypeInit == Init => TypeInv
<1> SUFFICES ASSUME Init PROVE TypeInv
  OBVIOUS
<1>1. TypeOK
  BY NoCallType DEF Init, TypeOK, Metadata, Steps
<1>2. ASSUME NEW p \in Procs PROVE LocalOK(p)
  BY StoreAssumption DEF Init, LocalOK, LockedSteps, NoCall, Steps, Operations,
     Statuses
<1> QED
  BY <1>1, <1>2 DEF TypeInv

\* A writer disturbs the others by what it does to the target only.
LEMMA WriterKeepsToItself ==
  ASSUME TypeOK, NEW p \in Procs, Step(p) \/ BeginUpdate(p) \/ BeginRestore(p)
                                  \/ Fault(p) \/ Crash(p)
  PROVE  KeepsToItself(p)
<1> USE DEF TypeOK, KeepsToItself, OthersStay, At, Return, Check, Put, disk,
        history
<1>1. CASE ResolveTarget(p)
  BY <1>1 DEF ResolveTarget
<1>2. CASE PreRead(p)
  BY <1>2 DEF PreRead
<1>3. CASE Lock(p)
  BY <1>3 DEF Lock, CanLock
<1>4. CASE ResolveAgain(p)
  BY <1>4 DEF ResolveAgain
<1>5. CASE ReadCurrent(p)
  BY <1>5 DEF ReadCurrent, Plan, Remember
<1>6. CASE Stat(p)
  BY <1>6 DEF Stat
<1>7. CASE CreateTemporary(p)
  BY <1>7 DEF CreateTemporary
<1>8. CASE FillTemporary(p)
  BY <1>8 DEF FillTemporary
<1>9. CASE RecheckRevision(p)
  BY <1>9 DEF RecheckRevision
<1>10. CASE RecheckTarget(p)
  BY <1>10 DEF RecheckTarget
<1>11. CASE RecheckMetadata(p)
  BY <1>11 DEF RecheckMetadata
<1>12. CASE Rename(p)
  BY <1>12 DEF Rename, Remember
<1>13. CASE Unlink(p)
  BY <1>13 DEF Unlink
<1>14. CASE SyncDirectory(p)
  BY <1>14 DEF SyncDirectory
<1>15. CASE Finish(p)
  BY <1>15 DEF Finish, Forget, Released
<1>16. CASE BeginUpdate(p)
  BY <1>16 DEF BeginUpdate, Begin
<1>17. CASE BeginRestore(p)
  BY <1>17 DEF BeginRestore, Begin
<1>18. CASE Fault(p)
  BY <1>18 DEF Fault
<1>19. CASE Crash(p)
  BY <1>19 DEF Crash, Forget, Released
<1> QED
  BY <1>1, <1>2, <1>3, <1>4, <1>5, <1>6, <1>7, <1>8, <1>9, <1>10, <1>11,
     <1>12, <1>13, <1>14, <1>15, <1>16, <1>17, <1>18, <1>19 DEF Step

\* A writer that is past flock and goes on keeps its target and its lock.
LEMMA WriterKeepsLock ==
  ASSUME TypeOK, NEW p \in Procs, Step(p) \/ BeginUpdate(p) \/ BeginRestore(p)
                                  \/ Fault(p) \/ Crash(p)
  PROVE  KeepsLock(p)
<1> pc \in [Procs -> Steps]
  BY DEF TypeOK
<1> USE DEF KeepsLock, At, Return, Check, LockedSteps, Steps
<1>1. CASE ResolveTarget(p)
  BY <1>1 DEF ResolveTarget
<1>2. CASE PreRead(p)
  BY <1>2 DEF PreRead
<1>3. CASE Lock(p)
  BY <1>3
<1>4. CASE ResolveAgain(p)
  BY <1>4 DEF ResolveAgain
<1>5. CASE ReadCurrent(p)
  BY <1>5 DEF ReadCurrent, Plan, TypeOK, Call
<1>6. CASE Stat(p)
  BY <1>6 DEF Stat, TypeOK, Call
<1>7. CASE CreateTemporary(p)
  BY <1>7 DEF CreateTemporary, TypeOK, Call
<1>8. CASE FillTemporary(p)
  BY <1>8 DEF FillTemporary, TypeOK, Call
<1>9. CASE RecheckRevision(p)
  BY <1>9 DEF RecheckRevision
<1>10. CASE RecheckTarget(p)
  BY <1>10 DEF RecheckTarget
<1>11. CASE RecheckMetadata(p)
  BY <1>11 DEF RecheckMetadata
<1>12. CASE Rename(p)
  BY <1>12 DEF Rename, Put
<1>13. CASE Unlink(p)
  BY <1>13 DEF Unlink, Put, disk
<1>14. CASE SyncDirectory(p)
  BY <1>14 DEF SyncDirectory
<1>15. CASE Finish(p)
  BY <1>15 DEF Finish, Forget
<1>16. CASE BeginUpdate(p)
  BY <1>16 DEF BeginUpdate, Begin
<1>17. CASE BeginRestore(p)
  BY <1>17 DEF BeginRestore, Begin
<1>18. CASE Fault(p)
  BY <1>18 DEF Fault
<1>19. CASE Crash(p)
  BY <1>19 DEF Crash, Forget
<1> QED
  BY <1>1, <1>2, <1>3, <1>4, <1>5, <1>6, <1>7, <1>8, <1>9, <1>10, <1>11,
     <1>12, <1>13, <1>14, <1>15, <1>16, <1>17, <1>18, <1>19 DEF Step

\* The locals of writers that stay are as good as they were.
LEMMA LocalsStay ==
  ASSUME TypeInv, NEW p \in Procs, OthersStay(p), LocalOK(p)'
  PROVE  \A q \in Procs : LocalOK(q)'
BY DEF TypeInv, OthersStay, LocalOK, Target

\* A changed directory entry is of the right type.
LEMMA PutTypes ==
  ASSUME TypeOK, NEW t \in Targets, NEW new \in Contents,
         NEW m \in Meta \cup {None}, NEW surviving \in Contents,
         Put(t, new, m, surviving)
  PROVE  /\ link' \in [Links -> Targets]
         /\ content' \in [Targets -> Contents]
         /\ meta' \in [Targets -> Meta \cup {None}]
         /\ parent' \in [Targets -> {"none", "new", "durable"}]
         /\ stable' \in [Targets -> SUBSET Contents]
         /\ holder' \in [Targets -> Procs \cup {None}]
         /\ handle' \in [Procs -> Handle \cup {None}]
         /\ acked' \in [Targets -> Contents \cup {None}]
<1>1. stable' \in [Targets -> SUBSET Contents]
  <2>1. stable[t] \cup {surviving} \in SUBSET Contents
    BY DEF TypeOK
  <2> QED
    BY <2>1 DEF TypeOK, Put
<1>2. content' \in [Targets -> Contents] /\ meta' \in [Targets -> Meta \cup {None}]
  BY DEF TypeOK, Put
<1>3. acked' \in [Targets -> Contents \cup {None}]
  BY DEF TypeOK, Put
<1> QED
  BY <1>1, <1>2, <1>3 DEF TypeOK, Put

\* A call begins with locals that say so.
LEMMA BeginTypes ==
  ASSUME TypeInv, NEW p \in Procs, NEW kind \in Operations, NEW n \in Paths,
         NEW batch \in Batches, kind = "restore" => handle[p] # None,
         Begin(p, kind, n, batch)
  PROVE  TypeOK' /\ LocalOK(p)'
<1> DEFINE c == [NoCall EXCEPT !.op = kind, !.path = n, !.edits = batch]
<1>1. c \in Call /\ c.path = n /\ c.op = kind
  BY NoCallType DEF NoCall, Call
<1>2. TypeOK'
  BY <1>1 DEF TypeInv, TypeOK, Begin, At, Steps, disk, history
<1>3. LocalOK(p)'
  BY <1>1 DEF TypeInv, TypeOK, LocalOK, Begin, At, Steps, LockedSteps, disk,
     history, Target, Call
<1> QED
  BY <1>2, <1>3

\* A finished or abandoned call leaves no locals.
LEMMA ForgetTypes ==
  ASSUME TypeInv, NEW p \in Procs, Forget(p),
         handle' \in [Procs -> Handle \cup {None}]
  PROVE  TypeOK' /\ LocalOK(p)'
<1>1. TypeOK'
  BY NoCallType DEF TypeInv, TypeOK, Forget, At, Released, Steps, disk
<1>2. LocalOK(p)'
  BY StoreAssumption DEF TypeInv, TypeOK, LocalOK, Forget, At, Steps,
     LockedSteps, disk, Target, NoCall, Operations
<1> QED
  BY <1>1, <1>2

\* Every step of a writer keeps the types.
LEMMA StepTypes ==
  ASSUME TypeInv, NEW p \in Procs, Step(p)
  PROVE  TypeOK' /\ LocalOK(p)'
<1> USE DEF At, Return, Check, disk, history
<1> TypeOK /\ LocalOK(p) /\ call \in [Procs -> Call] /\ call[p] \in Call
  BY DEF TypeInv, TypeOK
<1>1. CASE ResolveTarget(p)
  <2> DEFINE r == Resolve(call[p].path)
  <2>1. call[p].path \in Paths /\ r \in Targets
    BY <1>1 DEF ResolveTarget, LocalOK, TypeOK, Resolve, Paths, Steps
  <2>assigned. call' = [call EXCEPT ![p].target = r]
    BY <1>1 DEF ResolveTarget
  <2>2. call' \in [Procs -> Call]
    BY <2>1, <2>assigned, CallFields
  <2>fields. /\ call'[p].path = call[p].path
        /\ call'[p].op = call[p].op
        /\ call'[p].target = r
    BY <2>assigned DEF Call
  <2>3. TypeOK'
    BY <1>1, <2>2 DEF ResolveTarget, TypeOK, Steps, Statuses
  <2>4. \/ pc'[p] = "preread"
        \/ pc'[p] = "finish" /\ result'[p] = "RevisionChanged"
    BY <1>1 DEF ResolveTarget, TypeOK
  <2>5. LocalOK(p)'
    BY <1>1, <2>1, <2>fields, <2>4
    DEF ResolveTarget, LocalOK, Steps, LockedSteps, Target
  <2> QED
    BY <2>3, <2>5
<1>2. CASE PreRead(p)
  <2>1. TypeOK'
    BY <1>2 DEF PreRead, TypeOK, Steps, Statuses
  <2>2. LocalOK(p)'
    BY <1>2 DEF PreRead, TypeOK, LocalOK, Steps, Statuses, LockedSteps,
       Target
  <2> QED
    BY <2>1, <2>2
<1>3. CASE Lock(p)
  <2>1. TypeOK'
    BY <1>3 DEF Lock, TypeOK, Steps, Statuses
  <2>2. LocalOK(p)'
    BY <1>3 DEF Lock, TypeOK, LocalOK, Steps, Statuses, LockedSteps,
       Target
  <2> QED
    BY <2>1, <2>2
<1>4. CASE ResolveAgain(p)
  <2>1. TypeOK'
    BY <1>4 DEF ResolveAgain, TypeOK, Steps, Statuses
  <2>2. LocalOK(p)'
    BY <1>4 DEF ResolveAgain, TypeOK, LocalOK, Steps, Statuses, LockedSteps,
       Target
  <2> QED
    BY <2>1, <2>2
<1>5. CASE ReadCurrent(p)
  <2> DEFINE c      == Found(p)
             new    == Wanted(p, c)
             status == ReadStatus(p, c)
  <2>1. /\ Target(p) \in Targets
        /\ c \in Contents
        /\ call[p].op = "restore" => handle[p] \in Handle
    BY <1>5 DEF ReadCurrent, TypeOK, LocalOK, Steps, Found
  <2>2. status \in Statuses \ {"DurabilityFailure"}
    BY PatchStatusType DEF ReadStatus, RestoreStatus, Statuses
  <2>3. status = "Success" => c \in Revisions /\ new \in Revisions
    BY <2>1, PatchSuccess, StoreAssumption
    DEF ReadStatus, Wanted, Contents, Handle, Revisions
  <2>4. CASE status # "Success"
    <3>1. Return(p, status) /\ UNCHANGED <<call, before>>
      BY <1>5, <2>4 DEF ReadCurrent
    <3>2. TypeOK'
      BY <1>5, <2>2, <3>1 DEF ReadCurrent, TypeOK, Steps
    <3>3. LocalOK(p)'
      BY <1>5, <2>2, <2>4, <3>1 DEF ReadCurrent, TypeOK, LocalOK, Steps,
         LockedSteps, Target
    <3> QED
      BY <3>2, <3>3
  <2>5. CASE status = "Success"
    <3> DEFINE left == IF Unchanged(c, new) THEN c ELSE new
    <3>1. left \in Revisions /\ c \in Revisions
      BY <2>3, <2>5
    <3>2. call' = [call EXCEPT ![p].current = c, ![p].next = left]
      BY <1>5, <2>5 DEF ReadCurrent, Plan
    <3>3. /\ call' \in [Procs -> Call]
          /\ call'[p] = [call[p] EXCEPT !.current = c, !.next = left]
      BY <3>1, <3>2, CallFields
    <3>4. /\ call'[p].current \in Revisions
          /\ call'[p].next = left
          /\ call'[p].path = call[p].path
          /\ call'[p].op = call[p].op
          /\ call'[p].target = call[p].target
      BY <3>1, <3>3 DEF Call
    <3>5. \/ /\ Return(p, "Success")
             /\ Remember(p, c, c)
          \/ /\ At(p, IF new = Missing THEN "recheck" ELSE "stat")
             /\ ~Unchanged(c, new)
             /\ UNCHANGED <<result, before>>
      BY <1>5, <2>5 DEF ReadCurrent
    <3>6. before' \in [Procs -> [home : Targets, was : Contents,
                                left : Contents] \cup {None}]
      BY <2>1, <3>5 DEF TypeOK, Remember
    <3>7. TypeOK'
      BY <1>5, <3>3, <3>5, <3>6 DEF ReadCurrent, TypeOK, Steps, Statuses
    <3>8. LocalOK(p)'
      BY <1>5, <2>1, <3>1, <3>4, <3>5
      DEF ReadCurrent, TypeOK, LocalOK, Steps, LockedSteps, Target
    <3> QED
      BY <3>7, <3>8
  <2> QED
    BY <2>4, <2>5
<1>6. CASE Stat(p)
  <2> DEFINE m == IF call[p].current = Missing THEN None ELSE meta[Target(p)]
  <2>1. Target(p) \in Targets /\ m \in Meta \cup {None}
    BY <1>6 DEF Stat, TypeOK, LocalOK, Steps
  <2>2. /\ call' \in [Procs -> Call]
        /\ call'[p] = [call[p] EXCEPT !.seen = m]
    BY <1>6, <2>1, CallFields DEF Stat
  <2>3. TypeOK'
    BY <1>6, <2>2 DEF Stat, TypeOK, Steps, Statuses
  <2>fields. /\ call'[p].path = call[p].path
        /\ call'[p].op = call[p].op
        /\ call'[p].target = call[p].target
        /\ call'[p].current = call[p].current
        /\ call'[p].next = call[p].next
    BY <2>2 DEF Call
  <2>4. LocalOK(p)'
    BY <1>6, <2>fields DEF Stat, TypeOK, LocalOK, Steps, LockedSteps, Target
  <2> QED
    BY <2>3, <2>4
<1>7. CASE CreateTemporary(p)
  <2>1. PICK i \in Inodes :
          call' = [call EXCEPT ![p].temp =
                     [ino |-> i, mode |-> Private, content |-> Malformed,
                      synced |-> Malformed]]
    BY <1>7 DEF CreateTemporary
  <2> DEFINE file == [ino |-> i, mode |-> Private, content |-> Malformed,
                      synced |-> Malformed]
  <2>2. file \in Temporary /\ file # None
    BY StoreAssumption DEF Temporary, Contents
  <2>3. /\ call' \in [Procs -> Call]
        /\ call'[p] = [call[p] EXCEPT !.temp = file]
    BY <2>1, <2>2, CallFields
  <2>4. TypeOK'
    BY <1>7, <2>3 DEF CreateTemporary, TypeOK, Steps
  <2>fields. /\ call'[p].path = call[p].path
        /\ call'[p].op = call[p].op
        /\ call'[p].target = call[p].target
        /\ call'[p].current = call[p].current
        /\ call'[p].next = call[p].next
        /\ call'[p].temp # None
    BY <2>2, <2>3 DEF Call
  <2>5. LocalOK(p)'
    BY <1>7, <2>fields
    DEF CreateTemporary, TypeOK, LocalOK, Steps, LockedSteps, Target
  <2> QED
    BY <2>4, <2>5
<1>8. CASE FillTemporary(p)
  <2>1. /\ call[p].temp \in Temporary
        /\ call[p].next \in Contents
        /\ ModeOf(p) \in Modes
    BY <1>8, StoreAssumption
    DEF FillTemporary, TypeOK, LocalOK, Steps, LockedSteps, Call, ModeOf, Meta,
        Contents
  <2>2. Filled(p) \in Temporary /\ Filled(p) # None
    BY <2>1, StoreAssumption DEF Filled, Temporary
  <2>3. /\ call' \in [Procs -> Call]
        /\ call'[p] = [call[p] EXCEPT !.temp = Filled(p)]
    BY <1>8, <2>2, CallFields DEF FillTemporary
  <2>4. TypeOK'
    BY <1>8, <2>3 DEF FillTemporary, TypeOK, Steps
  <2>fields. /\ call'[p].path = call[p].path
        /\ call'[p].op = call[p].op
        /\ call'[p].target = call[p].target
        /\ call'[p].current = call[p].current
        /\ call'[p].next = call[p].next
        /\ call'[p].temp # None
    BY <2>2, <2>3 DEF Call
  <2>5. LocalOK(p)'
    BY <1>8, <2>fields
    DEF FillTemporary, TypeOK, LocalOK, Steps, LockedSteps, Target
  <2> QED
    BY <2>4, <2>5
<1>9. CASE RecheckRevision(p)
  <2>1. TypeOK'
    BY <1>9 DEF RecheckRevision, TypeOK, Steps, Statuses
  <2>2. LocalOK(p)'
    BY <1>9 DEF RecheckRevision, TypeOK, LocalOK, Steps, Statuses, LockedSteps,
       Target
  <2> QED
    BY <2>1, <2>2
<1>10. CASE RecheckTarget(p)
  <2>1. TypeOK'
    BY <1>10 DEF RecheckTarget, TypeOK, Steps, Statuses
  <2>2. LocalOK(p)'
    BY <1>10 DEF RecheckTarget, TypeOK, LocalOK, Steps, Statuses, LockedSteps,
       Target
  <2> QED
    BY <2>1, <2>2
<1>11. CASE RecheckMetadata(p)
  <2>1. TypeOK'
    BY <1>11 DEF RecheckMetadata, TypeOK, Steps, Statuses
  <2>2. LocalOK(p)'
    BY <1>11 DEF RecheckMetadata, TypeOK, LocalOK, Steps, Statuses, LockedSteps,
       Target
  <2> QED
    BY <2>1, <2>2
<1>12. CASE Rename(p)
  <2> DEFINE t    == Target(p)
             file == call[p].temp
             m    == [ino |-> file.ino, mode |-> file.mode]
  <2>1. t \in Targets /\ file \in Temporary /\ m \in Meta
    BY <1>12 DEF Rename, TypeOK, LocalOK, Steps, Call, Temporary, Meta
  <2>2. file.content \in Contents /\ Malformed \in Contents
    BY <2>1 DEF Temporary, Contents
  <2>3. Put(t, file.content, m, file.synced) /\ file.synced \in Contents
    BY <1>12, <2>1 DEF Rename, Temporary
  <2>4. before' \in [Procs -> [home : Targets, was : Contents,
                              left : Contents] \cup {None}]
    BY <1>12, <2>1, <2>2 DEF Rename, Remember, TypeOK, Found
  <2>5. TypeOK'
    BY <1>12, <2>1, <2>2, <2>3, <2>4, PutTypes DEF Rename, TypeOK, Steps
  <2>6. LocalOK(p)'
    BY <1>12 DEF Rename, Put, TypeOK, LocalOK, Steps, LockedSteps, Target
  <2> QED
    BY <2>5, <2>6
<1>13. CASE Unlink(p)
  <2>1. Target(p) \in Targets /\ Missing \in Contents
    BY <1>13 DEF Unlink, TypeOK, LocalOK, Steps, Contents, Revisions
  <2>2. TypeOK'
    <3>1. CASE Put(Target(p), Missing, None, Missing) /\ UNCHANGED result
      BY <1>13, <2>1, <3>1, PutTypes DEF Unlink, TypeOK, Steps
    <3>2. CASE UNCHANGED <<disk, holder, handle, acked>>
      BY <1>13, <3>2 DEF Unlink, TypeOK, Steps, Statuses
    <3> QED
      BY <1>13, <3>1, <3>2 DEF Unlink
  <2>3. LocalOK(p)'
    BY <1>13 DEF Unlink, Put, TypeOK, LocalOK, Steps, LockedSteps, Target
  <2> QED
    BY <2>2, <2>3
<1>14. CASE SyncDirectory(p)
  <2>1. /\ Target(p) \in Targets
        /\ call[p].next \in Contents
        /\ Persisted(p) \in Contents
    BY <1>14 DEF SyncDirectory, TypeOK, LocalOK, Steps, LockedSteps, Contents,
       Revisions, Persisted, Call, Temporary
  <2>2. TypeOK'
    BY <1>14, <2>1 DEF SyncDirectory, TypeOK, Steps, Statuses
  <2>3. LocalOK(p)'
    BY <1>14, <2>1
    DEF SyncDirectory, TypeOK, LocalOK, Steps, LockedSteps, Target
  <2> QED
    BY <2>2, <2>3
<1>15. CASE Finish(p)
  <2>1. StagedHandle(p) \in Handle \cup {None}
    BY <1>15 DEF Finish, StagedHandle, HandleWith, Handle, LocalOK
  <2>2. handle' \in [Procs -> Handle \cup {None}]
    BY <1>15, <2>1 DEF Finish, TypeOK
  <2> QED
    BY <1>15, <2>2, ForgetTypes DEF Finish
<1> QED
  BY <1>1, <1>2, <1>3, <1>4, <1>5, <1>6, <1>7, <1>8, <1>9, <1>10, <1>11,
     <1>12, <1>13, <1>14, <1>15 DEF Step

\* What happens around the writers keeps the types.
LEMMA EnvironmentTypes ==
  ASSUME TypeInv,
         \/ \E t \in Targets : \/ ExternalWrite(t) \/ ExternalReplace(t)
                               \/ ExternalDelete(t) \/ ExternalChmod(t)
         \/ \E l \in Links : Relink(l)
  PROVE  TypeInv'
<1> SUFFICES TypeOK' /\ UNCHANGED <<pc, call, result, handle>>
  BY DEF TypeInv, LocalOK, Target
<1>1. ASSUME NEW writers, NEW what \in {"content", "meta", "link"},
             Race(what, writers)
      PROVE  raced' \in [Procs -> SUBSET {"content", "meta", "link"}]
  <2>1. \A p \in Procs : raced[p] \cup {what}
                           \in SUBSET {"content", "meta", "link"}
    BY DEF TypeInv, TypeOK
  <2> QED
    BY <1>1, <2>1 DEF Race, TypeInv, TypeOK
<1>2. ASSUME NEW t \in Targets, NEW c \in Contents, NEW m \in Meta \cup {None},
             External(t, c, m)
      PROVE  TypeOK' /\ UNCHANGED <<pc, call, result, handle>>
  <2>1. Put(t, c, m, c) /\ UNCHANGED <<pc, call, result, wrote, before>>
    BY <1>2 DEF External
  <2>2. raced' \in [Procs -> SUBSET {"content", "meta", "link"}]
    BY <1>1, <1>2 DEF External
  <2> QED
    BY <2>1, <2>2, PutTypes DEF TypeInv, TypeOK, Put
<1>3. ASSUME NEW t \in Targets, ExternalWrite(t) \/ ExternalReplace(t)
      PROVE  TypeOK' /\ UNCHANGED <<pc, call, result, handle>>
  BY <1>2, <1>3 DEF ExternalWrite, ExternalReplace, TypeInv, TypeOK
<1>4. ASSUME NEW t \in Targets, ExternalDelete(t)
      PROVE  TypeOK' /\ UNCHANGED <<pc, call, result, handle>>
  BY <1>2, <1>4 DEF ExternalDelete, Contents, Revisions
<1>5. ASSUME NEW t \in Targets, ExternalChmod(t)
      PROVE  TypeOK' /\ UNCHANGED <<pc, call, result, handle>>
  <2>1. PICK m \in Modes : meta' = [meta EXCEPT ![t].mode = m]
    BY <1>5 DEF ExternalChmod
  <2>2. [meta[t] EXCEPT !.mode = m] \in Meta
    BY <1>5 DEF ExternalChmod, TypeInv, TypeOK, Meta
  <2>3. meta' \in [Targets -> Meta \cup {None}]
    BY <2>1, <2>2 DEF TypeInv, TypeOK
  <2>4. raced' \in [Procs -> SUBSET {"content", "meta", "link"}]
    BY <1>1, <1>5 DEF ExternalChmod
  <2> QED
    BY <1>5, <2>3, <2>4 DEF ExternalChmod, TypeInv, TypeOK
<1>6. ASSUME NEW l \in Links, Relink(l)
      PROVE  TypeOK' /\ UNCHANGED <<pc, call, result, handle>>
  <2>1. raced' \in [Procs -> SUBSET {"content", "meta", "link"}]
    BY <1>1, <1>6 DEF Relink
  <2> QED
    BY <1>6, <2>1 DEF Relink, TypeInv, TypeOK
<1> QED
  BY <1>3, <1>4, <1>5, <1>6

\* After a power loss nobody is running and the file system is well formed.
LEMMA PowerLossTypes ==
  ASSUME TypeInv, PowerLoss
  PROVE  TypeInv'
<1>1. TypeOK'
  <2>1. content' \in [Targets -> Contents]
    BY DEF PowerLoss
  <2>2. stable' \in [Targets -> SUBSET Contents]
    BY <2>1 DEF PowerLoss
  <2>3. /\ parent' \in [Targets -> {"none", "new", "durable"}]
        /\ acked' \in [Targets -> Contents \cup {None}]
    BY DEF PowerLoss, TypeInv, TypeOK
  <2>4. meta' \in [Targets -> Meta \cup {None}]
    BY DEF PowerLoss, Metadata
  <2> QED
    BY <2>1, <2>2, <2>3, <2>4, NoCallType
    DEF PowerLoss, TypeInv, TypeOK, Steps
<1>2. ASSUME NEW p \in Procs PROVE LocalOK(p)'
  BY StoreAssumption
  DEF PowerLoss, LocalOK, NoCall, Steps, LockedSteps, Operations, Target
<1> QED
  BY <1>1, <1>2 DEF TypeInv

\* Whatever happens keeps the types: a writer changes its own locals and what
\* is shared, the environment only what is shared.
LEMMA TypeNext == TypeInv /\ [Next]_vars => TypeInv'
<1> SUFFICES ASSUME TypeInv, [Next]_vars PROVE TypeInv'
  OBVIOUS
<1>1. ASSUME NEW p \in Procs,
             \/ BeginUpdate(p) \/ BeginRestore(p) \/ Step(p)
             \/ Fault(p) \/ Crash(p)
      PROVE  TypeInv'
  <2> TypeOK /\ LocalOK(p)
    BY DEF TypeInv
  <2>1. TypeOK' /\ LocalOK(p)'
    <3>1. CASE BeginUpdate(p)
      <4>1. PICK n \in Paths, kind \in Kinds[p] \ {"restore"},
                 wanted \in Requests[p] :
              Begin(p, kind, n,
                    BasedOn(ValuesOf(content[Resolve(n)]), wanted))
        BY <3>1 DEF BeginUpdate
      <4>2. BasedOn(ValuesOf(content[Resolve(n)]), wanted) \in Batches
        BY ValuesType, BasedOnType
      <4>3. kind \in Operations
        BY StoreAssumption
      <4> QED
        BY <4>1, <4>2, <4>3, BeginTypes
    <3>2. CASE BeginRestore(p)
      <4>1. PICK n \in Paths : Begin(p, "restore", n, NoEdits)
        BY <3>2 DEF BeginRestore
      <4> QED
        BY <3>2, <4>1, NoEditsType, BeginTypes DEF BeginRestore, Operations
    <3>3. CASE Step(p)
      BY <3>3, StepTypes
    <3>4. CASE Fault(p)
      <4>1. PICK status \in FaultStatus(p) : Return(p, status)
        BY <3>4 DEF Fault
      <4>2. /\ status \in Statuses
            /\ status = "DurabilityFailure" => pc[p] = "syncdir"
            /\ status # "Success"
            /\ pc[p] # "idle"
        BY DEF FaultStatus, DurabilityStatus, Statuses
      <4>3. TypeOK'
        BY <3>4, <4>1, <4>2
        DEF Fault, Return, At, TypeOK, Steps, disk, history
      <4>4. LocalOK(p)'
        BY <3>4, <4>1, <4>2
        DEF Fault, Return, At, TypeOK, LocalOK, Steps, LockedSteps, Target
      <4> QED
        BY <4>3, <4>4
    <3>5. CASE Crash(p)
      <4>1. handle' \in [Procs -> Handle \cup {None}]
        BY <3>5 DEF Crash, TypeOK
      <4> QED
        BY <3>5, <4>1, ForgetTypes DEF Crash
    <3> QED
      BY <1>1, <3>1, <3>2, <3>3, <3>4, <3>5
  <2>2. OthersStay(p)
    BY <1>1, WriterKeepsToItself DEF KeepsToItself, TypeInv
  <2> QED
    BY <2>1, <2>2, LocalsStay DEF TypeInv
<1>2. CASE UNCHANGED vars
  BY <1>2 DEF vars, disk, history, TypeInv, TypeOK, LocalOK, Target
<1> QED
  BY <1>1, <1>2, EnvironmentTypes, PowerLossTypes DEF Next

\* The type invariant holds of every behaviour.
THEOREM TypeCorrect == Spec => []TypeOK
<1>1. TypeInv => TypeOK
  BY DEF TypeInv
<1> QED
  BY <1>1, TypeInit, TypeNext, PTL DEF Spec

-----------------------------------------------------------------------------
(* Exclusion.                                                                *)

\* flock is the only way into the locked steps, and a lock changes hands only
\* through None.
LEMMA LockNext == TypeInv /\ LockInv /\ [Next]_vars => LockInv'
<1> SUFFICES ASSUME TypeInv, LockInv, [Next]_vars,
                    NEW q \in Procs, pc'[q] \in LockedSteps
             PROVE  holder'[Target(q)'] = q
  BY DEF LockInv
<1> TypeOK /\ LocalOK(q)
  BY DEF TypeInv
<1>0. ASSUME pc[q] \in LockedSteps
      PROVE  /\ Target(q) \in Targets
             /\ holder[Target(q)] = q
             /\ q # None
  BY <1>0, StoreAssumption DEF LocalOK, LockedSteps, LockInv
<1>1. ASSUME NEW p \in Procs,
             \/ BeginUpdate(p) \/ BeginRestore(p) \/ Step(p)
             \/ Fault(p) \/ Crash(p)
      PROVE  holder'[Target(q)'] = q
  <2>1. KeepsToItself(p)
    BY <1>1, WriterKeepsToItself
  <2>2. CASE p # q
    BY <1>0, <2>1, <2>2 DEF KeepsToItself, OthersStay, Target
  <2>3. CASE p = q
    <3>1. CASE Lock(p)
      BY <2>3, <3>1 DEF Lock, TypeOK, LocalOK, Steps, Target
    <3>2. CASE ~Lock(p)
      <4>1. /\ pc[q] \in LockedSteps
            /\ call'[q].target = call[q].target
            /\ holder' = holder
        BY <1>1, <2>3, <3>2, WriterKeepsLock DEF KeepsLock
      <4> QED
        BY <1>0, <4>1 DEF Target
    <3> QED
      BY <3>1, <3>2
  <2> QED
    BY <2>2, <2>3
<1>2. CASE \/ \E t \in Targets : \/ ExternalWrite(t) \/ ExternalReplace(t)
                                 \/ ExternalDelete(t) \/ ExternalChmod(t)
           \/ \E l \in Links : Relink(l)
  BY <1>0, <1>2 DEF ExternalWrite, ExternalReplace, ExternalDelete,
     ExternalChmod, Relink, External, Put, Target
<1>3. CASE PowerLoss
  BY <1>3 DEF PowerLoss, LockedSteps, Steps
<1>4. CASE UNCHANGED vars
  BY <1>0, <1>4 DEF vars, Target
<1> QED
  BY <1>1, <1>2, <1>3, <1>4 DEF Next

\* Holding the lock of one's target excludes everybody else from it.
LEMMA LockExcludes == TypeInv /\ LockInv => LockExclusion
BY DEF LockInv, LockExclusion

\* Nobody is past flock at first.
LEMMA LockInit == Init => LockInv
BY DEF Init, LockInv, LockedSteps, Steps

\* No two writers past flock work on the same physical file.
THEOREM Exclusion == Spec => []LockExclusion
<1>1. Init => TypeInv /\ LockInv
  BY TypeInit, LockInit
<1>2. TypeInv /\ LockInv /\ [Next]_vars => (TypeInv /\ LockInv)'
  BY TypeNext, LockNext
<1> QED
  BY <1>1, <1>2, LockExcludes, PTL DEF Spec

\* Who holds a lock is at work on its file.
HolderInv ==
  \A t \in Targets : holder[t] # None =>
    /\ holder[t] \in Procs
    /\ call[holder[t]].target = t
    /\ pc[holder[t]] \in LockedSteps \cup {"finish"}

\* A writer with a lock keeps it, with its target, until it lets it go.
LEMMA HolderKeeps ==
  ASSUME TypeOK, NEW p \in Procs, pc[p] \in LockedSteps \cup {"finish"},
         Step(p) \/ BeginUpdate(p) \/ BeginRestore(p) \/ Fault(p) \/ Crash(p)
  PROVE  \/ holder' = Released(p)
         \/ /\ holder' = holder
            /\ call'[p].target = call[p].target
            /\ pc'[p] \in LockedSteps \cup {"finish"}
<1> pc \in [Procs -> Steps]
  BY DEF TypeOK
<1> USE DEF At, Return, Check, LockedSteps, Steps
<1>1. CASE \/ ResolveTarget(p) \/ PreRead(p) \/ Lock(p)
           \/ BeginUpdate(p) \/ BeginRestore(p)
  BY <1>1 DEF ResolveTarget, PreRead, Lock, BeginUpdate, BeginRestore, Begin
<1>2. CASE \/ ResolveAgain(p) \/ RecheckRevision(p) \/ RecheckTarget(p)
           \/ RecheckMetadata(p) \/ SyncDirectory(p) \/ Fault(p)
  BY <1>2 DEF ResolveAgain, RecheckRevision, RecheckTarget, RecheckMetadata,
     SyncDirectory, Fault
<1>3. CASE Rename(p) \/ Unlink(p)
  BY <1>3 DEF Rename, Unlink, Put
<1>4. CASE ReadCurrent(p)
  BY <1>4 DEF ReadCurrent, Plan, TypeOK, Call
<1>5. CASE Stat(p) \/ CreateTemporary(p) \/ FillTemporary(p)
  BY <1>5 DEF Stat, CreateTemporary, FillTemporary, TypeOK, Call
<1>6. CASE Finish(p) \/ Crash(p)
  BY <1>6 DEF Finish, Crash, Forget
<1> QED BY <1>1, <1>2, <1>3, <1>4, <1>5, <1>6 DEF Step

\* A lock is taken by who needs it and is let go by who has it.
LEMMA HolderNext == TypeInv /\ HolderInv /\ [Next]_vars => HolderInv'
<1> SUFFICES ASSUME TypeInv, HolderInv, [Next]_vars,
                    NEW t \in Targets, holder'[t] # None
             PROVE  /\ holder'[t] \in Procs
                    /\ call'[holder'[t]].target = t
                    /\ pc'[holder'[t]] \in LockedSteps \cup {"finish"}
  BY DEF HolderInv
<1> TypeOK
  BY DEF TypeInv
<1> DEFINE Kept == /\ holder'[t] = holder[t]
                   /\ call'[holder[t]].target = call[holder[t]].target
                   /\ pc'[holder[t]] \in LockedSteps \cup {"finish"}
           Goal == /\ holder'[t] \in Procs
                   /\ call'[holder'[t]].target = t
                   /\ pc'[holder'[t]] \in LockedSteps \cup {"finish"}
<1>0. ASSUME Kept PROVE Goal
  BY <1>0 DEF HolderInv
<1>1. ASSUME NEW p \in Procs,
             \/ BeginUpdate(p) \/ BeginRestore(p) \/ Step(p)
             \/ Fault(p) \/ Crash(p)
      PROVE  Goal
  <2>1. OthersStay(p) /\ (holder[t] \notin {None, p} => holder'[t] = holder[t])
    BY <1>1, WriterKeepsToItself DEF KeepsToItself
  <2>2. CASE holder[t] = None
    <3>1. holder' # holder /\ ~ (\E r \in {p} : holder' = Released(r))
      BY <2>2 DEF Released
    <3>2. Lock(p)
      BY <1>1, <3>1 DEF Step, ResolveTarget, PreRead, ResolveAgain,
         ReadCurrent, Stat, CreateTemporary, FillTemporary, RecheckRevision,
         RecheckTarget, RecheckMetadata, Rename, Unlink, Put, SyncDirectory,
         Finish, BeginUpdate, BeginRestore, Begin, Fault, Crash, Forget, disk
    <3>3. /\ holder' = [holder EXCEPT ![Target(p)] = p]
          /\ pc'[p] = "locked" /\ call' = call
      BY <3>2 DEF Lock, At, TypeOK
    <3>4. t = Target(p) /\ holder'[t] = p
      BY <2>2, <3>3 DEF TypeOK
    <3> QED BY <3>3, <3>4 DEF Target, LockedSteps, Steps
  <2>3. CASE holder[t] = p
    <3>1. pc[p] \in LockedSteps \cup {"finish"} /\ p # None
      BY <2>3, StoreAssumption DEF HolderInv
    <3>2. holder' # Released(p)
      BY <2>3 DEF Released
    <3> QED BY <1>0, <1>1, <2>3, <3>1, <3>2, HolderKeeps
  <2>4. CASE holder[t] \notin {None, p}
    <3>1. holder[t] \in Procs \ {p}
      BY <2>4 DEF TypeOK
    <3> QED BY <1>0, <2>1, <2>4, <3>1 DEF OthersStay, HolderInv
  <2> QED BY <2>2, <2>3, <2>4
<1>2. CASE \/ \E u \in Targets : \/ ExternalWrite(u) \/ ExternalReplace(u)
                                 \/ ExternalDelete(u) \/ ExternalChmod(u)
           \/ \E l \in Links : Relink(l)
  <2>1. UNCHANGED <<holder, pc, call>>
    BY <1>2 DEF ExternalWrite, ExternalReplace, ExternalDelete, ExternalChmod,
       Relink, External, Put
  <2> QED BY <1>0, <2>1 DEF HolderInv
<1>3. CASE PowerLoss
  BY <1>3 DEF PowerLoss
<1>4. CASE UNCHANGED vars
  BY <1>0, <1>4 DEF vars, HolderInv
<1> QED BY <1>1, <1>2, <1>3, <1>4 DEF Next

\* No call waits for flock but for another one that is at work on its file,
\* and that one is past flock and can go on: writers never wait in a circle.
THEOREM WaitsAreForWork == Spec => []NobodyWaitsInVain
<1>1. Init => HolderInv
  BY DEF Init, HolderInv
<1>2. TypeInv /\ HolderInv => NobodyWaitsInVain
  <2> SUFFICES ASSUME TypeInv, HolderInv, NEW p \in Procs, pc[p] = "lock",
                      holder[Target(p)] # None
               PROVE  \E q \in Procs \ {p} :
                        /\ holder[Target(p)] = q
                        /\ Target(q) = Target(p)
                        /\ pc[q] \in LockedSteps \cup {"finish"}
    BY DEF NobodyWaitsInVain
  <2>1. Target(p) \in Targets
    BY DEF TypeInv, LocalOK, Steps
  <2> DEFINE q == holder[Target(p)]
  <2>2. /\ q \in Procs /\ Target(q) = Target(p)
        /\ pc[q] \in LockedSteps \cup {"finish"}
    BY <2>1 DEF HolderInv, Target
  <2>3. q # p
    BY <2>2 DEF LockedSteps, Steps
  <2> QED BY <2>2, <2>3
<1>3. TypeInv /\ HolderInv /\ [Next]_vars => (TypeInv /\ HolderInv)'
  BY TypeNext, HolderNext
<1> QED BY <1>1, <1>2, <1>3, TypeInit, PTL DEF Spec

-----------------------------------------------------------------------------
(* No update is lost.                                                        *)

\* The step that checks the revision opens the window; what others do to the
\* target in it is either excluded by the lock or recorded as a race.
LEMMA WindowNext ==
  TypeInv /\ LockInv /\ WindowInv /\ [Next]_vars => WindowInv'
<1> DEFINE Window == {"retarget", "remeta", "rename", "unlink"}
<1> SUFFICES ASSUME TypeInv, LockInv, WindowInv, [Next]_vars,
                    NEW q \in Procs, pc'[q] \in Window,
                    "content" \notin raced'[q]
             PROVE  content'[Target(q)'] = call'[q].current
  BY DEF WindowInv, Found
<1> TypeOK /\ LocalOK(q)
  BY DEF TypeInv
<1>0. ASSUME pc[q] \in Window, "content" \notin raced[q]
      PROVE  /\ Target(q) \in Targets
             /\ content[Target(q)] = call[q].current
             /\ holder[Target(q)] = q
  BY <1>0 DEF LocalOK, LockedSteps, Steps, WindowInv, Found, LockInv
<1>1. ASSUME NEW p \in Procs,
             \/ BeginUpdate(p) \/ BeginRestore(p) \/ Step(p)
             \/ Fault(p) \/ Crash(p)
      PROVE  content'[Target(q)'] = call'[q].current
  <2>1. KeepsToItself(p)
    BY <1>1, WriterKeepsToItself
  <2>2. CASE p # q
    <3>1. /\ pc[q] \in Window /\ "content" \notin raced[q]
          /\ call'[q] = call[q]
      BY <2>1, <2>2 DEF KeepsToItself, OthersStay
    <3>2. content'[Target(q)] = content[Target(q)]
      <4> SUFFICES ASSUME content'[Target(q)] # content[Target(q)]
                   PROVE  FALSE
        OBVIOUS
      <4>1. pc[p] \in {"rename", "unlink"} /\ Target(q) = Target(p)
        BY <1>0, <2>1, <3>1 DEF KeepsToItself
      <4>2. holder[Target(p)] = p
        BY <4>1 DEF LockInv, LockedSteps, Steps
      <4> QED
        BY <1>0, <2>2, <3>1, <4>1, <4>2
    <3> QED
      BY <1>0, <3>1, <3>2 DEF Target
  <2>3. CASE p = q
    <3>1. \/ RecheckRevision(q) /\ SameRevision(q)
          \/ RecheckTarget(q) /\ pc[q] \in Window
          \/ RecheckMetadata(q) /\ pc[q] \in Window
      <4> pc \in [Procs -> Steps]
        BY DEF TypeOK
      <4> USE DEF At, Return, Check
      <4>1. CASE Step(q)
        BY <4>1
        DEF Step, ResolveTarget, PreRead, Lock, ResolveAgain, ReadCurrent,
            Stat, CreateTemporary, FillTemporary, RecheckRevision,
            RecheckTarget, RecheckMetadata, Rename, Unlink, SyncDirectory,
            Finish, Forget
      <4>2. CASE \/ BeginUpdate(q) \/ BeginRestore(q) \/ Fault(q) \/ Crash(q)
        BY <4>2 DEF BeginUpdate, BeginRestore, Begin, Fault, Crash, Forget
      <4> QED
        BY <1>1, <2>3, <4>1, <4>2
    <3>2. UNCHANGED <<content, call, raced>>
      BY <3>1 DEF RecheckRevision, RecheckTarget, RecheckMetadata, disk,
         history
    <3> QED
      BY <1>0, <3>1, <3>2 DEF SameRevision, Found, Target
  <2> QED
    BY <2>2, <2>3
<1>2. ASSUME NEW t \in Targets, NEW c, NEW m, External(t, c, m)
      PROVE  content'[Target(q)'] = call'[q].current
  <2>1. UNCHANGED <<pc, call>> /\ content' = [content EXCEPT ![t] = c]
    BY <1>2 DEF External, Put
  <2>2. Target(q) # t /\ "content" \notin raced[q]
    BY <1>2, <2>1 DEF External, Race, Working
  <2> QED
    BY <1>0, <2>1, <2>2 DEF Target, TypeOK
<1>3. ASSUME NEW t \in Targets,
             \/ ExternalWrite(t) \/ ExternalReplace(t) \/ ExternalDelete(t)
      PROVE  content'[Target(q)'] = call'[q].current
  BY <1>2, <1>3 DEF ExternalWrite, ExternalReplace, ExternalDelete
<1>4. CASE \/ \E t \in Targets : ExternalChmod(t)
           \/ \E l \in Links : Relink(l)
  <2>1. UNCHANGED <<pc, call, content>>
    BY <1>4 DEF ExternalChmod, Relink
  <2>2. "content" \notin raced[q]
    BY <1>4 DEF ExternalChmod, Relink, Race
  <2> QED
    BY <1>0, <2>1, <2>2 DEF Target
<1>5. CASE PowerLoss
  BY <1>5 DEF PowerLoss
<1>6. CASE UNCHANGED vars
  BY <1>0, <1>6 DEF vars, disk, history, Target
<1> QED
  BY <1>1, <1>3, <1>4, <1>5, <1>6 DEF Next

\* The read under the lock makes the plan; nobody but the writer changes it.
LEMMA PlanNext ==
  TypeInv /\ (\A p \in Procs : PlanOK(p)) /\ [Next]_vars
    => \A p \in Procs : PlanOK(p)'
<1> SUFFICES ASSUME TypeInv, \A p \in Procs : PlanOK(p), [Next]_vars,
                    NEW q \in Procs
             PROVE  PlanOK(q)'
  OBVIOUS
<1> TypeOK /\ LocalOK(q) /\ PlanOK(q) /\ call[q] \in Call
  BY DEF TypeInv, TypeOK
<1>1. CASE pc'[q] = pc[q] /\ call'[q] = call[q]
  BY <1>1 DEF PlanOK
<1>2. CASE Step(q)
  <2> pc \in [Procs -> Steps] /\ call \in [Procs -> Call]
    BY DEF TypeOK
  <2> USE DEF At, Return, Check, PlanOK, LockedSteps, Steps
  <2>1. CASE ResolveTarget(q) \/ PreRead(q) \/ Lock(q) \/ ResolveAgain(q)
    BY <2>1 DEF ResolveTarget, PreRead, Lock, ResolveAgain
  <2>2. CASE ReadCurrent(q)
    <3> DEFINE c   == Found(q)
               new == Wanted(q, c)
    <3>1. CASE pc'[q] = "finish"
      BY <3>1
    <3>2. CASE pc'[q] # "finish"
      <4>1. /\ ReadStatus(q, c) = "Success" /\ ~Unchanged(c, new)
            /\ pc'[q] = IF new = Missing THEN "recheck" ELSE "stat"
            /\ call' = [call EXCEPT ![q].current = c, ![q].next = new]
        BY <2>2, <3>2 DEF ReadCurrent, Plan
      <4>2. /\ call'[q].current = c
            /\ call'[q].next = new
            /\ call'[q].op = call[q].op
            /\ call'[q].edits = call[q].edits
        BY <4>1 DEF Call
      <4>3. call[q].op # "restore"
              => PatchStatus(c, call[q].edits) = "Success"
                 /\ new = Merge(c, call[q].edits)
        BY <4>1 DEF ReadStatus, Wanted
      <4> QED
        BY <4>1, <4>2, <4>3
    <3> QED
      BY <3>1, <3>2
  <2>3. CASE Stat(q)
    BY <2>3 DEF Stat, Call
  <2>4. CASE CreateTemporary(q)
    BY <2>4 DEF CreateTemporary, Call
  <2>5. CASE FillTemporary(q)
    BY <2>5 DEF FillTemporary, Filled, Call
  <2>6. CASE RecheckRevision(q) \/ RecheckTarget(q) \/ RecheckMetadata(q)
    BY <2>6 DEF RecheckRevision, RecheckTarget, RecheckMetadata
  <2>7. CASE Rename(q)
    BY <2>7 DEF Rename, Put
  <2>8. CASE Unlink(q)
    BY <2>8 DEF Unlink, Put
  <2>9. CASE SyncDirectory(q) \/ Finish(q)
    BY <2>9 DEF SyncDirectory, Finish, Forget
  <2> QED
    BY <1>2, <2>1, <2>2, <2>3, <2>4, <2>5, <2>6, <2>7, <2>8, <2>9 DEF Step
<1>3. CASE BeginUpdate(q) \/ BeginRestore(q) \/ Fault(q) \/ Crash(q)
  BY <1>3 DEF BeginUpdate, BeginRestore, Begin, Fault, Crash, Forget, At,
     Return, PlanOK, LockedSteps, Steps, TypeOK
<1>4. CASE PowerLoss
  BY <1>4 DEF PowerLoss, PlanOK, LockedSteps, Steps
<1>5. ASSUME NEW p \in Procs, p # q,
             \/ BeginUpdate(p) \/ BeginRestore(p) \/ Step(p)
             \/ Fault(p) \/ Crash(p)
      PROVE  pc'[q] = pc[q] /\ call'[q] = call[q]
  BY <1>5, WriterKeepsToItself DEF KeepsToItself, OthersStay
<1>6. ASSUME \/ \E t \in Targets : \/ ExternalWrite(t) \/ ExternalReplace(t)
                                   \/ ExternalDelete(t) \/ ExternalChmod(t)
             \/ \E l \in Links : Relink(l)
             \/ UNCHANGED vars
      PROVE  pc'[q] = pc[q] /\ call'[q] = call[q]
  BY <1>6 DEF ExternalWrite, ExternalReplace, ExternalDelete, ExternalChmod,
     Relink, External, vars
<1> QED
  BY <1>1, <1>2, <1>3, <1>4, <1>5, <1>6 DEF Next

\* The invariant holds at first, when no call is running.
LEMMA StoreInit == Init => StoreInv
<1>1. Init => WindowInv /\ \A p \in Procs : PlanOK(p)
  BY DEF Init, WindowInv, PlanOK, LockedSteps, Steps
<1> QED
  BY <1>1, TypeInit, LockInit DEF StoreInv

\* Every step keeps the invariant.
LEMMA StoreNext == StoreInv /\ [Next]_vars => StoreInv'
BY TypeNext, LockNext, WindowNext, PlanNext DEF StoreInv

\* The inductive invariant of the store: types and locals, the lock, the window
\* between the last check and the write, and the plan the write carries out.
THEOREM StoreCorrect == Spec => []StoreInv
BY StoreInit, StoreNext, PTL DEF Spec

\* Only rename and unlink change a configuration file for a writer.
LEMMA CommitsByWriting ==
  ASSUME StoreInv, [Next]_vars, NEW p \in Procs, Commits(p)
  PROVE  Rename(p) \/ Unlink(p)
<1> TypeOK
  BY DEF StoreInv, TypeInv
<1>1. ASSUME NEW r \in Procs,
             \/ BeginUpdate(r) \/ BeginRestore(r) \/ Step(r)
             \/ Fault(r) \/ Crash(r)
      PROVE  Rename(p) \/ Unlink(p)
  <2>1. KeepsToItself(r)
    BY <1>1, WriterKeepsToItself
  <2>2. r = p
    BY <2>1 DEF KeepsToItself, OthersStay, Commits
  <2>3. pc[p] \in {"rename", "unlink"}
    BY <2>1, <2>2 DEF KeepsToItself, Commits
  <2>4. CASE Step(p)
    BY <2>3, <2>4
    DEF Step, ResolveTarget, PreRead, Lock, ResolveAgain, ReadCurrent, Stat,
        CreateTemporary, FillTemporary, RecheckRevision, RecheckTarget,
        RecheckMetadata, SyncDirectory, Finish
  <2>5. CASE \/ BeginUpdate(p) \/ BeginRestore(p) \/ Fault(p) \/ Crash(p)
    BY <2>5 DEF BeginUpdate, BeginRestore, Begin, Fault, Crash, Forget,
       history, Commits, TypeOK
  <2> QED
    BY <1>1, <2>2, <2>4, <2>5
<1>2. CASE \/ \E t \in Targets : \/ ExternalWrite(t) \/ ExternalReplace(t)
                                 \/ ExternalDelete(t) \/ ExternalChmod(t)
           \/ \E l \in Links : Relink(l)
  BY <1>2 DEF ExternalWrite, ExternalReplace, ExternalDelete, ExternalChmod,
     Relink, External, Commits
<1>3. CASE PowerLoss
  BY <1>3 DEF PowerLoss, Commits
<1>4. CASE UNCHANGED vars
  BY <1>4 DEF vars, history, Commits
<1> QED
  BY <1>1, <1>2, <1>3, <1>4 DEF Next

\* What a successful patch does to every key, edited or not.
LEMMA MergeKeepsOthers ==
  ASSUME NEW c \in Revisions, NEW batch \in Batches,
         PatchStatus(c, batch) = "Success"
  PROVE  LET now == Merge(c, batch) IN
         /\ now \in Documents \cap Valid
         /\ now # Missing
         /\ \A k \in DOMAIN batch :
              /\ ValuesOf(c)[k] \in {batch[k].baseline, batch[k].pending}
              /\ now[k] = batch[k].pending
         /\ \A k \in Keys \ DOMAIN batch : now[k] = ValuesOf(c)[k]
<1>1. DOMAIN batch \subseteq Keys
  BY DEF Batches
<1>2. Merge(c, batch) \in Documents \cap Valid /\ Conflicts(c, batch) = {}
  BY PatchSuccess
<1>3. Merge(c, batch) # Missing
  BY <1>2, MergeAssumption
<1>4. \A k \in DOMAIN batch :
        ValuesOf(c)[k] \in {batch[k].baseline, batch[k].pending}
  BY <1>2 DEF Conflicts
<1>5. \A k \in DOMAIN batch : Merge(c, batch)[k] = batch[k].pending
  BY <1>1 DEF Merge
<1>6. \A k \in Keys \ DOMAIN batch : Merge(c, batch)[k] = ValuesOf(c)[k]
  BY DEF Merge
<1> QED
  BY <1>2, <1>3, <1>4, <1>5, <1>6

\* A save or stage that writes merges its edits into the document it replaces.
LEMMA WriteMerges ==
  ASSUME StoreInv, NEW p \in Procs, Rename(p) \/ Unlink(p),
         call[p].op # "restore", "content" \notin raced[p]
  PROVE  /\ PatchStatus(Found(p), call[p].edits) = "Success"
         /\ content'[Target(p)] = Merge(Found(p), call[p].edits)
         /\ Found(p) \in Revisions
         /\ call[p].edits \in Batches
<1> /\ TypeOK /\ LocalOK(p) /\ PlanOK(p) /\ call[p] \in Call
    /\ pc[p] \in {"rename", "unlink"}
  BY DEF StoreInv, TypeInv, TypeOK, Rename, Unlink
<1>1. /\ Target(p) \in Targets
      /\ call[p].current \in Revisions
      /\ Found(p) = call[p].current
  BY DEF LocalOK, LockedSteps, Steps, StoreInv, WindowInv
<1>2. /\ PatchStatus(Found(p), call[p].edits) = "Success"
      /\ call[p].next = Merge(Found(p), call[p].edits)
  BY <1>1 DEF PlanOK, LockedSteps, Steps
<1>3. call[p].edits \in Batches
  BY DEF Call
<1>4. pc[p] # "unlink"
  BY <1>1, <1>2, <1>3, MergeKeepsOthers DEF PlanOK
<1>5. Rename(p) /\ call[p].temp.content = call[p].next
  BY <1>4 DEF Unlink, PlanOK
<1>6. content'[Target(p)] = call[p].next
  BY <1>1, <1>5 DEF Rename, Put, TypeOK
<1> QED
  BY <1>1, <1>2, <1>3, <1>6

\* No writer undoes what another one wrote, whatever editors, crashes and power
\* losses come between its steps.
THEOREM Merges == Spec => NoLostUpdate
<1> DEFINE P(p) ==
       Commits(p) /\ call[p].op # "restore" /\ "content" \notin raced[p]
       => LET was == ValuesOf(Found(p))
              now == content'[Target(p)]
              batch == call[p].edits
          IN /\ now \in Valid \ {Missing}
             /\ \A k \in DOMAIN batch :
                  /\ was[k] \in {batch[k].baseline, batch[k].pending}
                  /\ now[k] = batch[k].pending
             /\ \A k \in Keys \ DOMAIN batch : now[k] = was[k]
<1>1. StoreInv /\ [Next]_vars => \A p \in Procs : P(p)
  <2> SUFFICES ASSUME StoreInv, [Next]_vars, NEW p \in Procs, Commits(p),
                      call[p].op # "restore", "content" \notin raced[p]
               PROVE  P(p)
    OBVIOUS
  <2>1. Rename(p) \/ Unlink(p)
    BY CommitsByWriting
  <2> QED
    BY <2>1, WriteMerges, MergeKeepsOthers
<1>2. StoreInv /\ [Next]_vars => [\A p \in Procs : P(p)]_vars
  BY <1>1
<1> QED
  BY <1>2, StoreCorrect, PTL DEF Spec, NoLostUpdate

\* A writer replaces a file by other bytes, or not at all.
THEOREM WritesChangeBytes == Spec => NothingIsRewritten
<1> DEFINE P(p) == /\ Commits(p)
                   /\ "content" \notin raced[p]
                   /\ content'[Target(p)] # Missing
                   => ~SameBytes(Found(p), content'[Target(p)])
<1>1. StoreInv /\ [Next]_vars => [\A p \in Procs : P(p)]_vars
  <2> SUFFICES ASSUME StoreInv, [Next]_vars, NEW p \in Procs, Commits(p),
                      "content" \notin raced[p], content'[Target(p)] # Missing
               PROVE  ~SameBytes(Found(p), content'[Target(p)])
    OBVIOUS
  <2> TypeOK /\ LocalOK(p) /\ PlanOK(p)
    BY DEF StoreInv, TypeInv
  <2>1. Rename(p) \/ Unlink(p)
    BY CommitsByWriting
  <2>2. pc[p] \in {"rename", "unlink"} /\ Target(p) \in Targets
    BY <2>1 DEF Rename, Unlink, LocalOK, Steps
  <2>3. /\ Found(p) = call[p].current
        /\ ~Unchanged(call[p].current, call[p].next)
    BY <2>2 DEF StoreInv, WindowInv, PlanOK, LockedSteps, Steps
  <2>4. CASE Rename(p)
    <3>1. content'[Target(p)] = call[p].next
      BY <2>2, <2>4 DEF Rename, Put, TypeOK, PlanOK
    <3> QED BY <2>3, <3>1 DEF Unchanged
  <2>5. CASE Unlink(p)
    <3>1. content'[Target(p)] = Missing
      BY <2>2, <2>5 DEF Unlink, Put, TypeOK, Commits
    <3> QED BY <3>1
  <2> QED BY <2>1, <2>4, <2>5
<1> QED BY <1>1, StoreCorrect, PTL DEF Spec, NothingIsRewritten

-----------------------------------------------------------------------------
(* Calls after calls.                                                        *)

\* patchDocument finds the edits it made once already made: the same batch on
\* its own outcome, baselines and all, succeeds and has nothing to change.  A
\* retry after DurabilityFailure or a lost answer is no conflict with itself.
THEOREM RetryFindsItDone ==
  ASSUME NEW c \in Contents, NEW batch \in Batches,
         PatchStatus(c, batch) = "Success"
  PROVE  /\ PatchStatus(Merge(c, batch), batch) = "Success"
         /\ Merge(Merge(c, batch), batch) = Merge(c, batch)
         /\ Unchanged(Merge(c, batch), Merge(Merge(c, batch), batch))
<1> DEFINE d == Merge(c, batch)
<1>1. d \in Documents /\ d \in Valid /\ d # Missing
  BY PatchSuccess, MergeAssumption
<1>2. ValuesOf(d) = d
  BY <1>1 DEF ValuesOf
<1>3. DOMAIN batch \subseteq Keys
  BY DEF Batches
<1>4. \A k \in DOMAIN batch : d[k] = batch[k].pending
  BY <1>3 DEF Merge
<1>5. Merge(d, batch) = d
  <2>1. \A k \in Keys : (IF k \in DOMAIN batch THEN batch[k].pending
                                             ELSE ValuesOf(d)[k]) = d[k]
    BY <1>2, <1>4
  <2>2. d = [k \in Keys |-> d[k]]
    BY DEF Merge
  <2> HIDE DEF d
  <2> QED BY <2>1, <2>2 DEF Merge
<1> HIDE DEF d
<1>6. Conflicts(d, batch) = {} /\ Unsupported(d, batch) = {}
  BY <1>2, <1>4 DEF Conflicts, Unsupported
<1>7. PatchStatus(d, batch) = "Success"
  BY <1>1, <1>5, <1>6 DEF PatchStatus
<1>8. Unchanged(d, Merge(d, batch))
  BY <1>1, <1>5 DEF Unchanged, SameBytes
<1> QED BY <1>5, <1>7, <1>8 DEF d

\* Calls that edit different keys do not disturb each other: if each could be
\* made first, the second meets no conflict and nothing it cannot edit, and
\* the document that comes out, or the schema's objection to both together,
\* does not depend on which of them had the lock first.
THEOREM OrderDoesNotMatter ==
  ASSUME NEW c \in Contents, NEW one \in Batches, NEW two \in Batches,
         DOMAIN one \cap DOMAIN two = {},
         PatchStatus(c, one) = "Success", PatchStatus(c, two) = "Success"
  PROVE  /\ Merge(Merge(c, one), two) = Merge(Merge(c, two), one)
         /\ Conflicts(Merge(c, one), two) = {}
         /\ Unsupported(Merge(c, one), two) = {}
         /\ PatchStatus(Merge(c, one), two) = PatchStatus(Merge(c, two), one)
<1> DEFINE Both == [k \in Keys |-> IF k \in DOMAIN one THEN one[k].pending
                                  ELSE IF k \in DOMAIN two THEN two[k].pending
                                  ELSE ValuesOf(c)[k]]
<1>1. ASSUME NEW f \in Batches, NEW s \in Batches,
             DOMAIN f \cap DOMAIN s = {},
             PatchStatus(c, f) = "Success", PatchStatus(c, s) = "Success"
      PROVE  /\ ValuesOf(Merge(c, f)) = Merge(c, f)
             /\ Merge(c, f) \in Valid
             /\ Conflicts(Merge(c, f), s) = {}
             /\ Unsupported(Merge(c, f), s) = {}
  <2> DEFINE d == Merge(c, f)
  <2>1. d \in Documents /\ d \in Valid
    BY <1>1, PatchSuccess
  <2>2. ValuesOf(d) = d
    BY <2>1 DEF ValuesOf
  <2>3. \A k \in DOMAIN s : k \in Keys /\ k \notin DOMAIN f
    BY <1>1 DEF Batches
  <2>4. \A k \in DOMAIN s : ValuesOf(d)[k] = ValuesOf(c)[k]
    BY <2>2, <2>3 DEF Merge
  <2>5. Conflicts(c, s) = {} /\ Unsupported(c, s) = {}
    BY <1>1 DEF PatchStatus
  <2> HIDE DEF d
  <2>6. Conflicts(d, s) = {} /\ Unsupported(d, s) = {}
    BY <2>4, <2>5 DEF Conflicts, Unsupported
  <2> QED BY <2>1, <2>2, <2>6 DEF d
<1>2. /\ ValuesOf(Merge(c, one)) = Merge(c, one) /\ Merge(c, one) \in Valid
      /\ Conflicts(Merge(c, one), two) = {}
      /\ Unsupported(Merge(c, one), two) = {}
  BY <1>1
<1>3. /\ ValuesOf(Merge(c, two)) = Merge(c, two) /\ Merge(c, two) \in Valid
      /\ Conflicts(Merge(c, two), one) = {}
      /\ Unsupported(Merge(c, two), one) = {}
  <2> DOMAIN two \cap DOMAIN one = {}
    OBVIOUS
  <2> QED BY <1>1
<1>4. Merge(Merge(c, one), two) = Both
  <2>1. \A k \in Keys : ValuesOf(Merge(c, one))[k]
          = IF k \in DOMAIN one THEN one[k].pending ELSE ValuesOf(c)[k]
    BY <1>2 DEF Merge
  <2>2. Merge(Merge(c, one), two)
          = [k \in Keys |-> IF k \in DOMAIN two THEN two[k].pending
                           ELSE ValuesOf(Merge(c, one))[k]]
    BY DEF Merge
  <2> QED BY <2>1, <2>2
<1>5. Merge(Merge(c, two), one) = Both
  <2>1. \A k \in Keys : ValuesOf(Merge(c, two))[k]
          = IF k \in DOMAIN two THEN two[k].pending ELSE ValuesOf(c)[k]
    BY <1>3 DEF Merge
  <2>2. Merge(Merge(c, two), one)
          = [k \in Keys |-> IF k \in DOMAIN one THEN one[k].pending
                           ELSE ValuesOf(Merge(c, two))[k]]
    BY DEF Merge
  <2> QED BY <2>1, <2>2
<1> HIDE DEF Both
<1>6. PatchStatus(Merge(c, one), two) = PatchStatus(Merge(c, two), one)
  BY <1>2, <1>3, <1>4, <1>5 DEF PatchStatus
<1> QED BY <1>2, <1>4, <1>5, <1>6

-----------------------------------------------------------------------------
(* Links.                                                                    *)

\* From the last check of the target to the write, the path leads to the target
\* unless somebody pointed it elsewhere in between.
LinkInv ==
  \A p \in Procs :
    pc[p] \in {"remeta", "rename", "unlink"} /\ "link" \notin raced[p]
      => Resolve(call[p].path) = Target(p)

\* The check of the target establishes it, and only Relink moves a link.
LEMMA LinkNext == TypeInv /\ LinkInv /\ [Next]_vars => LinkInv'
<1> DEFINE Window == {"remeta", "rename", "unlink"}
<1> SUFFICES ASSUME TypeInv, LinkInv, [Next]_vars, NEW q \in Procs,
                    pc'[q] \in Window, "link" \notin raced'[q]
             PROVE  Resolve(call[q].path)' = Target(q)'
  BY DEF LinkInv
<1> TypeOK
  BY DEF TypeInv
<1>0. ASSUME pc[q] \in Window, "link" \notin raced[q]
      PROVE  Resolve(call[q].path) = Target(q)
  BY <1>0 DEF LinkInv
<1>1. ASSUME NEW p \in Procs, p # q,
             \/ BeginUpdate(p) \/ BeginRestore(p) \/ Step(p)
             \/ Fault(p) \/ Crash(p)
      PROVE  Resolve(call[q].path)' = Target(q)'
  <2>1. /\ pc'[q] = pc[q] /\ call'[q] = call[q]
        /\ raced'[q] = raced[q]
    BY <1>1, WriterKeepsToItself DEF KeepsToItself, OthersStay
  <2>2. link' = link
    BY <1>1, WriterKeepsToItself DEF KeepsToItself
  <2> QED
    BY <1>0, <2>1, <2>2 DEF Resolve, Target
<1>2. ASSUME \/ BeginUpdate(q) \/ BeginRestore(q) \/ Step(q)
             \/ Fault(q) \/ Crash(q)
      PROVE  Resolve(call[q].path)' = Target(q)'
  <2>1. \/ RecheckTarget(q) /\ SameTarget(q)
        \/ RecheckMetadata(q) /\ pc[q] \in Window
    <3> pc \in [Procs -> Steps]
      BY DEF TypeOK
    <3> USE DEF At, Return, Check
    <3>1. CASE Step(q)
      BY <3>1
      DEF Step, ResolveTarget, PreRead, Lock, ResolveAgain, ReadCurrent,
          Stat, CreateTemporary, FillTemporary, RecheckRevision,
          RecheckTarget, RecheckMetadata, Rename, Unlink, SyncDirectory,
          Finish, Forget
    <3>2. CASE \/ BeginUpdate(q) \/ BeginRestore(q) \/ Fault(q) \/ Crash(q)
      BY <3>2 DEF BeginUpdate, BeginRestore, Begin, Fault, Crash, Forget
    <3> QED
      BY <1>2, <3>1, <3>2
  <2>2. UNCHANGED <<link, call, raced>>
    BY <2>1 DEF RecheckTarget, RecheckMetadata, disk, history
  <2> QED
    BY <1>0, <2>1, <2>2 DEF SameTarget, Resolve, Target
<1>3. ASSUME \E t \in Targets : \/ ExternalWrite(t) \/ ExternalReplace(t)
                                \/ ExternalDelete(t) \/ ExternalChmod(t)
      PROVE  Resolve(call[q].path)' = Target(q)'
  <2>1. UNCHANGED <<pc, call, link>> /\ "link" \notin raced[q]
    BY <1>3 DEF ExternalWrite, ExternalReplace, ExternalDelete, ExternalChmod,
       External, Put, Race
  <2> QED
    BY <1>0, <2>1 DEF Resolve, Target
<1>4. ASSUME NEW l \in Links, Relink(l)
      PROVE  Resolve(call[q].path)' = Target(q)'
  <2>1. UNCHANGED <<pc, call>> /\ "link" \notin raced[q] /\ call[q].path # l
    BY <1>4 DEF Relink, Race
  <2>2. \A n \in Links \ {l} : link'[n] = link[n]
    BY <1>4 DEF Relink, TypeOK
  <2> QED
    BY <1>0, <2>1, <2>2 DEF Resolve, Target
<1>5. CASE PowerLoss
  BY <1>5 DEF PowerLoss
<1>6. CASE UNCHANGED vars
  BY <1>0, <1>6 DEF vars, disk, history, Resolve, Target
<1> QED
  BY <1>1, <1>2, <1>3, <1>4, <1>5, <1>6 DEF Next

\* A write goes to the physical file the path leads to.
THEOREM FollowsLinks == Spec => WriteFollowsLink
<1> DEFINE P(p) == Commits(p) /\ "link" \notin raced[p]
                     => Resolve(call[p].path) = Target(p)
<1>1. StoreInv /\ LinkInv /\ [Next]_vars => [\A p \in Procs : P(p)]_vars
  <2> SUFFICES ASSUME StoreInv, LinkInv, [Next]_vars, NEW p \in Procs,
                      Commits(p), "link" \notin raced[p]
               PROVE  Resolve(call[p].path) = Target(p)
    OBVIOUS
  <2>1. pc[p] \in {"rename", "unlink"}
    BY CommitsByWriting DEF Rename, Unlink
  <2> QED
    BY <2>1 DEF LinkInv
<1>2. Init => LinkInv
  BY DEF Init, LinkInv
<1>3. StoreInv /\ LinkInv /\ [Next]_vars => LinkInv'
  BY LinkNext DEF StoreInv
<1> QED
  BY <1>1, <1>2, <1>3, StoreCorrect, PTL DEF Spec, WriteFollowsLink

-----------------------------------------------------------------------------
(* Statuses.                                                                 *)

\* A call has written from its rename or unlink on, and then ends with one of
\* the two statuses that say so.
StatusOK(p) ==
  /\ wrote[p] => pc[p] \in {"syncdir", "finish"}
  /\ pc[p] = "syncdir" => wrote[p]
  /\ pc[p] = "finish" /\ wrote[p]
       => result[p] \in {"Success", "DurabilityFailure"}
  /\ pc[p] = "finish" /\ ~wrote[p]
       => /\ result[p] # "DurabilityFailure"
          /\ result[p] = "Success" => call[p].current = call[p].next

StatusInv == \A p \in Procs : StatusOK(p)

\* Every way out of updateDocument returns the status of what it has done.
LEMMA StatusStep ==
  ASSUME TypeInv, NEW p \in Procs, StatusOK(p),
         \/ BeginUpdate(p) \/ BeginRestore(p) \/ Step(p)
         \/ Fault(p) \/ Crash(p)
  PROVE  StatusOK(p)'
<1> /\ pc \in [Procs -> Steps] /\ result \in [Procs -> Statuses \cup {None}]
    /\ wrote \in [Procs -> BOOLEAN] /\ call \in [Procs -> Call]
  BY DEF TypeInv, TypeOK
<1> USE DEF StatusOK, At, Return, Check, disk, history
<1>1. CASE \/ ResolveTarget(p) \/ PreRead(p) \/ Lock(p) \/ ResolveAgain(p)
           \/ Stat(p) \/ CreateTemporary(p) \/ FillTemporary(p)
           \/ RecheckRevision(p) \/ RecheckTarget(p) \/ RecheckMetadata(p)
  BY <1>1
  DEF ResolveTarget, PreRead, Lock, ResolveAgain, Stat, CreateTemporary,
      FillTemporary, RecheckRevision, RecheckTarget, RecheckMetadata
<1>2. CASE ReadCurrent(p)
  <2> DEFINE c      == Found(p)
             new    == Wanted(p, c)
             status == ReadStatus(p, c)
  <2>1. status # "DurabilityFailure"
    BY PatchStatusType DEF ReadStatus, RestoreStatus, Statuses
  <2>2. /\ pc[p] = "read" /\ wrote' = wrote
        /\ \/ status # "Success" /\ Return(p, status)
           \/ Return(p, "Success") /\ Plan(p, c, c)
           \/ At(p, IF new = Missing THEN "recheck" ELSE "stat")
    BY <1>2 DEF ReadCurrent
  <2>3. Plan(p, c, c) => call'[p].current = call'[p].next
    BY DEF Plan, Call
  <2> QED
    BY <2>1, <2>2, <2>3
<1>3. CASE Rename(p) \/ Unlink(p)
  BY <1>3 DEF Rename, Unlink
<1>4. CASE SyncDirectory(p)
  BY <1>4 DEF SyncDirectory
<1>5. CASE Fault(p)
  <2>1. PICK status \in FaultStatus(p) : Return(p, status)
    BY <1>5 DEF Fault
  <2>2. /\ status # "Success"
        /\ status = "DurabilityFailure" <=> pc[p] = "syncdir"
        /\ pc[p] # "finish"
    BY DEF FaultStatus, DurabilityStatus
  <2> QED
    BY <1>5, <2>1, <2>2 DEF Fault
<1>6. CASE Finish(p) \/ Crash(p)
  BY <1>6 DEF Finish, Crash, Forget
<1>7. CASE BeginUpdate(p) \/ BeginRestore(p)
  BY <1>7 DEF BeginUpdate, BeginRestore, Begin
<1> QED
  BY <1>1, <1>2, <1>3, <1>4, <1>5, <1>6, <1>7 DEF Step

\* Nobody else touches what a status is about.
LEMMA StatusNext == TypeInv /\ StatusInv /\ [Next]_vars => StatusInv'
<1> SUFFICES ASSUME TypeInv, StatusInv, [Next]_vars, NEW q \in Procs
             PROVE  StatusOK(q)'
  BY DEF StatusInv
<1> TypeOK /\ StatusOK(q)
  BY DEF TypeInv, StatusInv
<1>1. CASE UNCHANGED <<pc[q], call[q], result[q], wrote[q]>>
  BY <1>1 DEF StatusOK
<1>2. ASSUME NEW p \in Procs,
             \/ BeginUpdate(p) \/ BeginRestore(p) \/ Step(p)
             \/ Fault(p) \/ Crash(p)
      PROVE  StatusOK(q)'
  <2>1. CASE p = q
    BY <1>2, <2>1, StatusStep
  <2>2. CASE p # q
    BY <1>1, <1>2, <2>2, WriterKeepsToItself DEF KeepsToItself, OthersStay
  <2> QED
    BY <2>1, <2>2
<1>3. CASE \/ \E t \in Targets : \/ ExternalWrite(t) \/ ExternalReplace(t)
                                 \/ ExternalDelete(t) \/ ExternalChmod(t)
           \/ \E l \in Links : Relink(l)
           \/ UNCHANGED vars
  BY <1>1, <1>3 DEF ExternalWrite, ExternalReplace, ExternalDelete,
     ExternalChmod, Relink, External, vars, history
<1>4. CASE PowerLoss
  BY <1>4 DEF PowerLoss, StatusOK
<1> QED
  BY <1>2, <1>3, <1>4 DEF Next

\* The status of a call says whether it wrote.
THEOREM StatusesAreTrue == Spec => []StatusTellsTheTruth
<1>1. Init => StatusInv
  BY DEF Init, StatusInv, StatusOK
<1>2. StatusInv => StatusTellsTheTruth
  BY DEF StatusInv, StatusOK, StatusTellsTheTruth, SameBytes
<1>3. Init => TypeInv
  BY TypeInit
<1>4. TypeInv /\ StatusInv /\ [Next]_vars => (TypeInv /\ StatusInv)'
  BY TypeNext, StatusNext
<1> QED
  BY <1>1, <1>2, <1>3, <1>4, PTL DEF Spec

=============================================================================
