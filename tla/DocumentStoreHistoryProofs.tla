--------------------- MODULE DocumentStoreHistoryProofs ---------------------
(***************************************************************************)
(* Theorems about what the calls of DocumentStore leave behind: the        *)
(* permissions of the files, what a rollback undoes, and what survives.    *)
(***************************************************************************)
EXTENDS DocumentStoreProofs

\* The temporary file of p is complete, and not yet in place.
Complete(p) ==
  \/ pc[p] \in {"remeta", "rename"}
  \/ pc[p] \in {"recheck", "retarget"} /\ call[p].next # Missing

\* A temporary file is for a document, and exists from its creation on.  Once it
\* is complete it is on the disk, with the permissions of the file it replaces.
TempOK(p) ==
  /\ pc[p] \in {"stat", "create", "fill"} => call[p].next # Missing
  /\ \/ pc[p] \in {"resolve", "preread", "lock", "locked", "read", "stat",
                   "create", "unlink"}
     \/ pc[p] \in {"recheck", "retarget"} /\ call[p].next = Missing
     => call[p].temp = None
  /\ Complete(p) => /\ call[p].temp.synced = call[p].next
                    /\ call[p].temp.mode = ModeOf(p)
  /\ pc[p] \in {"create", "fill"} \/ Complete(p)
       => (call[p].seen = None <=> call[p].current = Missing)
  /\ pc[p] = "syncdir" => Persisted(p) = call[p].next

\* A rollback works on the path of its handle, and past its checks it is about
\* to put the previous document in the place of the staged one.
RestoreOK(p) ==
  call[p].op = "restore" =>
    /\ pc[p] \in Steps \ {"idle", "resolve", "finish"}
         => Target(p) = handle[p].home
    /\ pc[p] \in LockedSteps \ {"locked", "read"}
         => /\ call[p].current = handle[p].staged
            /\ call[p].next = handle[p].previous

Done == {"Success", "DurabilityFailure"}

\* A stage has left its document, and its caller has no handle for it yet.
Unanswered(p) ==
  /\ call[p].op = "stage"
  /\ \/ pc[p] = "syncdir"
     \/ pc[p] = "finish" /\ result[p] \in Done

\* A handle tells what the last stage really did, as far as it was not raced.
HandleOK(p) ==
  before[p] # None =>
    /\ Unanswered(p)
         => before[p] = [home |-> Target(p), was |-> call[p].current,
                         left |-> call[p].next]
    /\ handle[p] # None
         => \/ call[p].op = "stage" /\ pc[p] \in {"syncdir", "finish"}
            \/ handle[p] = [staged |-> before[p].left,
                            previous |-> before[p].was,
                            home |-> before[p].home]

\* A file that is about to be replaced has the metadata that were looked at,
\* unless somebody changed it after the last check.
MetaInv ==
  \A p \in Procs :
    pc[p] = "rename" /\ raced[p] = {} /\ call[p].current # Missing
      => meta[Target(p)] = call[p].seen

\* What was acknowledged is there, and there is nothing else on the disk.
AckedInv ==
  \A t \in Targets : acked[t] # None
    => content[t] = acked[t] /\ stable[t] = {acked[t]}

HistoryInv == /\ \A p \in Procs : TempOK(p) /\ RestoreOK(p) /\ HandleOK(p)
              /\ MetaInv
              /\ AckedInv

-----------------------------------------------------------------------------
(* Whose step it is.                                                         *)

\* A step of p itself.
Acts(p) ==
  BeginUpdate(p) \/ BeginRestore(p) \/ Step(p) \/ Fault(p) \/ Crash(p)

\* Nothing that is p's own changes.
Untouched(p) ==
  /\ pc'[p] = pc[p]
  /\ call'[p] = call[p]
  /\ result'[p] = result[p]
  /\ handle'[p] = handle[p]
  /\ before'[p] = before[p]

\* Only p itself and a power loss change what is p's own.
LEMMA Frame ==
  ASSUME TypeOK, [Next]_vars, NEW q \in Procs
  PROVE  Acts(q) \/ PowerLoss \/ Untouched(q)
<1>1. ASSUME NEW p \in Procs, p # q,
             \/ BeginUpdate(p) \/ BeginRestore(p) \/ Step(p)
             \/ Fault(p) \/ Crash(p)
      PROVE  Untouched(q)
  BY <1>1, WriterKeepsToItself DEF KeepsToItself, OthersStay, Untouched
<1>2. ASSUME \/ \E t \in Targets : \/ ExternalWrite(t) \/ ExternalReplace(t)
                                   \/ ExternalDelete(t) \/ ExternalChmod(t)
             \/ \E l \in Links : Relink(l)
             \/ UNCHANGED vars
      PROVE  Untouched(q)
  BY <1>2 DEF ExternalWrite, ExternalReplace, ExternalDelete, ExternalChmod,
     Relink, External, Put, vars, history, Untouched
<1> QED
  BY <1>1, <1>2 DEF Next, Acts

-----------------------------------------------------------------------------
(* The temporary file.                                                       *)

\* A step of p makes, completes or drops its temporary file when it should.
LEMMA TempStep ==
  ASSUME StoreInv, NEW p \in Procs, TempOK(p), Acts(p)
  PROVE  TempOK(p)'
<1> /\ pc \in [Procs -> Steps] /\ call \in [Procs -> Call]
    /\ call[p] \in Call /\ LocalOK(p) /\ PlanOK(p)
  BY DEF StoreInv, TypeInv, TypeOK
<1> USE DEF At, Return, Check, TempOK, Complete, LockedSteps, Steps
<1>1. CASE ResolveTarget(p)
  BY <1>1 DEF ResolveTarget, Call
<1>2. CASE PreRead(p) \/ Lock(p) \/ ResolveAgain(p)
  BY <1>2 DEF PreRead, Lock, ResolveAgain
<1>3. CASE ReadCurrent(p)
  <2> DEFINE c   == Found(p)
             new == Wanted(p, c)
  <2>1. CASE pc'[p] = "finish"
    BY <2>1
  <2>2. CASE pc'[p] # "finish"
    <3>1. /\ pc[p] = "read"
          /\ pc'[p] = IF new = Missing THEN "recheck" ELSE "stat"
          /\ call' = [call EXCEPT ![p].current = c, ![p].next = new]
      BY <1>3, <2>2 DEF ReadCurrent, Plan
    <3>2. call'[p].next = new /\ call'[p].temp = call[p].temp
      BY <3>1 DEF Call
    <3> QED
      BY <3>1, <3>2
  <2> QED
    BY <2>1, <2>2
<1>4. CASE Stat(p)
  <2>1. CASE pc'[p] = "finish"
    BY <2>1
  <2>2. CASE pc'[p] # "finish"
    <3>1. /\ pc[p] = "stat" /\ pc'[p] = "create"
          /\ call[p].current = Missing \/ meta[Target(p)] # None
          /\ call' = [call EXCEPT ![p].seen =
               IF call[p].current = Missing THEN None ELSE meta[Target(p)]]
      BY <1>4, <2>2 DEF Stat
    <3>2. /\ call'[p].temp = call[p].temp
          /\ call'[p].current = call[p].current
          /\ call'[p].next = call[p].next
          /\ call'[p].seen = None <=> call[p].current = Missing
      BY <3>1 DEF Call
    <3> QED
      BY <3>1, <3>2
  <2> QED
    BY <2>1, <2>2
<1>5. CASE CreateTemporary(p)
  <2>1. /\ pc[p] = "create" /\ pc'[p] = "fill"
        /\ call'[p].current = call[p].current
        /\ call'[p].next = call[p].next
        /\ call'[p].seen = call[p].seen
    BY <1>5 DEF CreateTemporary, Call
  <2> QED
    BY <2>1
<1>6. CASE FillTemporary(p)
  <2>1. /\ pc[p] = "fill" /\ pc'[p] = "recheck"
        /\ call' = [call EXCEPT ![p].temp = Filled(p)]
    BY <1>6 DEF FillTemporary
  <2>2. /\ call'[p].current = call[p].current
        /\ call'[p].next = call[p].next
        /\ call'[p].seen = call[p].seen
        /\ call'[p].temp = Filled(p)
    BY <2>1 DEF Call
  <2>3. call'[p].next # Missing
    BY <2>1, <2>2
  <2> QED
    BY <2>1, <2>2 DEF ModeOf, Filled
<1>7. CASE RecheckRevision(p) \/ RecheckTarget(p) \/ RecheckMetadata(p)
  BY <1>7 DEF RecheckRevision, RecheckTarget, RecheckMetadata, ModeOf
<1>8. CASE Rename(p)
  <2>1. pc[p] = "rename" /\ pc'[p] = "syncdir" /\ call' = call
    BY <1>8 DEF Rename
  <2>2. call[p].temp # None /\ call[p].temp.synced = call[p].next
    BY <2>1 DEF LocalOK
  <2> QED
    BY <2>1, <2>2 DEF Persisted
<1>9. CASE Unlink(p)
  <2>1. pc[p] = "unlink" /\ call' = call
    BY <1>9 DEF Unlink
  <2>2. call[p].next = Missing /\ call[p].temp = None
    BY <2>1 DEF PlanOK
  <2> QED
    BY <1>9, <2>1, <2>2 DEF Unlink, Persisted
<1>10. CASE SyncDirectory(p) \/ Finish(p)
  BY <1>10 DEF SyncDirectory, Finish, Forget
<1>11. CASE Fault(p) \/ Crash(p)
  BY <1>11 DEF Fault, Crash, Forget
<1>12. CASE BeginUpdate(p) \/ BeginRestore(p)
  BY <1>12 DEF BeginUpdate, BeginRestore, Begin, NoCall
<1> QED
  BY <1>1, <1>2, <1>3, <1>4, <1>5, <1>6, <1>7, <1>8, <1>9, <1>10, <1>11,
     <1>12 DEF Acts, Step

\* A power loss leaves no temporary file that anybody knows of.
LEMMA TempNext ==
  StoreInv /\ (\A p \in Procs : TempOK(p)) /\ [Next]_vars
    => \A p \in Procs : TempOK(p)'
<1> SUFFICES ASSUME StoreInv, \A p \in Procs : TempOK(p), [Next]_vars,
                    NEW q \in Procs
             PROVE  TempOK(q)'
  OBVIOUS
<1>1. CASE Acts(q)
  BY <1>1, TempStep
<1>2. CASE PowerLoss
  BY <1>2 DEF PowerLoss, TempOK, Complete
<1>3. CASE Untouched(q)
  BY <1>3 DEF Untouched, TempOK, Complete, ModeOf, Persisted
<1> QED
  BY <1>1, <1>2, <1>3, Frame DEF StoreInv, TypeInv

-----------------------------------------------------------------------------
(* Rollbacks.                                                                *)

\* A rollback that is past its check of the path is at the home of its handle.
LEMMA RestoreStep ==
  ASSUME TypeInv, NEW p \in Procs, RestoreOK(p), Acts(p)
  PROVE  RestoreOK(p)'
<1> /\ pc \in [Procs -> Steps] /\ call \in [Procs -> Call]
    /\ call[p] \in Call /\ handle \in [Procs -> Handle \cup {None}]
  BY DEF TypeInv, TypeOK
<1> USE DEF At, Return, Check, RestoreOK, LockedSteps, Steps
<1>1. CASE ResolveTarget(p)
  <2>1. /\ pc[p] = "resolve" /\ handle' = handle
        /\ call' = [call EXCEPT ![p].target = Resolve(call[p].path)]
        /\ \/ TargetMatches(p) /\ pc'[p] = "preread"
           \/ pc'[p] = "finish"
    BY <1>1 DEF ResolveTarget
  <2>2. call'[p].op = call[p].op /\ Target(p)' = Resolve(call[p].path)
    BY <2>1 DEF Target, Call
  <2> QED
    BY <2>1, <2>2 DEF TargetMatches
<1>2. CASE PreRead(p) \/ Lock(p) \/ ResolveAgain(p)
  BY <1>2 DEF PreRead, Lock, ResolveAgain, Target
<1>3. CASE ReadCurrent(p)
  <2> DEFINE c   == Found(p)
             new == Wanted(p, c)
  <2>1. CASE pc'[p] = "finish"
    BY <2>1
  <2>2. CASE pc'[p] # "finish"
    <3>1. /\ pc[p] = "read" /\ handle' = handle
          /\ ReadStatus(p, c) = "Success"
          /\ call' = [call EXCEPT ![p].current = c, ![p].next = new]
      BY <1>3, <2>2 DEF ReadCurrent, Plan
    <3>2. /\ call'[p].current = c
          /\ call'[p].next = new
          /\ call'[p].op = call[p].op
          /\ call'[p].target = call[p].target
      BY <3>1 DEF Call
    <3>3. call[p].op = "restore"
            => c = handle[p].staged /\ new = handle[p].previous
      BY <3>1 DEF ReadStatus, Wanted
    <3> QED
      BY <3>1, <3>2, <3>3 DEF Target
  <2> QED
    BY <2>1, <2>2
<1>4. CASE Stat(p) \/ CreateTemporary(p) \/ FillTemporary(p)
  <2>1. /\ pc[p] \in {"stat", "create", "fill"}
        /\ handle' = handle
        /\ call'[p].op = call[p].op
        /\ call'[p].target = call[p].target
        /\ call'[p].current = call[p].current
        /\ call'[p].next = call[p].next
    BY <1>4 DEF Stat, CreateTemporary, FillTemporary, Call
  <2> QED
    BY <2>1 DEF Target
<1>5. CASE RecheckRevision(p) \/ RecheckTarget(p) \/ RecheckMetadata(p)
  BY <1>5 DEF RecheckRevision, RecheckTarget, RecheckMetadata, Target
<1>6. CASE Rename(p) \/ Unlink(p) \/ SyncDirectory(p)
  BY <1>6 DEF Rename, Unlink, Put, SyncDirectory, Target
<1>7. CASE Fault(p)
  BY <1>7 DEF Fault, Target
<1>8. CASE Finish(p) \/ Crash(p)
  BY <1>8 DEF Finish, Crash, Forget
<1>9. CASE BeginUpdate(p) \/ BeginRestore(p)
  BY <1>9 DEF BeginUpdate, BeginRestore, Begin
<1> QED
  BY <1>1, <1>2, <1>3, <1>4, <1>5, <1>6, <1>7, <1>8, <1>9 DEF Acts, Step

\* Nobody else moves a rollback.
LEMMA RestoreNext ==
  TypeInv /\ (\A p \in Procs : RestoreOK(p)) /\ [Next]_vars
    => \A p \in Procs : RestoreOK(p)'
<1> SUFFICES ASSUME TypeInv, \A p \in Procs : RestoreOK(p), [Next]_vars,
                    NEW q \in Procs
             PROVE  RestoreOK(q)'
  OBVIOUS
<1>1. CASE Acts(q)
  BY <1>1, RestoreStep
<1>2. CASE PowerLoss
  BY <1>2 DEF PowerLoss, RestoreOK, LockedSteps, Steps
<1>3. CASE Untouched(q)
  BY <1>3 DEF Untouched, RestoreOK, Target
<1> QED
  BY <1>1, <1>2, <1>3, Frame DEF TypeInv

\* A stage notes what it really did, and makes its handle of the same documents.
LEMMA HandleStep ==
  ASSUME StoreInv, NEW p \in Procs, HandleOK(p), Acts(p)
  PROVE  HandleOK(p)'
<1> /\ pc \in [Procs -> Steps] /\ call \in [Procs -> Call]
    /\ call[p] \in Call /\ handle \in [Procs -> Handle \cup {None}]
    /\ result \in [Procs -> Statuses \cup {None}] /\ LocalOK(p) /\ PlanOK(p)
    /\ before \in [Procs -> [home : Targets, was : Contents, left : Contents]
                              \cup {None}]
  BY DEF StoreInv, TypeInv, TypeOK
<1> USE DEF At, Return, Check, HandleOK, Unanswered, LockedSteps, Steps, Done
<1>1. CASE \/ ResolveTarget(p) \/ PreRead(p) \/ Lock(p) \/ ResolveAgain(p)
           \/ Stat(p) \/ CreateTemporary(p) \/ FillTemporary(p)
           \/ RecheckRevision(p) \/ RecheckTarget(p) \/ RecheckMetadata(p)
  <2>1. /\ pc[p] \notin {"syncdir", "finish"} /\ pc'[p] # "syncdir"
        /\ pc'[p] = "finish" => result'[p] \notin Done
        /\ call'[p].op = call[p].op
        /\ handle' = handle /\ before' = before
    BY <1>1
    DEF ResolveTarget, PreRead, Lock, ResolveAgain, Stat, CreateTemporary,
        FillTemporary, RecheckRevision, RecheckTarget, RecheckMetadata,
        history, Call
  <2> QED
    BY <2>1
<1>2. CASE ReadCurrent(p)
  <2> DEFINE c   == Found(p)
             new == Wanted(p, c)
  <2>1. pc[p] = "read" /\ handle' = handle
    BY <1>2 DEF ReadCurrent
  <2>2. ReadStatus(p, c) # "DurabilityFailure"
    BY PatchStatusType DEF ReadStatus, RestoreStatus, Statuses
  <2>3. \/ /\ ReadStatus(p, c) # "Success"
           /\ Return(p, ReadStatus(p, c)) /\ UNCHANGED <<call, before>>
        \/ Return(p, "Success") /\ Plan(p, c, c) /\ Remember(p, c, c)
        \/ /\ At(p, IF new = Missing THEN "recheck" ELSE "stat")
           /\ Plan(p, c, new)
           /\ UNCHANGED <<result, before>>
    BY <1>2 DEF ReadCurrent
  <2>4. CASE Return(p, "Success") /\ Plan(p, c, c) /\ Remember(p, c, c)
    <3>1. /\ call'[p].current = c
          /\ call'[p].next = c
          /\ call'[p].op = call[p].op
          /\ call'[p].target = call[p].target
      BY <2>4 DEF Plan, Call
    <3>2. CASE call[p].op = "stage" /\ before'[p] # None
      <4>1. before'[p] = [home |-> Target(p), was |-> c, left |-> c]
        BY <2>4, <3>2 DEF Remember
      <4> QED
        BY <2>1, <2>4, <3>1, <3>2, <4>1 DEF Target
    <3>3. CASE call[p].op # "stage"
      BY <2>1, <2>4, <3>1, <3>3 DEF Remember
    <3> QED
      BY <3>2, <3>3
  <2>5. CASE UNCHANGED before /\ ~(Return(p, "Success") /\ Plan(p, c, c))
    <3>1. call'[p].op = call[p].op
      BY <2>3, <2>5 DEF Plan, Call
    <3>2. /\ pc'[p] # "syncdir"
          /\ pc'[p] = "finish" => result'[p] \notin Done
      BY <2>2, <2>3, <2>5
    <3> QED
      BY <2>1, <2>5, <3>1, <3>2
  <2> QED
    BY <2>3, <2>4, <2>5
<1>3. CASE Rename(p)
  <2>1. /\ pc[p] = "rename" /\ pc'[p] = "syncdir"
        /\ call' = call /\ handle' = handle
        /\ Remember(p, Found(p), call[p].temp.content)
    BY <1>3 DEF Rename, Put
  <2>2. "content" \notin raced[p] => Found(p) = call[p].current
    BY <2>1 DEF StoreInv, WindowInv
  <2>3. call[p].temp.content = call[p].next
    BY <2>1 DEF PlanOK
  <2>4. CASE call[p].op = "stage" /\ before'[p] # None
    <3>1. before'[p] = [home |-> Target(p), was |-> call[p].current,
                        left |-> call[p].next]
      BY <2>1, <2>2, <2>3, <2>4 DEF Remember
    <3> QED
      BY <2>1, <2>4, <3>1 DEF Target
  <2>5. CASE call[p].op # "stage"
    BY <2>1, <2>5 DEF Remember
  <2> QED
    BY <2>4, <2>5
<1>4. CASE Unlink(p)
  <2>1. /\ pc[p] = "unlink" /\ call' = call /\ handle' = handle
        /\ before' = before
    BY <1>4 DEF Unlink, Put
  <2>2. call[p].op # "stage"
    <3>1. call[p].edits \in Batches /\ call[p].current \in Revisions
      BY <2>1 DEF Call, LocalOK
    <3> QED
      BY <2>1, <3>1, MergeKeepsOthers DEF PlanOK
  <2> QED
    BY <2>1, <2>2
<1>5. CASE SyncDirectory(p)
  BY <1>5 DEF SyncDirectory, Target
<1>6. CASE Fault(p)
  <2>1. PICK status \in FaultStatus(p) : Return(p, status)
    BY <1>6 DEF Fault
  <2>2. /\ status \notin Done \/ pc[p] = "syncdir"
        /\ pc[p] # "finish"
    BY DEF FaultStatus, DurabilityStatus
  <2>3. UNCHANGED <<call, handle, before>>
    BY <1>6 DEF Fault, history
  <2> QED
    BY <2>1, <2>2, <2>3 DEF Target
<1>7. CASE Finish(p)
  <2>1. /\ pc[p] = "finish" /\ pc'[p] = "idle" /\ before' = before
        /\ handle' = IF call[p].op = "stage"
                     THEN [handle EXCEPT ![p] = StagedHandle(p)] ELSE handle
    BY <1>7 DEF Finish, Forget
  <2>2. CASE call[p].op = "stage" /\ handle'[p] # None
    <3>1. handle'[p] = HandleWith(p, call[p].current) /\ result[p] \in Done
      BY <2>1, <2>2 DEF StagedHandle
    <3> QED
      BY <2>1, <2>2, <3>1 DEF HandleWith
  <2>3. CASE call[p].op = "stage" /\ handle'[p] = None
    BY <2>1, <2>3
  <2>4. CASE call[p].op # "stage"
    BY <2>1, <2>4
  <2> QED
    BY <2>2, <2>3, <2>4
<1>8. CASE Crash(p)
  BY <1>8 DEF Crash, Forget
<1>9. CASE BeginUpdate(p) \/ BeginRestore(p)
  <2>1. /\ pc[p] = "idle" /\ pc'[p] = "resolve"
        /\ before' = before /\ handle' = handle
    BY <1>9 DEF BeginUpdate, BeginRestore, Begin, history
  <2>2. handle[p] # None /\ before[p] # None
          => handle[p] = [staged |-> before[p].left,
                          previous |-> before[p].was,
                          home |-> before[p].home]
    BY <2>1
  <2> QED
    BY <2>1, <2>2
<1> QED
  BY <1>1, <1>2, <1>3, <1>4, <1>5, <1>6, <1>7, <1>8, <1>9 DEF Acts, Step

\* A power loss takes the handles with it, and nobody else has a say in them.
LEMMA HandleNext ==
  StoreInv /\ (\A p \in Procs : HandleOK(p)) /\ [Next]_vars
    => \A p \in Procs : HandleOK(p)'
<1> SUFFICES ASSUME StoreInv, \A p \in Procs : HandleOK(p), [Next]_vars,
                    NEW q \in Procs
             PROVE  HandleOK(q)'
  OBVIOUS
<1>1. CASE Acts(q)
  BY <1>1, HandleStep
<1>2. CASE PowerLoss
  BY <1>2 DEF PowerLoss, HandleOK, Unanswered
<1>3. CASE Untouched(q)
  BY <1>3 DEF Untouched, HandleOK, Unanswered, Target
<1> QED
  BY <1>1, <1>2, <1>3, Frame DEF StoreInv, TypeInv

-----------------------------------------------------------------------------
(* Permissions.                                                              *)

\* Between the last look at the metadata and the rename nobody who holds the
\* lock changes them, and everybody else is recorded as a race.
LEMMA MetaNext == StoreInv /\ MetaInv /\ [Next]_vars => MetaInv'
<1> SUFFICES ASSUME StoreInv, MetaInv, [Next]_vars, NEW q \in Procs,
                    pc'[q] = "rename", raced'[q] = {},
                    call'[q].current # Missing
             PROVE  meta'[Target(q)'] = call'[q].seen
  BY DEF MetaInv
<1> TypeOK /\ LocalOK(q)
  BY DEF StoreInv, TypeInv
<1>0. ASSUME pc[q] = "rename", raced[q] = {}, call'[q] = call[q]
      PROVE  /\ Target(q) \in Targets
             /\ meta[Target(q)] = call[q].seen
             /\ holder[Target(q)] = q
  BY <1>0 DEF LocalOK, LockedSteps, Steps, MetaInv, StoreInv, LockInv
<1>1. ASSUME NEW p \in Procs, p # q,
             \/ BeginUpdate(p) \/ BeginRestore(p) \/ Step(p)
             \/ Fault(p) \/ Crash(p)
      PROVE  meta'[Target(q)'] = call'[q].seen
  <2>1. KeepsToItself(p)
    BY <1>1, WriterKeepsToItself
  <2>2. pc[q] = "rename" /\ raced[q] = {} /\ call'[q] = call[q]
    BY <1>1, <2>1 DEF KeepsToItself, OthersStay
  <2>3. meta'[Target(q)] = meta[Target(q)]
    <3> SUFFICES ASSUME meta'[Target(q)] # meta[Target(q)]
                 PROVE  FALSE
      OBVIOUS
    <3>1. pc[p] \in {"rename", "unlink"} /\ Target(q) = Target(p)
      BY <1>0, <2>1, <2>2 DEF KeepsToItself
    <3>2. holder[Target(p)] = p
      BY <3>1 DEF StoreInv, LockInv, LockedSteps, Steps
    <3> QED
      BY <1>0, <1>1, <2>2, <3>1, <3>2
  <2> QED
    BY <1>0, <2>2, <2>3 DEF Target
<1>2. ASSUME Acts(q)
      PROVE  meta'[Target(q)'] = call'[q].seen
  <2>1. RecheckMetadata(q) /\ SameMetadata(q)
    <3> pc \in [Procs -> Steps]
      BY DEF TypeOK
    <3> USE DEF At, Return, Check
    <3>1. CASE Step(q)
      BY <3>1
      DEF Step, ResolveTarget, PreRead, Lock, ResolveAgain, ReadCurrent,
          Stat, CreateTemporary, FillTemporary, RecheckRevision,
          RecheckTarget, RecheckMetadata, Rename, Unlink, SyncDirectory,
          Finish, Forget
    <3>2. CASE \/ BeginUpdate(q) \/ BeginRestore(q) \/ Fault(q) \/ Crash(q)
      BY <3>2 DEF BeginUpdate, BeginRestore, Begin, Fault, Crash, Forget
    <3> QED
      BY <1>2, <3>1, <3>2 DEF Acts
  <2>2. UNCHANGED <<meta, call>>
    BY <2>1 DEF RecheckMetadata, disk
  <2> QED
    BY <2>1, <2>2 DEF SameMetadata, Target
<1>3. ASSUME NEW t \in Targets, NEW c, NEW m, External(t, c, m)
      PROVE  meta'[Target(q)'] = call'[q].seen
  <2>1. UNCHANGED <<pc, call>> /\ meta' = [meta EXCEPT ![t] = m]
    BY <1>3 DEF External, Put
  <2>2. Target(q) # t /\ raced[q] = {}
    BY <1>3, <2>1 DEF External, Race, Working
  <2> QED
    BY <1>0, <2>1, <2>2 DEF Target, TypeOK
<1>4. ASSUME NEW t \in Targets,
             \/ ExternalWrite(t) \/ ExternalReplace(t) \/ ExternalDelete(t)
      PROVE  meta'[Target(q)'] = call'[q].seen
  BY <1>3, <1>4 DEF ExternalWrite, ExternalReplace, ExternalDelete
<1>5. ASSUME NEW t \in Targets, ExternalChmod(t)
      PROVE  meta'[Target(q)'] = call'[q].seen
  <2>1. PICK m \in Modes : meta' = [meta EXCEPT ![t].mode = m]
    BY <1>5 DEF ExternalChmod
  <2>2. UNCHANGED <<pc, call>> /\ Target(q) # t /\ raced[q] = {}
    BY <1>5 DEF ExternalChmod, Race, Working
  <2> QED
    BY <1>0, <2>1, <2>2 DEF Target, TypeOK
<1>6. ASSUME NEW l \in Links, Relink(l)
      PROVE  meta'[Target(q)'] = call'[q].seen
  <2>1. UNCHANGED <<pc, call, meta>> /\ raced[q] = {}
    BY <1>6 DEF Relink, Race
  <2> QED
    BY <1>0, <2>1 DEF Target
<1>7. CASE PowerLoss
  BY <1>7 DEF PowerLoss
<1>8. CASE UNCHANGED vars
  BY <1>0, <1>8 DEF vars, disk, history, Target
<1> QED
  BY <1>1, <1>2, <1>4, <1>5, <1>6, <1>7, <1>8 DEF Next, Acts

-----------------------------------------------------------------------------
(* What was acknowledged.                                                    *)

\* A directory entry that changes is acknowledged to nobody.
LEMMA AckedPut ==
  ASSUME TypeOK, AckedInv, NEW t \in Targets, NEW new, NEW m, NEW surviving,
         Put(t, new, m, surviving)
  PROVE  AckedInv'
BY DEF Put, AckedInv, TypeOK

\* Only SyncDirectory acknowledges, when the new entry is all there is.
LEMMA AckedNext ==
  StoreInv /\ (\A p \in Procs : TempOK(p)) /\ AckedInv /\ [Next]_vars
    => AckedInv'
<1> SUFFICES ASSUME StoreInv, \A p \in Procs : TempOK(p), AckedInv, [Next]_vars
             PROVE  AckedInv'
  OBVIOUS
<1> TypeOK
  BY DEF StoreInv, TypeInv
<1>1. CASE UNCHANGED <<content, stable, acked>>
  BY <1>1 DEF AckedInv
<1>2. ASSUME NEW p \in Procs, SyncDirectory(p)
      PROVE  AckedInv'
  <2>1. TempOK(p) /\ LocalOK(p)
    BY DEF StoreInv, TypeInv
  <2>2. Target(p) \in Targets /\ Persisted(p) = call[p].next
    BY <1>2, <2>1 DEF SyncDirectory, LocalOK, TempOK, Steps
  <2>3. /\ content' = content
        /\ stable' = [stable EXCEPT ![Target(p)] =
                        {Persisted(p), content[Target(p)]}]
        /\ acked' = [acked EXCEPT ![Target(p)] =
                       IF content[Target(p)] = call[p].next
                       THEN call[p].next ELSE None]
    BY <1>2 DEF SyncDirectory
  <2> QED
    BY <2>2, <2>3 DEF AckedInv, TypeOK
<1>3. ASSUME NEW p \in Procs, Rename(p) \/ Unlink(p)
      PROVE  AckedInv'
  <2>1. Target(p) \in Targets
    BY <1>3 DEF Rename, Unlink, StoreInv, TypeInv, LocalOK, Steps
  <2>2. CASE Rename(p)
    BY <2>1, <2>2, AckedPut DEF Rename
  <2>3. CASE Unlink(p)
    BY <1>1, <2>1, <2>3, AckedPut DEF Unlink, disk
  <2> QED
    BY <1>3, <2>2, <2>3
<1>4. ASSUME NEW p \in Procs,
             \/ BeginUpdate(p) \/ BeginRestore(p) \/ Fault(p) \/ Crash(p)
             \/ ResolveTarget(p) \/ PreRead(p) \/ Lock(p) \/ ResolveAgain(p)
             \/ ReadCurrent(p) \/ Stat(p) \/ CreateTemporary(p)
             \/ FillTemporary(p) \/ RecheckRevision(p) \/ RecheckTarget(p)
             \/ RecheckMetadata(p) \/ Finish(p)
      PROVE  UNCHANGED <<content, stable, acked>>
  BY <1>4
  DEF BeginUpdate, BeginRestore, Begin, Fault, Crash, ResolveTarget, PreRead,
      Lock, ResolveAgain, ReadCurrent, Stat, CreateTemporary, FillTemporary,
      RecheckRevision, RecheckTarget, RecheckMetadata, Finish, Forget, disk,
      history
<1>5. ASSUME NEW t \in Targets,
             \/ ExternalWrite(t) \/ ExternalReplace(t) \/ ExternalDelete(t)
      PROVE  AckedInv'
  BY <1>5, AckedPut
  DEF ExternalWrite, ExternalReplace, ExternalDelete, External
<1>6. CASE \/ \E t \in Targets : ExternalChmod(t)
           \/ \E l \in Links : Relink(l)
           \/ UNCHANGED vars
  BY <1>1, <1>6 DEF ExternalChmod, Relink, vars, disk, history
<1>7. CASE PowerLoss
  <2>1. PICK lost \in SUBSET {t \in Targets : parent[t] = "new"} :
          /\ content' \in {c \in [Targets -> Contents] : \A t \in Targets :
               c[t] \in IF t \in lost THEN {Missing} ELSE stable[t]}
          /\ acked' = [t \in Targets |-> IF t \in lost THEN None ELSE acked[t]]
    BY <1>7 DEF PowerLoss
  <2>2. stable' = [t \in Targets |-> {content'[t]}]
    BY <1>7 DEF PowerLoss
  <2>3. ASSUME NEW t \in Targets, acked'[t] # None
        PROVE  content'[t] = acked'[t] /\ stable'[t] = {acked'[t]}
    <3>1. t \notin lost /\ acked'[t] = acked[t]
      BY <2>1, <2>3
    <3>2. content'[t] \in stable[t] /\ stable[t] = {acked[t]}
      BY <2>1, <2>3, <3>1 DEF AckedInv
    <3> QED
      BY <2>2, <3>1, <3>2
  <2> QED
    BY <2>3 DEF AckedInv
<1> QED
  BY <1>1, <1>2, <1>3, <1>4, <1>5, <1>6, <1>7 DEF Next, Step

-----------------------------------------------------------------------------
(* The theorems.                                                             *)

\* The inductive invariant of what calls leave behind: the temporary file, the
\* rollbacks and their handles, the metadata, and what was acknowledged.
THEOREM HistoryCorrect == Spec => []HistoryInv
<1>1. Init => HistoryInv
  BY StoreAssumption
  DEF Init, HistoryInv, TempOK, Complete, RestoreOK, HandleOK, MetaInv,
      AckedInv, NoCall, Operations
<1>2. StoreInv /\ HistoryInv /\ [Next]_vars => HistoryInv'
  <2> SUFFICES ASSUME StoreInv, HistoryInv, [Next]_vars
               PROVE  HistoryInv'
    OBVIOUS
  <2>1. \A p \in Procs : TempOK(p)' /\ RestoreOK(p)' /\ HandleOK(p)'
    BY TempNext, RestoreNext, HandleNext DEF HistoryInv, StoreInv
  <2>2. MetaInv' /\ AckedInv'
    BY MetaNext, AckedNext DEF HistoryInv
  <2> QED
    BY <2>1, <2>2 DEF HistoryInv
<1> QED
  BY <1>1, <1>2, StoreCorrect, PTL DEF Spec

\* A rollback that writes, not raced, undoes its stage: the check of the staged
\* revision, the window and the handle together say so.
THEOREM RollbacksUndo == Spec => RollbackUndoesStage
<1> DEFINE P(p) == /\ Commits(p)
                   /\ call[p].op = "restore"
                   /\ "content" \notin raced[p]
                   /\ before[p] # None
                   => /\ Target(p) = before[p].home
                      /\ Found(p) = before[p].left
                      /\ content'[Target(p)] = before[p].was
<1>1. StoreInv /\ HistoryInv /\ [Next]_vars => \A p \in Procs : P(p)
  <2> SUFFICES ASSUME StoreInv, HistoryInv, [Next]_vars,
                      NEW p \in Procs, Commits(p), call[p].op = "restore",
                      "content" \notin raced[p], before[p] # None
               PROVE  /\ Target(p) = before[p].home
                      /\ Found(p) = before[p].left
                      /\ content'[Target(p)] = before[p].was
    OBVIOUS
  <2> TypeOK /\ LocalOK(p) /\ PlanOK(p) /\ RestoreOK(p) /\ HandleOK(p)
    BY DEF StoreInv, TypeInv, HistoryInv
  <2>1. Rename(p) \/ Unlink(p)
    BY CommitsByWriting
  <2>2. pc[p] \in {"rename", "unlink"}
    BY <2>1 DEF Rename, Unlink
  <2>3. /\ Target(p) \in Targets
        /\ Found(p) = call[p].current
        /\ handle[p] # None
    BY <2>2 DEF StoreInv, WindowInv, LocalOK, Steps
  <2>4. /\ Target(p) = handle[p].home
        /\ call[p].current = handle[p].staged
        /\ call[p].next = handle[p].previous
    BY <2>2 DEF RestoreOK, LockedSteps, Steps
  <2>5. handle[p] = [staged |-> before[p].left, previous |-> before[p].was,
                     home |-> before[p].home]
    BY <2>2, <2>3 DEF HandleOK
  <2>6. content'[Target(p)] = call[p].next
    <3>1. CASE Rename(p)
      <4>1. call[p].temp.content = call[p].next
        BY <3>1 DEF Rename, PlanOK
      <4> QED
        BY <2>3, <3>1, <4>1 DEF Rename, Put, TypeOK
    <3>2. CASE Unlink(p)
      <4>1. call[p].next = Missing
        BY <3>2 DEF Unlink, PlanOK
      <4>2. content'[Target(p)] = Missing
        BY <2>3, <3>2 DEF Unlink, Put, TypeOK, Commits
      <4> QED
        BY <4>1, <4>2
    <3> QED
      BY <2>1, <3>1, <3>2
  <2> QED
    BY <2>3, <2>4, <2>5, <2>6
<1>2. StoreInv /\ HistoryInv /\ [Next]_vars => [\A p \in Procs : P(p)]_vars
  BY <1>1
<1> QED
  BY <1>2, StoreCorrect, HistoryCorrect, PTL DEF Spec, RollbackUndoesStage

\* A replaced file keeps its permissions, and a new one is private.
THEOREM PermissionsAreKept == Spec => PermissionsPreserved
<1> DEFINE P(p) == Commits(p) /\ raced[p] = {} /\ content'[Target(p)] # Missing
                     => meta'[Target(p)].mode = IF Found(p) = Missing
                                                THEN Private
                                                ELSE meta[Target(p)].mode
<1>1. StoreInv /\ HistoryInv /\ [Next]_vars => \A p \in Procs : P(p)
  <2> SUFFICES ASSUME StoreInv, HistoryInv, [Next]_vars,
                      NEW p \in Procs, Commits(p), raced[p] = {},
                      content'[Target(p)] # Missing
               PROVE  meta'[Target(p)].mode = IF Found(p) = Missing
                                              THEN Private
                                              ELSE meta[Target(p)].mode
    OBVIOUS
  <2> TypeOK /\ LocalOK(p) /\ TempOK(p)
    BY DEF StoreInv, TypeInv, HistoryInv
  <2>1. Target(p) \in Targets
    BY CommitsByWriting DEF Rename, Unlink, LocalOK, Steps
  <2>2. Rename(p)
    <3>1. Unlink(p) => content'[Target(p)] = Missing
      BY <2>1 DEF Unlink, Put, TypeOK, Commits
    <3> QED
      BY <3>1, CommitsByWriting
  <2>3. /\ Found(p) = call[p].current
        /\ call[p].current # Missing => meta[Target(p)] = call[p].seen
    BY <2>2 DEF Rename, StoreInv, WindowInv, HistoryInv, MetaInv
  <2>4. /\ call[p].temp.mode = ModeOf(p)
        /\ call[p].seen = None <=> call[p].current = Missing
    BY <2>2 DEF Rename, TempOK, Complete
  <2>5. meta'[Target(p)].mode = call[p].temp.mode
    BY <2>1, <2>2 DEF Rename, Put, TypeOK
  <2> QED
    BY <2>3, <2>4, <2>5 DEF ModeOf
<1>2. StoreInv /\ HistoryInv /\ [Next]_vars => [\A p \in Procs : P(p)]_vars
  BY <1>1
<1> QED
  BY <1>2, StoreCorrect, HistoryCorrect, PTL DEF Spec, PermissionsPreserved

\* What was acknowledged survives, power losses included.
THEOREM AcknowledgedSurvives == Spec => []AckedSurvives
<1>1. HistoryInv => AckedSurvives
  BY DEF HistoryInv, AckedInv, AckedSurvives
<1> QED
  BY <1>1, HistoryCorrect, PTL

=============================================================================
