------------------- MODULE DocumentStoreRefinementProofs -------------------
(***************************************************************************)
(* DocumentStore implements AtomicDocument, for any number of cooperating  *)
(* writers that may fail and die: a step maps to one of the atomic         *)
(* document, or to none.                                                   *)
(***************************************************************************)
EXTENDS DocumentStoreRefinement, DocumentStoreHistoryProofs

\* Everybody who changes a document takes its lock, links stay where they are,
\* and the power stays on.
Cooperative == Hazards \subseteq {"fault", "crash", "chmod"}

\* The target of p is known, and it is the one the call is answered for.
Aimed(p) ==
  \/ pc[p] \in Steps \ {"idle", "resolve", "finish"}
  \/ pc[p] = "finish" /\ result[p] \in Done

\* What the mapping relies on: a call stays at the end of its path, a write has
\* something to change, and a rollback never brings back what is not valid, or
\* an empty file in the place of none.
AtomicOK(p) ==
  /\ "content" \notin raced[p]
  /\ pc[p] # "idle" => call[p].op \in Operations
  /\ pc[p] = "finish" => result[p] \in Statuses
  /\ Aimed(p) => Target(p) = Resolve(call[p].path)
  /\ pc[p] \in LockedSteps \ {"locked", "read", "syncdir"}
       => ~Unchanged(call[p].current, call[p].next)
  /\ Unanswered(p)
       => /\ call[p].current \in Valid
          /\ call[p].next = Missing => call[p].current = Missing
  /\ handle[p] # None
       => /\ handle[p].previous \in Valid
          /\ handle[p].staged = Missing => handle[p].previous = Missing

AtomicInv == \A p \in Procs : AtomicOK(p)

-----------------------------------------------------------------------------
(* Who moves.                                                                *)

\* Among cooperating writers only permissions change under a call.
LEMMA CooperativeNext ==
  ASSUME Cooperative, [Next]_vars
  PROVE  \/ \E p \in Procs : Acts(p)
         \/ \E t \in Targets : ExternalChmod(t)
         \/ UNCHANGED vars
BY DEF Cooperative, Next, Acts, ExternalWrite, ExternalReplace, ExternalDelete,
   Relink, PowerLoss

\* No writer moves a link or marks another one's race.
LEMMA ActsStay ==
  ASSUME TypeOK, NEW p \in Procs, Acts(p)
  PROVE  /\ link' = link
         /\ \A q \in Procs \ {p} : Untouched(q) /\ raced'[q] = raced[q]
BY WriterKeepsToItself DEF Acts, KeepsToItself, OthersStay, Untouched

\* Nor is it ever recorded that an editor raced a writer.
LEMMA ActsRace ==
  ASSUME TypeOK, NEW p \in Procs, Acts(p), "content" \notin raced[p]
  PROVE  "content" \notin raced'[p]
<1> USE DEF disk, history
<1>1. CASE Step(p)
  BY <1>1
  DEF Step, ResolveTarget, PreRead, Lock, ResolveAgain, ReadCurrent, Stat,
      CreateTemporary, FillTemporary, RecheckRevision, RecheckTarget,
      RecheckMetadata, Rename, Unlink, SyncDirectory, Finish, Forget, TypeOK
<1>2. CASE \/ BeginUpdate(p) \/ BeginRestore(p) \/ Fault(p) \/ Crash(p)
  BY <1>2 DEF BeginUpdate, BeginRestore, Begin, Fault, Crash, Forget, TypeOK
<1> QED
  BY <1>1, <1>2 DEF Acts

\* A patch that succeeds starts from a valid document and leaves one.
LEMMA StageIsValid ==
  ASSUME NEW c \in Revisions, NEW batch \in Batches,
         PatchStatus(c, batch) = "Success"
  PROVE  c \in Valid /\ Merge(c, batch) # Missing
BY MergeKeepsOthers DEF PatchStatus

\* Each step of a writer keeps what the mapping relies on.
LEMMA AtomicStep ==
  ASSUME StoreInv, NEW p \in Procs, AtomicOK(p), Acts(p)
  PROVE  AtomicOK(p)'
<1> /\ pc \in [Procs -> Steps] /\ call \in [Procs -> Call]
    /\ call[p] \in Call /\ handle \in [Procs -> Handle \cup {None}]
    /\ result \in [Procs -> Statuses \cup {None}]
    /\ TypeOK /\ LocalOK(p) /\ PlanOK(p)
  BY DEF StoreInv, TypeInv, TypeOK
<1>1. "content" \notin raced'[p]
  BY ActsRace DEF AtomicOK
<1>2. link' = link
  BY ActsStay
<1> USE DEF At, Return, Check, LockedSteps, Steps, Aimed, Unanswered, Done,
        Statuses
<1>3. CASE ResolveTarget(p)
  <2>1. /\ pc[p] = "resolve" /\ handle' = handle
        /\ call' = [call EXCEPT ![p].target = Resolve(call[p].path)]
        /\ \/ pc'[p] = "preread"
           \/ pc'[p] = "finish" /\ result'[p] = "RevisionChanged"
    BY <1>3 DEF ResolveTarget
  <2>2. /\ call'[p].op = call[p].op
        /\ call'[p].path = call[p].path
        /\ Target(p)' = Resolve(call[p].path)
    BY <2>1 DEF Target, Call
  <2> QED
    BY <1>1, <1>2, <2>1, <2>2 DEF AtomicOK, Resolve
<1>4. CASE \/ PreRead(p) \/ Lock(p) \/ ResolveAgain(p)
           \/ RecheckRevision(p) \/ RecheckTarget(p) \/ RecheckMetadata(p)
  <2>1. /\ pc[p] \in {"preread", "lock", "locked", "recheck", "retarget",
                      "remeta"}
        /\ pc[p] \in {"preread", "lock", "locked"}
             => pc'[p] \in {"lock", "locked", "read", "finish"}
        /\ pc'[p] \in {"lock", "locked", "read", "retarget", "remeta",
                       "rename", "unlink", "finish"}
        /\ pc'[p] = "finish" => result'[p] \in {"Invalid", "RevisionChanged"}
        /\ call' = call /\ handle' = handle
    BY <1>4 DEF PreRead, Lock, ResolveAgain, RecheckRevision, RecheckTarget,
       RecheckMetadata
  <2> QED
    BY <1>1, <1>2, <2>1 DEF AtomicOK, Resolve, Target
<1>5. CASE ReadCurrent(p)
  <2> DEFINE c      == Found(p)
             new    == Wanted(p, c)
             status == ReadStatus(p, c)
  <2>1. pc[p] = "read" /\ handle' = handle
    BY <1>5 DEF ReadCurrent
  <2>2. status \in Statuses \ {"DurabilityFailure"}
    BY PatchStatusType DEF ReadStatus, RestoreStatus
  <2>3. CASE status # "Success"
    <3>1. /\ pc'[p] = "finish" /\ call' = call
          /\ result'[p] \in Statuses \ Done
      BY <1>5, <2>2, <2>3 DEF ReadCurrent
    <3> QED
      BY <1>1, <2>1, <3>1 DEF AtomicOK, Target
  <2>4. CASE status = "Success" /\ Unchanged(c, new)
    <3>1. /\ pc'[p] = "finish" /\ result'[p] = "Success"
          /\ call' = [call EXCEPT ![p].current = c, ![p].next = c]
      BY <1>5, <2>4 DEF ReadCurrent, Plan
    <3>2. /\ call'[p].current = c
          /\ call'[p].next = c
          /\ call'[p].op = call[p].op
          /\ call'[p].path = call[p].path
          /\ call'[p].target = call[p].target
      BY <3>1 DEF Call
    <3>3. call[p].op = "stage" => c \in Valid
      BY <2>4 DEF ReadStatus, PatchStatus
    <3> QED
      BY <1>1, <1>2, <2>1, <3>1, <3>2, <3>3 DEF AtomicOK, Target, Resolve
  <2>5. CASE status = "Success" /\ ~Unchanged(c, new)
    <3>1. /\ pc'[p] \in {"recheck", "stat"}
          /\ call' = [call EXCEPT ![p].current = c, ![p].next = new]
      BY <1>5, <2>5 DEF ReadCurrent, Plan
    <3>2. /\ call'[p].current = c
          /\ call'[p].next = new
          /\ call'[p].op = call[p].op
          /\ call'[p].path = call[p].path
          /\ call'[p].target = call[p].target
      BY <3>1 DEF Call
    <3> QED
      BY <1>1, <1>2, <2>1, <2>5, <3>1, <3>2 DEF AtomicOK, Target, Resolve
  <2> QED
    BY <2>3, <2>4, <2>5
<1>6. CASE Stat(p) \/ CreateTemporary(p) \/ FillTemporary(p)
  <2>1. /\ pc[p] \in {"stat", "create", "fill"}
        /\ pc'[p] \in {"create", "fill", "recheck", "finish"}
        /\ pc'[p] = "finish" => result'[p] = "StorageFailure"
        /\ handle' = handle
        /\ call'[p].op = call[p].op
        /\ call'[p].path = call[p].path
        /\ call'[p].target = call[p].target
        /\ call'[p].current = call[p].current
        /\ call'[p].next = call[p].next
    BY <1>6 DEF Stat, CreateTemporary, FillTemporary, Call
  <2> QED
    BY <1>1, <1>2, <2>1 DEF AtomicOK, Target, Resolve
<1>7. CASE Rename(p) \/ Unlink(p)
  <2>1. /\ pc[p] \in {"rename", "unlink"}
        /\ \/ pc'[p] = "syncdir"
           \/ pc'[p] = "finish" /\ result'[p] = "StorageFailure"
        /\ call' = call /\ handle' = handle
    BY <1>7 DEF Rename, Unlink, Put
  <2>2. call[p].op = "stage"
          => call[p].current \in Valid /\ call[p].next # Missing
    <3>1. call[p].edits \in Batches /\ call[p].current \in Revisions
      BY <2>1 DEF Call, LocalOK
    <3> QED
      BY <2>1, <3>1, StageIsValid DEF PlanOK
  <2> QED
    BY <1>1, <1>2, <2>1, <2>2 DEF AtomicOK, Target, Resolve
<1>8. CASE SyncDirectory(p)
  <2>1. /\ pc[p] = "syncdir" /\ pc'[p] = "finish"
        /\ result'[p] = "Success" /\ call' = call /\ handle' = handle
    BY <1>8 DEF SyncDirectory
  <2> QED
    BY <1>1, <1>2, <2>1 DEF AtomicOK, Target, Resolve
<1>9. CASE Fault(p)
  <2>1. PICK status \in FaultStatus(p) : Return(p, status)
    BY <1>9 DEF Fault
  <2>2. /\ status \in Statuses
        /\ status \notin Done \/ pc[p] = "syncdir"
        /\ pc[p] \notin {"idle", "finish"}
    BY DEF FaultStatus, DurabilityStatus
  <2>3. UNCHANGED <<call, handle>>
    BY <1>9 DEF Fault
  <2>4. pc'[p] = "finish" /\ result'[p] = status
    BY <2>1
  <2> QED
    BY <1>1, <1>2, <2>2, <2>3, <2>4 DEF AtomicOK, Target, Resolve
<1>10. CASE Finish(p)
  <2>1. /\ pc[p] = "finish" /\ pc'[p] = "idle"
        /\ handle' = IF call[p].op = "stage"
                     THEN [handle EXCEPT ![p] = StagedHandle(p)] ELSE handle
    BY <1>10 DEF Finish, Forget
  <2>2. CASE call[p].op = "stage" /\ result[p] \in Done
    <3>1. handle'[p] = HandleWith(p, call[p].current)
      BY <2>1, <2>2 DEF StagedHandle
    <3>2. /\ handle'[p].previous = call[p].current
          /\ handle'[p].staged = call[p].next
      BY <3>1 DEF HandleWith
    <3> QED
      BY <1>1, <2>1, <2>2, <3>2 DEF AtomicOK
  <2>3. CASE call[p].op = "stage" /\ result[p] \notin Done
    <3>1. handle'[p] = None
      BY <2>1, <2>3 DEF StagedHandle
    <3> QED
      BY <1>1, <2>1, <3>1 DEF AtomicOK
  <2>4. CASE call[p].op # "stage"
    BY <1>1, <2>1, <2>4 DEF AtomicOK
  <2> QED
    BY <2>2, <2>3, <2>4
<1>11. CASE Crash(p)
  <2>1. pc'[p] = "idle" /\ handle'[p] = None
    BY <1>11 DEF Crash, Forget
  <2> QED
    BY <1>1, <2>1 DEF AtomicOK
<1>12. CASE BeginUpdate(p) \/ BeginRestore(p)
  <2>0. PICK kind \in Operations, n \in Paths : \E batch : Begin(p, kind, n, batch)
    BY <1>12, StoreAssumption DEF BeginUpdate, BeginRestore, Operations
  <2>1. PICK batch : Begin(p, kind, n, batch)
    BY <2>0
  <2>2. /\ pc'[p] = "resolve" /\ handle' = handle
        /\ call'[p] = [NoCall EXCEPT !.op = kind, !.path = n, !.edits = batch]
    BY <2>1 DEF Begin
  <2>3. call'[p].op = kind
    BY <2>2 DEF NoCall
  <2> QED
    BY <1>1, <2>2, <2>3 DEF AtomicOK
<1> QED
  BY <1>3, <1>4, <1>5, <1>6, <1>7, <1>8, <1>9, <1>10, <1>11, <1>12
  DEF Acts, Step

\* Among cooperating writers what the mapping relies on is an invariant.
LEMMA AtomicNext ==
  ASSUME Cooperative, StoreInv, AtomicInv, [Next]_vars
  PROVE  AtomicInv'
<1> SUFFICES ASSUME NEW q \in Procs PROVE AtomicOK(q)'
  BY DEF AtomicInv
<1> TypeOK /\ AtomicOK(q)
  BY DEF StoreInv, TypeInv, AtomicInv
<1> USE DEF AtomicOK, Aimed, Unanswered, Target, Resolve
<1>1. CASE Acts(q)
  BY <1>1, AtomicStep
<1>2. ASSUME NEW p \in Procs, p # q, Acts(p)
      PROVE  AtomicOK(q)'
  BY <1>2, ActsStay DEF Untouched
<1>3. ASSUME NEW t \in Targets, ExternalChmod(t)
      PROVE  AtomicOK(q)'
  <2>1. UNCHANGED <<pc, call, result, handle, link>>
    BY <1>3 DEF ExternalChmod
  <2>2. "content" \notin raced'[q]
    BY <1>3 DEF ExternalChmod, Race
  <2> QED
    BY <2>1, <2>2
<1>4. CASE UNCHANGED vars
  BY <1>4 DEF vars, disk, history
<1> QED
  BY <1>1, <1>2, <1>3, <1>4, CooperativeNext

-----------------------------------------------------------------------------
(* The mapping.                                                              *)

\* Both documents read contents, and merge edits into them, in the same way.
LEMMA SameModel ==
  /\ Atomic!Contents = Contents
  /\ Atomic!Batches = Batches
  /\ \A c, d : Atomic!SameBytes(c, d) = SameBytes(c, d)
  /\ \A c, batch : /\ Atomic!Merge(c, batch) = Merge(c, batch)
                   /\ Atomic!PatchStatus(c, batch) = PatchStatus(c, batch)
<1>1. \A c : Atomic!ValuesOf(c) = ValuesOf(c)
  BY DEF ValuesOf, EmptyDoc, Atomic!ValuesOf, Atomic!EmptyDoc
<1>2. /\ Atomic!Contents = Contents
      /\ Atomic!Batches = Batches
  BY DEF Contents, Revisions, Batches, Edit, Override, Atomic!Contents,
     Atomic!Revisions, Atomic!Batches, Atomic!Edit, Atomic!Override
<1>3. \A c, d : Atomic!SameBytes(c, d) = SameBytes(c, d)
  BY <1>1 DEF SameBytes, Atomic!SameBytes
<1>4. \A c, batch : Atomic!Merge(c, batch) = Merge(c, batch)
  BY <1>1 DEF Merge, Atomic!Merge
<1>5. \A c, batch : /\ Atomic!Unsupported(c, batch) = Unsupported(c, batch)
                   /\ Atomic!Conflicts(c, batch) = Conflicts(c, batch)
  BY <1>1 DEF Unsupported, Conflicts, Atomic!Unsupported, Atomic!Conflicts
<1>6. \A c, batch : Atomic!PatchStatus(c, batch) = PatchStatus(c, batch)
  BY <1>4, <1>5 DEF PatchStatus, Atomic!PatchStatus
<1> QED
  BY <1>2, <1>3, <1>4, <1>6

\* The step of a writer is, for the atomic document, the step of that caller.
LEMMA MappedCalls ==
  ASSUME TypeOK, TypeOK', NEW p \in Procs, Acts(p)
  PROVE  /\ Calls' = [Calls EXCEPT ![p] = Calling(p)']
         /\ Answers' = [Answers EXCEPT ![p] = Answered(p)']
         /\ Takings' = [Takings EXCEPT ![p] = Taken(p)']
         /\ handle' = [handle EXCEPT ![p] = handle'[p]]
<1>1. ASSUME NEW q \in Procs \ {p}
      PROVE  /\ Calling(q)' = Calling(q)
             /\ Answered(q)' = Answered(q)
             /\ Taken(q)' = Taken(q)
             /\ handle'[q] = handle[q]
  BY ActsStay DEF Untouched, Calling, Answered, Taken, Resolve
<1>2. /\ handle \in [Procs -> Handle \cup {None}]
      /\ handle' \in [Procs -> Handle \cup {None}]
  BY DEF TypeOK
<1>3. Calls' = [Calls EXCEPT ![p] = Calling(p)']
  BY <1>1 DEF Calls
<1>4. Answers' = [Answers EXCEPT ![p] = Answered(p)']
  BY <1>1 DEF Answers
<1>5. Takings' = [Takings EXCEPT ![p] = Taken(p)']
  BY <1>1 DEF Takings
<1>6. handle' = [handle EXCEPT ![p] = handle'[p]]
  BY <1>1, <1>2
<1> QED
  BY <1>3, <1>4, <1>5, <1>6

\* A call that has not answered is pending for the atomic document too.
LEMMA PendingCall ==
  ASSUME TypeInv, NEW p \in Procs, AtomicOK(p),
         pc[p] \notin {"idle", "syncdir", "finish"}
  PROVE  /\ Atomic!Pending(p)
         /\ Calls[p].kind = call[p].op
         /\ Calls[p].at = Resolve(call[p].path)
         /\ Calls[p].edits = call[p].edits
         /\ Answered(p) = "none"
         /\ Taken(p) = None
<1>1. /\ call[p].op \in Operations
      /\ call[p].edits \in Batches
      /\ Resolve(call[p].path) \in Targets
  BY DEF TypeInv, TypeOK, LocalOK, AtomicOK, Call, Resolve, Paths
<1>2. Calls[p] = [kind |-> call[p].op, at |-> Resolve(call[p].path),
                  edits |-> call[p].edits]
  BY DEF Calls, Calling
<1>3. Calls[p] # None
  BY <1>1, <1>2, RefinementAssumption
<1>4. Answered(p) = "none" /\ Answers[p] = "none"
  BY DEF Answers, Answered
<1> QED
  BY <1>2, <1>3, <1>4 DEF Atomic!Pending, Taken

\* A step that changes nothing a caller can see maps to no step.
LEMMA Unseen ==
  ASSUME TypeOK, TypeOK', NEW p \in Procs, Acts(p),
         Calling(p)' = Calling(p), Answered(p)' = Answered(p),
         Taken(p)' = Taken(p), handle'[p] = handle[p], content' = content
  PROVE  UNCHANGED Atomic!vars
<1>1. Calls' = Calls /\ Answers' = Answers /\ Takings' = Takings
  BY MappedCalls DEF Calls, Answers, Takings
<1>2. handle' = handle
  BY MappedCalls DEF TypeOK
<1> QED
  BY <1>1, <1>2 DEF Atomic!vars

\* A writer leaves updateDocument, or goes on, with its call as it was.
Leaves(p, status) ==
  /\ pc'[p] = "finish"
  /\ result'[p] = status
  /\ call'[p].op = call[p].op
  /\ call'[p].path = call[p].path
  /\ call'[p].edits = call[p].edits
  /\ handle'[p] = handle[p]

\* Leaving with nothing written, for a reason that is in the document now or is
\* no reason of the document's, is a refusal.
LEMMA Refused ==
  ASSUME TypeInv, TypeOK', NEW p \in Procs, Acts(p), AtomicOK(p),
         pc[p] \notin {"idle", "syncdir", "finish"},
         NEW why \in Statuses \ Done, Leaves(p, why), content' = content,
         why \in {"StorageFailure", "RevisionChanged"}
           \/ why = Atomic!Reason(p)
  PROVE  Atomic!Refuse(p)
<1>1. link' = link /\ TypeOK
  BY ActsStay DEF TypeInv
<1>2. Calling(p)' = Calling(p)
  BY <1>1 DEF Leaves, Calling, Resolve
<1>3. Answered(p)' = why
  BY DEF Leaves, Answered, Done
<1>4. Taken(p)' = None /\ Taken(p) = None
  BY <1>3, PendingCall DEF Taken, Statuses, Done
<1>5. UNCHANGED <<content, Calls, Takings, handle>>
  <2>1. Calls' = Calls
    BY <1>1, <1>2, MappedCalls DEF Calls
  <2>2. Takings' = Takings
    BY <1>1, <1>4, MappedCalls DEF Takings
  <2>3. handle' = handle
    BY <1>1, MappedCalls DEF Leaves, TypeOK
  <2> QED
    BY <2>1, <2>2, <2>3
<1>6. Answers' = [Answers EXCEPT ![p] = why]
  BY <1>1, <1>3, MappedCalls
<1>7. why \in Atomic!Refusals
  BY DEF Atomic!Refusals, Statuses, Done
<1> QED
  BY <1>5, <1>6, <1>7, PendingCall DEF Atomic!Refuse

\* A call that leaves new where it found the current document, and is answered
\* for it, takes effect.
LEMMA TakesEffect ==
  ASSUME TypeInv, TypeOK', NEW p \in Procs, Acts(p), AtomicOK(p),
         pc[p] \notin {"idle", "resolve", "syncdir", "finish"},
         NEW new, content' = [content EXCEPT ![Target(p)] = new],
         \/ pc'[p] = "syncdir"
         \/ pc'[p] = "finish" /\ result'[p] \in Done,
         call'[p].op = call[p].op, call'[p].path = call[p].path,
         call'[p].edits = call[p].edits, handle'[p] = handle[p],
         call'[p].current = Found(p), call'[p].next = new
  PROVE  Atomic!TakeEffect(p, new)
<1>1. link' = link /\ TypeOK
  BY ActsStay DEF TypeInv
<1>2. Calling(p)' = Calling(p) /\ Answered(p)' = "applied"
  BY <1>1 DEF Calling, Answered, Resolve, Done
<1>3. Taken(p)' = [was |-> content[Target(p)], left |-> new]
  BY <1>2 DEF Taken, Found
<1>4. Calls[p].at = Target(p)
  BY PendingCall DEF AtomicOK, Aimed, TypeInv, TypeOK
<1>5. Calls' = Calls /\ handle' = handle
  <2>1. Calls' = Calls
    BY <1>1, <1>2, MappedCalls DEF Calls
  <2>2. handle' = handle
    BY <1>1, MappedCalls DEF TypeOK
  <2> QED
    BY <2>1, <2>2
<1>6. /\ Answers' = [Answers EXCEPT ![p] = "applied"]
      /\ Takings' = [Takings EXCEPT ![p] =
                       [was |-> content[Target(p)], left |-> new]]
  BY <1>1, <1>2, <1>3, MappedCalls
<1> QED
  BY <1>4, <1>5, <1>6 DEF Atomic!TakeEffect

-----------------------------------------------------------------------------
(* Every step has its place in the atomic document.                          *)

\* The steps that prepare a write are no steps of the atomic document, or they
\* refuse the call.
LEMMA PreparesOrRefuses ==
  ASSUME StoreInv, TypeOK', NEW p \in Procs, AtomicOK(p),
         \/ ResolveTarget(p) \/ PreRead(p) \/ Lock(p) \/ ResolveAgain(p)
         \/ Stat(p) \/ CreateTemporary(p) \/ FillTemporary(p)
         \/ RecheckRevision(p) \/ RecheckTarget(p) \/ RecheckMetadata(p)
  PROVE  Atomic!Refuse(p) \/ UNCHANGED Atomic!vars
<1> /\ TypeInv /\ TypeOK /\ LocalOK(p) /\ Acts(p) /\ call[p] \in Call
    /\ pc \in [Procs -> Steps] /\ call \in [Procs -> Call]
    /\ result \in [Procs -> Statuses \cup {None}]
  BY DEF StoreInv, TypeInv, TypeOK, Acts, Step
<1> USE DEF At, Return, Check, disk
<1>1. /\ pc[p] \notin {"idle", "syncdir", "finish"}
      /\ content' = content /\ handle' = handle
      /\ call'[p].op = call[p].op
      /\ call'[p].path = call[p].path
      /\ call'[p].edits = call[p].edits
  BY DEF ResolveTarget, PreRead, Lock, ResolveAgain, Stat, CreateTemporary,
     FillTemporary, RecheckRevision, RecheckTarget, RecheckMetadata, Call
<1>2. \/ pc'[p] \notin {"idle", "syncdir", "finish"}
      \/ /\ pc'[p] = "finish"
         /\ \/ result'[p] \in {"StorageFailure", "RevisionChanged"}
            \/ result'[p] = "Invalid" /\ PreRead(p) /\ Found(p) = Malformed
  BY DEF ResolveTarget, PreRead, Lock, ResolveAgain, Stat, CreateTemporary,
     FillTemporary, RecheckRevision, RecheckTarget, RecheckMetadata
<1>3. CASE pc'[p] \notin {"idle", "syncdir", "finish"}
  <2>1. link' = link
    BY ActsStay
  <2>2. /\ Calling(p)' = Calling(p)
        /\ Answered(p)' = Answered(p)
        /\ Taken(p)' = Taken(p)
    BY <1>1, <1>3, <2>1 DEF Calling, Answered, Taken, Resolve
  <2> QED
    BY <1>1, <2>2, Unseen
<1>4. CASE /\ pc'[p] = "finish"
           /\ result'[p] \in {"StorageFailure", "RevisionChanged"}
  BY <1>1, <1>4, Refused DEF Leaves, Statuses, Done
<1>5. CASE /\ pc'[p] = "finish"
           /\ result'[p] = "Invalid" /\ PreRead(p) /\ Found(p) = Malformed
  <2>1. Calls[p].at = Target(p)
    BY <1>1, <1>5, PendingCall DEF AtomicOK, Aimed, PreRead, Steps
  <2>2. Atomic!Reason(p) = "Invalid"
    BY <1>5, <2>1 DEF Atomic!Reason, Found
  <2> QED
    BY <1>1, <1>5, <2>2, Refused DEF Leaves, Statuses, Done
<1> QED
  BY <1>2, <1>3, <1>4, <1>5

\* What the atomic document would put in the place of what it has: the merge of
\* the edits, or the document before the stage.
LEMMA Takes ==
  ASSUME TypeInv, NEW p \in Procs, AtomicOK(p), RestoreOK(p),
         pc[p] \in LockedSteps \ {"locked", "syncdir"},
         NEW new, Atomic!TakeEffect(p, new),
         call[p].op = "restore"
           => Found(p) = handle[p].staged /\ new = handle[p].previous,
         call[p].op # "restore"
           => /\ PatchStatus(Found(p), call[p].edits) = "Success"
              /\ new = IF SameBytes(Found(p), Merge(Found(p), call[p].edits))
                       THEN Found(p) ELSE Merge(Found(p), call[p].edits)
  PROVE  Atomic!Update(p) \/ Atomic!Rollback(p)
<1>1. /\ Atomic!Pending(p)
      /\ Calls[p].kind = call[p].op
      /\ Calls[p].edits = call[p].edits
      /\ Calls[p].at = Target(p)
  BY PendingCall DEF AtomicOK, Aimed, LockedSteps, Steps
<1>2. CASE call[p].op = "restore"
  <2>1. Target(p) = handle[p].home
    BY <1>2 DEF RestoreOK, LockedSteps, Steps
  <2>2. Atomic!Staged(p)
    BY <1>1, <1>2, <2>1 DEF Atomic!Staged, Found
  <2> QED
    BY <1>1, <1>2, <2>2 DEF Atomic!Rollback
<1>3. CASE call[p].op # "restore"
  BY <1>1, <1>3, SameModel DEF Atomic!Update, Found
<1> QED
  BY <1>2, <1>3

\* The read under the lock refuses the call for what it finds, or answers it
\* when there is nothing to change, or goes on.
LEMMA ReadMaps ==
  ASSUME StoreInv, TypeOK', NEW p \in Procs, AtomicOK(p), RestoreOK(p),
         ReadCurrent(p)
  PROVE  \/ Atomic!Refuse(p) \/ Atomic!Update(p) \/ Atomic!Rollback(p)
         \/ UNCHANGED Atomic!vars
<1> DEFINE c      == Found(p)
           new    == Wanted(p, c)
           status == ReadStatus(p, c)
<1> /\ TypeInv /\ TypeOK /\ LocalOK(p) /\ Acts(p) /\ call[p] \in Call
    /\ pc \in [Procs -> Steps] /\ call \in [Procs -> Call]
    /\ result \in [Procs -> Statuses \cup {None}]
  BY DEF StoreInv, TypeInv, TypeOK, Acts, Step
<1>1. /\ pc[p] = "read" /\ UNCHANGED <<content, handle, link>>
      /\ Target(p) \in Targets /\ content \in [Targets -> Contents]
  BY DEF ReadCurrent, disk, LocalOK, Steps, TypeOK
<1>2. Calls[p].at = Target(p) /\ Calls[p].kind = call[p].op
      /\ Calls[p].edits = call[p].edits
  BY <1>1, PendingCall DEF AtomicOK, Aimed, Steps
<1>3. CASE status # "Success"
  <2>1. /\ pc'[p] = "finish" /\ result'[p] = status /\ call' = call
    BY <1>3 DEF ReadCurrent, Return, At
  <2>2. status \in Statuses \ Done
    BY <1>3, PatchStatusType DEF ReadStatus, RestoreStatus, Statuses, Done
  <2>3. status = "RevisionChanged" \/ status = Atomic!Reason(p)
    <3>1. CASE c = Malformed \/ call[p].op # "restore"
      BY <1>2, <3>1, SameModel DEF ReadStatus, Atomic!Reason, Found
    <3>2. CASE c # Malformed /\ call[p].op = "restore"
      <4>1. handle[p].previous \in Valid
        BY <3>2 DEF AtomicOK, LocalOK
      <4> QED
        BY <1>3, <3>2, <4>1 DEF ReadStatus, RestoreStatus
    <3> QED
      BY <3>1, <3>2
  <2> QED
    BY <1>1, <2>1, <2>2, <2>3, Refused DEF Leaves
<1>4. CASE status = "Success" /\ Unchanged(c, new)
  <2>1. /\ pc'[p] = "finish" /\ result'[p] = "Success"
        /\ call' = [call EXCEPT ![p].current = c, ![p].next = c]
    BY <1>4 DEF ReadCurrent, Plan, Return, At
  <2>2. /\ call'[p].current = c
        /\ call'[p].next = c
        /\ call'[p].op = call[p].op
        /\ call'[p].path = call[p].path
        /\ call'[p].edits = call[p].edits
    BY <2>1 DEF Call
  <2>3. content' = [content EXCEPT ![Target(p)] = c]
    BY <1>1 DEF Found
  <2>4. Atomic!TakeEffect(p, c)
    BY <1>1, <2>1, <2>2, <2>3, TakesEffect DEF Done
  <2>5. call[p].op = "restore" => c = handle[p].staged /\ c = handle[p].previous
    <3> SUFFICES ASSUME call[p].op = "restore"
                 PROVE  c = handle[p].staged /\ c = handle[p].previous
      OBVIOUS
    <3>1. /\ handle[p] \in Handle
          /\ c = handle[p].staged
          /\ new = handle[p].previous
          /\ handle[p].staged = Missing => handle[p].previous = Missing
      BY <1>4 DEF ReadStatus, Wanted, LocalOK, AtomicOK, TypeOK
    <3>2. CASE c = Missing \/ new = Missing
      BY <1>4, <3>1, <3>2 DEF Unchanged
    <3>3. CASE c # Missing /\ new # Missing
      <4>1. c \in Documents /\ new \in Documents
        BY <3>1, <3>3 DEF Handle, Revisions
      <4> QED
        BY <1>4, <3>1, <3>3, <4>1 DEF Unchanged, SameBytes, ValuesOf
    <3> QED
      BY <3>2, <3>3
  <2>6. call[p].op # "restore"
          => /\ PatchStatus(c, call[p].edits) = "Success"
             /\ SameBytes(c, Merge(c, call[p].edits))
    <3> SUFFICES ASSUME call[p].op # "restore"
                 PROVE  /\ PatchStatus(c, call[p].edits) = "Success"
                        /\ SameBytes(c, Merge(c, call[p].edits))
      OBVIOUS
    <3>1. /\ PatchStatus(c, call[p].edits) = "Success"
          /\ new = Merge(c, call[p].edits)
      BY <1>4 DEF ReadStatus, Wanted
    <3>2. new # Missing
      BY <3>1, PatchSuccess, MergeAssumption
    <3> QED
      BY <1>4, <3>1, <3>2 DEF Unchanged
  <2> QED
    BY <1>1, <2>4, <2>5, <2>6, Takes DEF LockedSteps, Steps
<1>5. CASE status = "Success" /\ ~Unchanged(c, new)
  <2>1. /\ pc'[p] \in {"recheck", "stat"}
        /\ call' = [call EXCEPT ![p].current = c, ![p].next = new]
    BY <1>5 DEF ReadCurrent, Plan, At
  <2>2. /\ call'[p].op = call[p].op
        /\ call'[p].path = call[p].path
        /\ call'[p].edits = call[p].edits
    BY <2>1 DEF Call
  <2>3. /\ Calling(p)' = Calling(p)
        /\ Answered(p)' = Answered(p)
        /\ Taken(p)' = Taken(p)
    BY <1>1, <2>1, <2>2 DEF Calling, Answered, Taken, Resolve
  <2> QED
    BY <1>1, <2>3, Unseen
<1> QED
  BY <1>3, <1>4, <1>5

\* The rename, or the unlink, is the moment at which a call takes effect.
LEMMA WriteMaps ==
  ASSUME StoreInv, TypeOK', NEW p \in Procs, AtomicOK(p), RestoreOK(p),
         Rename(p) \/ Unlink(p)
  PROVE  Atomic!Refuse(p) \/ Atomic!Update(p) \/ Atomic!Rollback(p)
<1> /\ TypeInv /\ TypeOK /\ LocalOK(p) /\ PlanOK(p) /\ Acts(p)
    /\ pc \in [Procs -> Steps] /\ result \in [Procs -> Statuses \cup {None}]
  BY DEF StoreInv, TypeInv, TypeOK, Acts, Step
<1>1. /\ pc[p] \in {"rename", "unlink"}
      /\ call' = call /\ handle' = handle
  BY DEF Rename, Unlink, Put
<1>2. /\ Target(p) \in Targets
      /\ Found(p) = call[p].current
      /\ ~Unchanged(call[p].current, call[p].next)
  BY <1>1 DEF LocalOK, LockedSteps, Steps, StoreInv, WindowInv, AtomicOK
<1>3. CASE pc'[p] = "finish"
  <2>1. result'[p] = "StorageFailure" /\ content' = content
    BY <1>3 DEF Rename, Unlink, Return, At, disk
  <2> QED
    BY <1>1, <1>3, <2>1, Refused DEF Leaves, Statuses, Done
<1>4. CASE pc'[p] # "finish"
  <2>1. /\ pc'[p] = "syncdir"
        /\ content' = [content EXCEPT ![Target(p)] = call[p].next]
    BY <1>4 DEF Rename, Unlink, Return, At, Put, PlanOK
  <2>2. Atomic!TakeEffect(p, call[p].next)
    BY <1>1, <1>2, <2>1, TakesEffect
  <2>3. call[p].op = "restore" => /\ Found(p) = handle[p].staged
                                  /\ call[p].next = handle[p].previous
    BY <1>1, <1>2 DEF RestoreOK, LockedSteps, Steps
  <2>4. call[p].op # "restore"
          => /\ PatchStatus(Found(p), call[p].edits) = "Success"
             /\ call[p].next = Merge(Found(p), call[p].edits)
             /\ ~SameBytes(Found(p), call[p].next)
    <3>1. call[p].op # "restore"
            => /\ PatchStatus(Found(p), call[p].edits) = "Success"
               /\ call[p].next = Merge(Found(p), call[p].edits)
      BY <1>1, <1>2 DEF PlanOK, LockedSteps, Steps
    <3>2. call[p].op # "restore" => call[p].next # Missing
      BY <3>1, PatchSuccess, MergeAssumption
    <3> QED
      BY <1>2, <3>1, <3>2 DEF Unchanged
  <2> QED
    BY <1>1, <2>2, <2>3, <2>4, Takes DEF LockedSteps, Steps
<1> QED
  BY <1>3, <1>4

\* A user calls.
LEMMA BeginMaps ==
  ASSUME StoreInv, TypeOK', NEW p \in Procs,
         BeginUpdate(p) \/ BeginRestore(p)
  PROVE  Atomic!Invoke(p)
<1> /\ TypeOK /\ Acts(p)
    /\ pc \in [Procs -> Steps] /\ call \in [Procs -> Call]
  BY DEF StoreInv, TypeInv, TypeOK, Acts
<1>0. PICK kind \in Operations, n \in Paths :
        \E batch : Begin(p, kind, n, batch) /\ (kind = "restore" => handle[p] # None)
  BY StoreAssumption DEF BeginUpdate, BeginRestore, Operations
<1>1. PICK batch : Begin(p, kind, n, batch) /\ (kind = "restore" => handle[p] # None)
  BY <1>0
<1>2. /\ pc[p] = "idle" /\ pc'[p] = "resolve"
      /\ UNCHANGED <<content, handle, link>>
      /\ call'[p] = [NoCall EXCEPT !.op = kind, !.path = n, !.edits = batch]
  BY <1>1 DEF Begin, At, disk
<1>3. call'[p].op = kind /\ call'[p].path = n /\ call'[p].edits = batch
  BY <1>2 DEF NoCall
<1>4. batch \in Batches /\ Resolve(n) \in Targets
  <2>1. call'[p] \in Call
    BY DEF TypeOK
  <2>2. batch \in Batches
    BY <1>3, <2>1 DEF Call
  <2> QED
    BY <2>2 DEF Resolve, Paths, TypeOK
<1>5. /\ Calling(p)' = [kind |-> kind, at |-> Resolve(n), edits |-> batch]
      /\ Answered(p)' = Answered(p)
      /\ Taken(p)' = Taken(p)
  BY <1>2, <1>3 DEF Calling, Answered, Taken, Resolve
<1>6. Calls[p] = None
  BY <1>2 DEF Calls, Calling
<1>7. /\ Answers' = Answers
      /\ Takings' = Takings
      /\ Calls' = [Calls EXCEPT ![p] = [kind |-> kind, at |-> Resolve(n),
                                       edits |-> batch]]
  BY <1>5, MappedCalls DEF Answers, Takings
<1> QED
  BY <1>1, <1>2, <1>4, <1>6, <1>7, SameModel DEF Atomic!Invoke, Operations

\* The end of the call is the answer.
LEMMA FinishMaps ==
  ASSUME StoreInv, TypeOK', NEW p \in Procs, AtomicOK(p), Finish(p)
  PROVE  Atomic!Respond(p)
<1> /\ TypeInv /\ TypeOK /\ Acts(p)
    /\ pc \in [Procs -> Steps] /\ call \in [Procs -> Call]
    /\ handle \in [Procs -> Handle \cup {None}]
  BY DEF StoreInv, TypeInv, TypeOK, Acts, Step
<1>1. /\ pc[p] = "finish" /\ pc'[p] = "idle" /\ content' = content
      /\ handle' = IF call[p].op = "stage"
                   THEN [handle EXCEPT ![p] = StagedHandle(p)] ELSE handle
  BY DEF Finish, Forget, At, disk
<1>2. /\ result[p] \in Statuses
      /\ result[p] \in Done => Target(p) = Resolve(call[p].path)
  BY <1>1 DEF AtomicOK, Aimed
<1>3. /\ Answers[p] = IF result[p] \in Done THEN "applied" ELSE result[p]
      /\ result[p] \in Done
           => Takings[p] = [was |-> call[p].current, left |-> call[p].next]
      /\ Calls[p].kind = call[p].op
      /\ Calls[p].at = Resolve(call[p].path)
  BY <1>1 DEF Answers, Answered, Takings, Taken, Calls, Calling, Done
<1>4. /\ Answers[p] # "none"
      /\ result[p] \in Done <=> Answers[p] = "applied"
  BY <1>2, <1>3 DEF Statuses, Done
<1>5. StagedHandle(p) =
        IF Answers[p] = "applied"
        THEN [staged |-> Takings[p].left, previous |-> Takings[p].was,
              home |-> Calls[p].at]
        ELSE None
  BY <1>2, <1>3, <1>4 DEF StagedHandle, HandleWith, Done
<1>6. /\ Calls' = [Calls EXCEPT ![p] = None]
      /\ Answers' = [Answers EXCEPT ![p] = "none"]
      /\ Takings' = [Takings EXCEPT ![p] = None]
  <2>1. Calling(p)' = None /\ Answered(p)' = "none" /\ Taken(p)' = None
    BY <1>1 DEF Calling, Answered, Taken
  <2> QED
    BY <2>1, MappedCalls
<1>7. handle' = IF Calls[p].kind # "stage" THEN handle
                ELSE [handle EXCEPT ![p] =
                        IF Answers[p] = "applied"
                        THEN [staged |-> Takings[p].left,
                              previous |-> Takings[p].was,
                              home |-> Calls[p].at]
                        ELSE None]
  BY <1>1, <1>3, <1>5
<1> QED
  BY <1>1, <1>4, <1>6, <1>7 DEF Atomic!Respond

\* A writer dies.
LEMMA CrashMaps ==
  ASSUME StoreInv, TypeOK', NEW p \in Procs, AtomicOK(p), Crash(p)
  PROVE  Atomic!Die(p)
<1> /\ TypeInv /\ TypeOK /\ Acts(p) /\ LocalOK(p)
    /\ pc \in [Procs -> Steps] /\ call[p] \in Call
  BY DEF StoreInv, TypeInv, TypeOK, Acts
<1>1. /\ pc[p] # "idle" /\ pc'[p] = "idle" /\ content' = content
      /\ handle' = [handle EXCEPT ![p] = None]
  BY DEF Crash, Forget, At, disk
<1>2. Calls[p] # None
  <2>1. Calls[p] = [kind |-> call[p].op, at |-> Resolve(call[p].path),
                    edits |-> call[p].edits]
    BY <1>1 DEF Calls, Calling
  <2>2. /\ call[p].op \in Operations
        /\ call[p].edits \in Batches
        /\ Resolve(call[p].path) \in Targets
    BY <1>1 DEF TypeOK, LocalOK, AtomicOK, Call, Resolve, Paths
  <2> QED
    BY <2>1, <2>2, RefinementAssumption
<1>3. /\ Calls' = [Calls EXCEPT ![p] = None]
      /\ Answers' = [Answers EXCEPT ![p] = "none"]
      /\ Takings' = [Takings EXCEPT ![p] = None]
  <2>1. Calling(p)' = None /\ Answered(p)' = "none" /\ Taken(p)' = None
    BY <1>1 DEF Calling, Answered, Taken
  <2> QED
    BY <2>1, MappedCalls
<1> QED
  BY <1>1, <1>2, <1>3 DEF Atomic!Die

\* A system call fails: with nothing written the call is refused, and after the
\* write its answer is the same to the atomic document.
LEMMA FaultMaps ==
  ASSUME StoreInv, TypeOK', NEW p \in Procs, AtomicOK(p), Fault(p)
  PROVE  Atomic!Refuse(p) \/ UNCHANGED Atomic!vars
<1> /\ TypeInv /\ TypeOK /\ Acts(p)
    /\ pc \in [Procs -> Steps] /\ result \in [Procs -> Statuses \cup {None}]
  BY DEF StoreInv, TypeInv, TypeOK, Acts
<1>1. PICK status \in FaultStatus(p) :
        /\ pc'[p] = "finish" /\ result'[p] = status
        /\ UNCHANGED <<content, call, handle, link>>
  BY DEF Fault, Return, At, disk
<1>2. CASE pc[p] = "syncdir"
  <2>1. status = "DurabilityFailure"
    BY <1>2 DEF FaultStatus, DurabilityStatus
  <2>2. /\ Calling(p)' = Calling(p)
        /\ Answered(p)' = Answered(p)
        /\ Taken(p)' = Taken(p)
    BY <1>1, <1>2, <2>1 DEF Calling, Answered, Taken, Resolve
  <2> QED
    BY <1>1, <2>2, Unseen
<1>3. CASE pc[p] # "syncdir"
  <2>1. /\ status \in {"StorageFailure", "RevisionChanged"}
        /\ pc[p] \notin {"idle", "finish"}
    BY <1>3 DEF FaultStatus
  <2> QED
    BY <1>1, <1>3, <2>1, Refused DEF Leaves, Statuses, Done
<1> QED
  BY <1>2, <1>3

\* The sync of the directory decides what a power loss leaves, and no more.
LEMMA SyncMaps ==
  ASSUME StoreInv, TypeOK', NEW p \in Procs, SyncDirectory(p)
  PROVE  UNCHANGED Atomic!vars
<1> /\ TypeOK /\ Acts(p)
    /\ pc \in [Procs -> Steps] /\ result \in [Procs -> Statuses \cup {None}]
  BY DEF StoreInv, TypeInv, TypeOK, Acts, Step
<1>1. /\ pc[p] = "syncdir" /\ pc'[p] = "finish" /\ result'[p] = "Success"
      /\ UNCHANGED <<content, call, handle, link>>
  BY DEF SyncDirectory, Return, At
<1>2. /\ Calling(p)' = Calling(p)
      /\ Answered(p)' = Answered(p)
      /\ Taken(p)' = Taken(p)
  BY <1>1 DEF Calling, Answered, Taken, Resolve
<1> QED
  BY <1>1, <1>2, Unseen

\* Steps of nobody's calls are not seen.
LEMMA StillMaps ==
  ASSUME (\E t \in Targets : ExternalChmod(t)) \/ UNCHANGED vars
  PROVE  UNCHANGED Atomic!vars
BY DEF ExternalChmod, vars, disk, Atomic!vars, Calls, Answers, Takings,
   Calling, Answered, Taken, Resolve

\* Among cooperating writers every step of the store is a step of the atomic
\* document, or none.
LEMMA StepMaps ==
  ASSUME Cooperative, StoreInv, TypeOK', HistoryInv, AtomicInv, [Next]_vars
  PROVE  [Atomic!Next]_(Atomic!vars)
<1>1. ASSUME NEW p \in Procs, Acts(p)
      PROVE  Atomic!Next \/ UNCHANGED Atomic!vars
  <2>1. AtomicOK(p) /\ RestoreOK(p)
    BY DEF AtomicInv, HistoryInv
  <2>2. CASE BeginUpdate(p) \/ BeginRestore(p)
    BY <2>2, BeginMaps DEF Atomic!Next
  <2>3. CASE \/ ResolveTarget(p) \/ PreRead(p) \/ Lock(p) \/ ResolveAgain(p)
             \/ Stat(p) \/ CreateTemporary(p) \/ FillTemporary(p)
             \/ RecheckRevision(p) \/ RecheckTarget(p) \/ RecheckMetadata(p)
    BY <2>1, <2>3, PreparesOrRefuses DEF Atomic!Next
  <2>4. CASE ReadCurrent(p)
    BY <2>1, <2>4, ReadMaps DEF Atomic!Next
  <2>5. CASE Rename(p) \/ Unlink(p)
    BY <2>1, <2>5, WriteMaps DEF Atomic!Next
  <2>6. CASE SyncDirectory(p)
    BY <2>6, SyncMaps
  <2>7. CASE Finish(p)
    BY <2>1, <2>7, FinishMaps DEF Atomic!Next
  <2>8. CASE Fault(p)
    BY <2>1, <2>8, FaultMaps DEF Atomic!Next
  <2>9. CASE Crash(p)
    BY <2>1, <2>9, CrashMaps DEF Atomic!Next
  <2> QED
    BY <1>1, <2>2, <2>3, <2>4, <2>5, <2>6, <2>7, <2>8, <2>9 DEF Acts, Step
<1> QED
  BY <1>1, CooperativeNext, StillMaps

\* The store starts where the atomic document does.
LEMMA InitMaps == Init => Atomic!Init
BY SameModel DEF Init, Atomic!Init, Calls, Answers, Takings, Calling, Answered,
   Taken

-----------------------------------------------------------------------------

\* Among any number of writers that take the lock, with whatever failures and
\* deaths, updateDocument is atomic: each call takes effect at one instant
\* between its start and its end, on the document of that instant, or has no
\* effect and a reason; its status tells which.
THEOREM StoreIsAtomic == Cooperative => (Spec => IsAtomic)
<1> SUFFICES ASSUME Cooperative
             PROVE  Spec => IsAtomic
  OBVIOUS
<1>1. Init => AtomicInv
  BY DEF Init, AtomicInv, AtomicOK, Aimed, Unanswered, LockedSteps, Steps, NoCall
<1>2. StoreInv /\ AtomicInv /\ [Next]_vars => AtomicInv'
  BY AtomicNext
<1>3. StoreInv' => TypeOK'
  BY DEF StoreInv, TypeInv
<1>4. /\ StoreInv /\ StoreInv' /\ HistoryInv /\ AtomicInv /\ [Next]_vars
        => [Atomic!Next]_(Atomic!vars)
  BY <1>3, StepMaps
<1> QED
  BY <1>1, <1>2, <1>4, InitMaps, StoreCorrect, HistoryCorrect, PTL
  DEF Spec, IsAtomic, Atomic!Spec

=============================================================================
