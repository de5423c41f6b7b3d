---------------------- MODULE DocumentStoreRefinement ----------------------
(***************************************************************************)
(* Among writers that take the lock, and while links stay where they are,  *)
(* the document store is the atomic document: a call takes effect when it  *)
(* renames or unlinks, or when it finds nothing to change under the lock.  *)
(***************************************************************************)
EXTENDS DocumentStore

\* A call is not the absence of one.
ASSUME RefinementAssumption ==
  None \notin [kind : Operations, at : Targets, edits : Batches]

Calling(p) ==
  IF pc[p] = "idle" THEN None
  ELSE [kind |-> call[p].op, at |-> Resolve(call[p].path),
        edits |-> call[p].edits]

Answered(p) ==
  IF pc[p] = "syncdir" THEN "applied"
  ELSE IF pc[p] # "finish" THEN "none"
  ELSE IF result[p] \in {"Success", "DurabilityFailure"} THEN "applied"
  ELSE result[p]

Taken(p) == IF Answered(p) = "applied"
            THEN [was |-> call[p].current, left |-> call[p].next] ELSE None

Calls   == [p \in Procs |-> Calling(p)]
Answers == [p \in Procs |-> Answered(p)]
Takings == [p \in Procs |-> Taken(p)]

Atomic == INSTANCE AtomicDocument WITH
            call <- Calls, answer <- Answers, took <- Takings

\* Every behaviour of the store is one of the atomic document: no update is
\* lost or applied twice, a refusal has its reason in the document of some
\* instant of the call, and a stage hands out the documents of its instant.
IsAtomic == Atomic!Spec

=============================================================================
