--------------------------- MODULE AtomicDocument ---------------------------
(***************************************************************************)
(* What the locked document store promises its callers: between its call   *)
(* and its return, each saveDocument, stageDocument and restoreDocument    *)
(* takes effect at one instant or not at all, and its status says which.   *)
(* There are no locks, temporary files or checks here, only one document   *)
(* at each physical path.                                                  *)
(***************************************************************************)
EXTENDS DocumentMerge

CONSTANTS Procs, Targets, None

VARIABLES
  content,  \* the document at each physical path
  call,     \* what each caller has asked for and not yet been told of
  answer,   \* "none", "applied" or why the call had no effect
  took,     \* the document an applied call found, and the one it left
  handle    \* what each caller was given to roll back its last stage

vars == <<content, call, answer, took, handle>>

Refusals == {"Conflict", "Invalid", "UnsupportedPatch", "StorageFailure",
             "RevisionChanged"}

Init ==
  /\ content \in [Targets -> Contents]
  /\ call = [p \in Procs |-> None]
  /\ answer = [p \in Procs |-> "none"]
  /\ took = [p \in Procs |-> None]
  /\ handle = [p \in Procs |-> None]

\* Any edits, whatever their baselines; a rollback needs a handle.
Invoke(p) ==
  /\ call[p] = None
  /\ \E kind \in {"save", "stage", "restore"}, t \in Targets, e \in Batches :
       /\ kind = "restore" => handle[p] # None
       /\ call' = [call EXCEPT ![p] = [kind |-> kind, at |-> t, edits |-> e]]
  /\ UNCHANGED <<content, answer, took, handle>>

Pending(p) == call[p] # None /\ answer[p] = "none"

\* The call happens now: it found one document and leaves another.
TakeEffect(p, new) ==
  LET t == call[p].at IN
  /\ content' = [content EXCEPT ![t] = new]
  /\ answer' = [answer EXCEPT ![p] = "applied"]
  /\ took' = [took EXCEPT ![p] = [was |-> content[t], left |-> new]]
  /\ UNCHANGED <<call, handle>>

\* The edits merge into the document of this instant.
Update(p) ==
  /\ Pending(p)
  /\ call[p].kind # "restore"
  /\ LET c == content[call[p].at]
         e == call[p].edits
     IN /\ PatchStatus(c, e) = "Success"
        /\ TakeEffect(p, IF SameBytes(c, Merge(c, e)) THEN c ELSE Merge(c, e))

\* The staged document is still in the place it was staged to.
Staged(p) == /\ call[p].at = handle[p].home
             /\ content[call[p].at] = handle[p].staged

Rollback(p) ==
  /\ Pending(p)
  /\ call[p].kind = "restore"
  /\ Staged(p)
  /\ TakeEffect(p, handle[p].previous)

\* The document of this instant is the reason for a refusal.
Reason(p) ==
  LET c == content[call[p].at] IN
  IF c = Malformed THEN "Invalid"
  ELSE IF call[p].kind = "restore"
       THEN IF Staged(p) THEN "none" ELSE "RevisionChanged"
       ELSE PatchStatus(c, call[p].edits)

\* Storage can fail at any time, and what was read can change in any way the
\* store looks at; then nothing happens either.
Refuse(p) ==
  /\ Pending(p)
  /\ \E why \in Refusals :
       /\ why \in {"StorageFailure", "RevisionChanged"} \/ why = Reason(p)
       /\ answer' = [answer EXCEPT ![p] = why]
  /\ UNCHANGED <<content, call, took, handle>>

\* A stage gives the caller the two documents of its instant, or nothing.
Respond(p) ==
  /\ answer[p] # "none"
  /\ handle' = IF call[p].kind # "stage" THEN handle
               ELSE [handle EXCEPT ![p] =
                       IF answer[p] = "applied"
                       THEN [staged |-> took[p].left, previous |-> took[p].was,
                             home |-> call[p].at]
                       ELSE None]
  /\ call' = [call EXCEPT ![p] = None]
  /\ answer' = [answer EXCEPT ![p] = "none"]
  /\ took' = [took EXCEPT ![p] = None]
  /\ UNCHANGED content

\* The caller dies before or after its call took effect.
Die(p) ==
  /\ call[p] # None
  /\ call' = [call EXCEPT ![p] = None]
  /\ answer' = [answer EXCEPT ![p] = "none"]
  /\ took' = [took EXCEPT ![p] = None]
  /\ handle' = [handle EXCEPT ![p] = None]
  /\ UNCHANGED content

Next == \E p \in Procs : \/ Invoke(p) \/ Update(p) \/ Rollback(p)
                         \/ Refuse(p) \/ Respond(p) \/ Die(p)

Spec == Init /\ [][Next]_vars

=============================================================================
