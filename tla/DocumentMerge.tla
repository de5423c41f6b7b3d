--------------------------- MODULE DocumentMerge ---------------------------
(***************************************************************************)
(* What the document model of src/src/document.cpp promises the store:     *)
(* whether a batch of edits applies to the document that is on disk, and   *)
(* the document that comes out.  A document is the overrides a snapshot    *)
(* holds (a value, or none, for each key); the bytes between them, which a *)
(* patch keeps, are keys that no batch names.                              *)
(***************************************************************************)

CONSTANTS
  Keys,       \* key paths
  Values,     \* values an override can have
  NoValue,    \* std::nullopt: the key has no override
  Detached,   \* values with no assignment of their own to edit: members of
              \* inline tables and arrays of tables
  Documents,  \* the documents parseDocument accepts
  Missing,    \* DocumentRevision with exists = false
  Malformed,  \* bytes parseDocument rejects: not TOML, or over 65536 bytes
  Valid       \* the documents, and perhaps Missing, the schema accepts

Override == Values \cup {NoValue}

EmptyDoc == [k \in Keys |-> NoValue]

ASSUME MergeAssumption ==
  /\ NoValue \notin Values
  /\ Detached \subseteq Values
  /\ Documents \subseteq [Keys -> Override]
  /\ EmptyDoc \in Documents
  /\ Missing \notin Documents
  /\ Malformed \notin Documents
  /\ Missing # Malformed
  /\ Valid \subseteq Documents \cup {Missing}

\* What the bytes at a path amount to.
Revisions == Documents \cup {Missing}
Contents  == Revisions \cup {Malformed}

\* DocumentSnapshot::value for every key; a missing file has no overrides.
ValuesOf(c) == IF c \in Documents THEN c ELSE EmptyDoc

\* revision.bytes are equal: a missing file has no bytes, as an empty one.
SameBytes(c, d) == ValuesOf(c) = ValuesOf(d)

\* An EditBatch without repeated keys: baseline and pending override by key.
Edit    == [baseline : Override, pending : Override]
Batches == UNION {[K -> Edit] : K \in SUBSET Keys}

\* Mutant: a reset never conflicts.
ConflictsOfValues(c, batch) ==
  {k \in DOMAIN batch :
     /\ batch[k].pending # NoValue
     /\ ValuesOf(c)[k] \notin {batch[k].baseline, batch[k].pending}}

\* The override on disk is neither what the edit asks for nor what it was
\* based on.
Conflicts(c, batch) ==
  {k \in DOMAIN batch :
     ValuesOf(c)[k] \notin {batch[k].baseline, batch[k].pending}}

\* The edit still has work to do on a value that has no assignment.
Unsupported(c, batch) ==
  {k \in DOMAIN batch :
     /\ ValuesOf(c)[k] # batch[k].pending
     /\ ValuesOf(c)[k] = batch[k].baseline
     /\ ValuesOf(c)[k] \in Detached}

\* The candidate: every edited key has its pending override.
Merge(c, batch) ==
  [k \in Keys |-> IF k \in DOMAIN batch THEN batch[k].pending
                                        ELSE ValuesOf(c)[k]]

\* The status of patchDocument, in the order of its returns: the current
\* document is validated first, an unsupported edit ends the planning whatever
\* conflicts it met, and the candidate is parsed and validated last.
PatchStatus(c, batch) ==
  IF c \notin Valid THEN "Invalid"
  ELSE IF Unsupported(c, batch) # {} THEN "UnsupportedPatch"
  ELSE IF Conflicts(c, batch) # {} THEN "Conflict"
  ELSE IF Merge(c, batch) \notin Documents THEN "UnsupportedPatch"
  ELSE IF Merge(c, batch) \notin Valid THEN "Invalid"
  ELSE "Success"

\* prepareRestore: the bytes to restore must still pass the schema.
RestoreStatus(previous) == IF previous \in Valid THEN "Success" ELSE "Invalid"

=============================================================================
