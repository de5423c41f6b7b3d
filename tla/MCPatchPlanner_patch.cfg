SPECIFICATION Spec
CONSTANTS
  Initial <- Documents
  Requests <- Asked
  Parents <- SectionsInOrder
  MaxTokens = 16
  Fields <- Schema
INVARIANT TypeOK
INVARIANT MergesAsPromised
INVARIANT RestKept
INVARIANT UnrelatedKept
INVARIANT RefusedForCause
