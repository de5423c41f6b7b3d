SPECIFICATION Spec
CONSTANTS
  Initial <- TrickyDocuments
  Requests <- TrickyAsked
  Parents <- SectionsInOrder
  MaxTokens = 26
  Fields <- Schema
INVARIANT UnrelatedKept
