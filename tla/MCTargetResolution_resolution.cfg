SPECIFICATION Spec
CONSTANTS
  Dirs <- SomeDirs
  Files <- SomeFiles
  Links <- SomeLinks
  Targets <- SomeTargets
  Paths <- SomePaths
  MaxLinks = 3
  MaxChanges = 1
CHECK_DEADLOCK FALSE
INVARIANT TypeOK
INVARIANT LeadsToTheFile
INVARIANT WalkIsOneLook
INVARIANT NoLinkIsLeft
PROPERTY WalkGetsOn
PROPERTY WalkEnds
