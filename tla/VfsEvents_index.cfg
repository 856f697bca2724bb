\* What the indexer was told against the node tree.
CONSTANTS
  NumFiles = 1
  MaxEdits = 2
  BatchSize = 2
  MaxFaults = 0
SPECIFICATION Spec
INVARIANT IndexFollowsTree
