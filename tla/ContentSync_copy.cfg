SPECIFICATION Spec
CONSTANTS
  Sizes <- MCSizes
  MaxFaults = 3
\* Once the copy is made, nothing is left to do.
CHECK_DEADLOCK FALSE
INVARIANT CopyIsWhole
PROPERTY CopyFollows
