SPECIFICATION Spec
CONSTANTS
  NumFiles = 3
  PageSize = 1
  MaxCalls = 1
  MaxTimeouts = 1
  MaxInputs = 3
\* The user stops when the bounds are used up.
CHECK_DEADLOCK FALSE
INVARIANTS TypeOK PagesMissNothing ShowsLatest
PROPERTY SearchSettles
