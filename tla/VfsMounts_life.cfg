SPECIFICATION Spec
CONSTANTS
  NumMounts = 2
  MaxFaults = 1
  MaxEdits = 1
\* The system stops with the close.
CHECK_DEADLOCK FALSE
INVARIANTS TypeOK GoneIsDown CloseIsClean
PROPERTIES MountsAreServed StatusSettles
