\* The bounded restart after an unexpected exit.
CONSTANTS
  MaxRestarts = 2
  MaxCalls = 0
  MaxFrames = 1
SPECIFICATION Spec
INVARIANT RestartSpawns
\* The system stops with the quit.
CHECK_DEADLOCK FALSE
