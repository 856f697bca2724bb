\* A host that boots its worker, calls it, quits, and may see it die at any step.
CONSTANTS
  MaxRestarts = 1
  MaxCalls = 2
  MaxFrames = 2
SPECIFICATION Spec
INVARIANTS TypeOK StartFirst NoWorkerAfterQuit WindowFollows
PROPERTY CallsSettle
\* The system stops with the quit.
CHECK_DEADLOCK FALSE
