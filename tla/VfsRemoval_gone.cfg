SPECIFICATION Spec
CONSTANTS
  Files = {a, b}
  Folder = {a}
  Faults = {"watch", "request"}
\* Nothing is left to do when every name is used up and the mount is gone.
CHECK_DEADLOCK FALSE
INVARIANTS TypeOK 
PROPERTIES NoGhostStays 
