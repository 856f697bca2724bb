\* One worker process at a time, with crashes and restarts between any steps.
CONSTANTS
  Nodes = {n1, n2}
  Procs = {p1}
  MaxJobs = 4
  AllowOverlap = FALSE
SPECIFICATION FairSpec
INVARIANTS TypeOK NewestNeverCancelled
PROPERTIES StartsOldestWanted JobsEnd ImplementsIntent
