\* One file of three versions, the second without a usable chunk, on a worker
\* process that may crash between any two writes.
CONSTANTS
  Nodes = {n1}
  Procs = {p1}
  MaxJobs = 4
  AllowOverlap = FALSE
  MaxEdits = 3
  Blank <- SecondBlank
SPECIFICATION PSpec
INVARIANTS StoresAgree DoneIsComplete FreshUnlessLost
PROPERTIES WritesInOrder
