\* One file that is written and removed while the service starts, crashes and syncs.
CONSTANTS
  NumFiles = 1
  MaxEdits = 1
  BatchSize = 2
  MaxFaults = 1
SPECIFICATION Spec
INVARIANTS TypeOK OwedHasRow
PROPERTIES RowsDrain TreeFollowsDisk
