\* Three files of two blocks, one new version of either on the server.
SPECIFICATION FairSpec
CONSTANTS
  Files <- ThreeFiles
  Required <- Config
  Weights <- OneWeights
  Size = 2
  MaxAttempts = 3
  MaxVersion = 2
\* A complete model asks for nothing more.
CHECK_DEADLOCK FALSE
INVARIANT TypeOK
INVARIANT FilesAreWhole
PROPERTY CompletesOrStuck
