\* One process: the preparation beside three searches and index jobs.
SPECIFICATION FairSpec
CONSTANT MaxCalls = 3
\* A process without further requests has nothing to do.
CHECK_DEADLOCK FALSE
INVARIANT TypeOK
INVARIANT LoadedOnce
INVARIANT StatusIsEarned
PROPERTY CallsReturn
