\* Up to four restarts or drops by others while the test runs.
SPECIFICATION FairSpec
CONSTANTS
  Tries <- ScriptTries
  MaxFaults = 4
INVARIANTS RebootEarned
PROPERTIES DeadIsNoticed
