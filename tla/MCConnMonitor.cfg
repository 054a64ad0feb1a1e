\* None to three tracking hosts, of which two must answer; every value of alive.
SPECIFICATION FairSpec
CONSTANTS
  UP = 2
  DOWN = 3
  RELIAB = 2
  MaxTracks = 3
INVARIANTS ActsOnEvidence
PROPERTIES KeepsItsPromise DeadLinkNoticed SteadyTestEnds
