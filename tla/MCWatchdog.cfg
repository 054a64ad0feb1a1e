\* Two modems with two APNs each, and a watchdog that looks once.
SPECIFICATION FairSpec
CONSTANTS
  Modems = {1, 2}
  Outfits <- MCOutfits
  Apns = 2
  Looks = 1
  MaxChecks = 2
  MaxPlugs = 3
INVARIANTS TypeOK FullTime Watched
PROPERTIES DialEnds
CHECK_DEADLOCK FALSE
