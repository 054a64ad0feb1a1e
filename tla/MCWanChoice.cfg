\* Profiles that ask for Auto, WAN1 or WAN2.
SPECIFICATION Spec
CONSTANTS
  Inters = {0, 1, 2}
INVARIANTS WanNotShared OwnSection
