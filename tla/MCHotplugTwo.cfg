\* Two modems, two slots, three events, one restart.
SPECIFICATION FairSpec
CONSTANTS
  d1 = d1
  d2 = d2
  d3 = d3
  d4 = d4
  d5 = d5
  d6 = d6
  Devices = {d1, d2}
  Kind <- TwoModems
  Installed = {"camera", "printer"}
  MaxSlot = 2
  MaxEvents = 3
  GateTries = 1
  Restarters = {r1}
  NoDev = NoDev
INVARIANTS ProtoOfItsDevice
PROPERTIES NoSlotOverwritten TableFollowsBus
\* The system rests when no more USB events come.
CHECK_DEADLOCK FALSE
