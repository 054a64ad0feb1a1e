\* Every kind of device, one slot, two restarts; the printer package is missing.
SPECIFICATION FairSpec
CONSTANTS
  d1 = d1
  d2 = d2
  d3 = d3
  d4 = d4
  d5 = d5
  d6 = d6
  Devices = {d1, d2, d3, d4, d5, d6}
  Kind <- AllKinds
  Installed = {"camera"}
  MaxSlot = 1
  MaxEvents = 2
  GateTries = 2
  Restarters = {r1, r2}
  NoDev = NoDev
INVARIANTS UsbwaitHasOwner
PROPERTIES RestartEnds
\* The system rests when no more USB events come.
CHECK_DEADLOCK FALSE
