\* One modem that comes and goes, up to four events.
SPECIFICATION FairSpec
CONSTANTS
  d1 = d1
  d2 = d2
  d3 = d3
  d4 = d4
  d5 = d5
  d6 = d6
  Devices = {d1}
  Kind <- OneModem
  Installed = {"camera", "printer"}
  MaxSlot = 2
  MaxEvents = 4
  GateTries = 1
  Restarters = {}
  NoDev = NoDev
INVARIANTS OneSlotPerDevice UsbwaitHasOwner
PROPERTIES TableFollowsBus AddHandlerEnds
\* The system rests when no more USB events come.
CHECK_DEADLOCK FALSE
