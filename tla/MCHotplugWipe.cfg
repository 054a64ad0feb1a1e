\* Two modems, two slots: a remove handler looks at the table and empties it while
\* an add handler records its modem.
SPECIFICATION FairSpec
CONSTANTS
  d1 = d1
  d2 = d2
  d3 = d3
  d4 = d4
  d5 = d5
  d6 = d6
  Devices = {d1, d2}
  Kind <- TwoModems
  Installed = {"camera", "printer"}
  MaxSlot = 2
  MaxEvents = 3
  GateTries = 1
  Restarters = {}
  NoDev = NoDev
PROPERTIES DeletesOnlyInactive
CHECK_DEADLOCK FALSE
