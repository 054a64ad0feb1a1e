\* A download and a schedule, one crash, and one more thing that goes wrong or
\* happens to the device.
SPECIFICATION FairSpec
CONSTANTS
  Downloads = {d1}
  Uploads = {}
  Schedules = {s1}
  MaxTransfer = 1
  MaxCrash = 1
  MaxTrouble = 1
  None = None
PROPERTIES
  KeepsLedger
  EventuallyReported
  EventuallyInformed
