\* A download, an upload and a schedule, one crash, and two more things that go
\* wrong or happen to the device.
SPECIFICATION Spec
CONSTANTS
  Downloads = {d1}
  Uploads = {u1}
  Schedules = {s1}
  MaxTransfer = 1
  MaxCrash = 1
  MaxTrouble = 2
  None = None
INVARIANTS
  TypeOK
  NothingForgotten
  RunsOnce
  ReportedEventsCleared
  FileMatchesList
  Scheduled
  BootstrapOwed
