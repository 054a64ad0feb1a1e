\* Three processes contend for one modem; one of them may be killed.
SPECIFICATION FairSpec
CONSTANTS
  c1 = c1
  c2 = c2
  c3 = c3
  m1 = m1
  m2 = m2
  Callers = {c1, c2, c3}
  Modems = {m1}
  Port <- MCPort
  MaxKills = 1
  NoOne = NoOne
  EmptyPid = EmptyPid
INVARIANTS MutexUnlessBreached CountedTimeouts
PROPERTIES NoInformedTheft EndsOrWedged
