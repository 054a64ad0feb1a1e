\* Two messages, two slots on the SIM and one in the modem, one run of a script
\* that deletes, a modem that is replugged once, and two AT commands that fail: a
\* failed count sends the second message to the modem while the SIM has room, and a
\* failed selection then reads the first one in its place.
SPECIFICATION FairSpec
CONSTANTS
  Dels = {d1}
  Msgs = {m1, m2}
  SmSlots = {1, 2}
  MeSlots = {1}
  MaxKills = 1
  MaxFails = 2
  P = P
  None = None
INVARIANTS LockExclusive NothingLost ListFresh
PROPERTIES DeadLockEnds
