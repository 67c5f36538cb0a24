\* A consumer with two names, a data type of one component, two hours of a day.
SPECIFICATION HomeSpec
CONSTANTS
  alice = alice
  aliceCert = aliceCert
  everyDay = everyDay
  r1 = r1
  r2 = r2
  Entity = {alice, aliceCert}
  Cert = {aliceCert}
  Covers <- MCCovers
  DataType = {1}
  Schedule = {everyDay}
  EveryDay = everyDay
  Windows <- MCWindows
  LastSlot = 0
  Year = 1
  MaxGroups = 2
  NoCert = NoCert
  NoSchedule = NoSchedule
  NoKey = NoKey
  Request = {r1, r2}
  LastHour = 1
  HoursPerDay = 2
  Depth = 1
  EKey <- Key
  NoEKey = NoKey
  Nobody = Nobody
CHECK_DEADLOCK FALSE
VIEW MCView
INVARIANTS HomeTypeOK RevokedReadNoNewData GrantsKeepData
PROPERTY ReadersGetTheData
