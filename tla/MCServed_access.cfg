\* An identity and its certificate, one data type, five acknowledged requests,
\* two days of one hour.
SPECIFICATION ServedHomeSpec
CONSTANTS
  alice = alice
  aliceCert = aliceCert
  tempDays = tempDays
  Entity = {alice, aliceCert}
  Cert = {aliceCert}
  Covers <- MCCovers
  DataType = {1}
  Schedule = {tempDays}
  EveryDay = tempDays
  Windows <- MCWindows
  LastSlot = 1
  Year = 0
  MaxGroups = 2
  NoCert = NoCert
  NoSchedule = NoSchedule
  NoKey = NoKey
  ScheduleOf <- MCScheduleOf
  GrantWindow = {0}
  MaxLog = 5
  r1 = r1
  Request = {r1}
  LastHour = 1
  HoursPerDay = 1
  Depth = 1
  EKey <- Key
  NoEKey = NoKey
  Nobody = Nobody
CHECK_DEADLOCK FALSE
VIEW MCView
INVARIANTS HeldIsEarned RegistryIsLastWord ReadIsGranted
