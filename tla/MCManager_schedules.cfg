\* One type, two slots, two schedules, a group after another.
SPECIFICATION Spec
CONSTANTS
  alice = alice
  aliceCert = aliceCert
  bobCert = bobCert
  everyDay = everyDay
  first = first
  temp = temp
  light = light
  Entity = {alice, aliceCert}
  Cert = {aliceCert}
  Covers <- MCAliceCovers
  DataType = {temp}
  Schedule = {everyDay, first}
  EveryDay = everyDay
  Windows <- MCWindows
  LastSlot = 1
  Year = 1
  MaxGroups = 2
  NoCert = NoCert
  NoSchedule = NoSchedule
  NoKey = NoKey
PROPERTIES IdentityGetsCurrentKey JoinsAreRegistered
