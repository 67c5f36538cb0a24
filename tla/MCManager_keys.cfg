\* Two types, two consumers, revocations and new groups.
SPECIFICATION Spec
CONSTANTS
  alice = alice
  aliceCert = aliceCert
  bobCert = bobCert
  everyDay = everyDay
  first = first
  temp = temp
  light = light
  Entity = {alice, aliceCert, bobCert}
  Cert = {aliceCert, bobCert}
  Covers <- MCCovers
  DataType = {temp, light}
  Schedule = {everyDay}
  EveryDay = everyDay
  Windows <- MCOneWindow
  LastSlot = 0
  Year = 1
  MaxGroups = 2
  NoCert = NoCert
  NoSchedule = NoSchedule
  NoKey = NoKey
SYMMETRY TypeSymmetry
INVARIANTS TypeOK RevokedCannotRead
PROPERTY ImplementsEpochs
