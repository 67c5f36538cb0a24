\* Two requests, three hours of two days, two prefixes.
SPECIFICATION FairThermometer
CONSTANTS
  r1 = r1
  r2 = r2
  Request = {r1, r2}
  LastHour = 2
  HoursPerDay = 2
  Depth = 2
  EKey <- MCEKey
  NoEKey = NoEKey
  Nobody = Nobody
CHECK_DEADLOCK FALSE
INVARIANTS ThermometerTypeOK OneContentKey ForItsDay AnsweredIsReadable
PROPERTIES CallerIsAnswered ImplementsHourKeys
