\* One request, two hours of a day: another request has made the content key.
SPECIFICATION FairThermometer
CONSTANTS
  r1 = r1
  r2 = r2
  Request = {r1}
  LastHour = 1
  HoursPerDay = 2
  Depth = 2
  EKey <- MCEKey
  NoEKey = NoEKey
  Nobody = Nobody
CHECK_DEADLOCK FALSE
PROPERTY TemperatureIsAnswered
