\* Two interests, each up to three times, and two starts.
SPECIFICATION FairDevice
CONSTANTS
  r1 = r1
  r2 = r2
  Request = {r1, r2}
  Reading <- MCReading
  NoAnswer = NoAnswer
  NoWord = NoWord
  MaxTries = 3
  MaxStarts = 2
CHECK_DEADLOCK FALSE
INVARIANTS DeviceTypeOK PinsFollowCount MeasuredIsSent
PROPERTY AnsweredOrOver
