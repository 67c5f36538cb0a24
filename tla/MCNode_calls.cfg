\* Two interests in one loop: every order of puts, returns, throws and outcomes.
SPECIFICATION FairSpec
CONSTANTS
  n = n
  a = a
  b = b
  i1 = i1
  i2 = i2
  v1 = v1
  Component = {n, a, b}
  Prefix <- MCPrefix
  Path <- MCRoot
  Interest = {i1, i2}
  NameOf <- MCNames
  Validator = {}
  Rejects <- MCNoRejects
  AppData <- MCData
  MaxPut = 1
CHECK_DEADLOCK FALSE
INVARIANTS ClosedPutPacket FallbackOnlyWhenSilent SignatureCoversProcessing
PROPERTIES CallsSettle ImplementsLoop
