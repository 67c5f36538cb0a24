\* Unsigned Data without a freshness period.
SPECIFICATION Spec
CONSTANTS
  n = n
  a = a
  b = b
  i1 = i1
  i2 = i2
  v1 = v1
  Component = {n, a, b}
  Prefix <- MCPrefix
  Path <- MCRoot
  Interest = {i1}
  NameOf <- MCNames
  Validator = {}
  Rejects <- MCNoRejects
  AppData <- MCData
  MaxPut = 1
CHECK_DEADLOCK FALSE
INVARIANT UnsignedDataIsSigned
