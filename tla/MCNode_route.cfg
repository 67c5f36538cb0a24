\* Dispatch alone: nested routes, a validator, and a prefix that moves.
SPECIFICATION Spec
CONSTANTS
  n = n
  a = a
  b = b
  i1 = i1
  i2 = i2
  v1 = v1
  Component = {n, a, b}
  Prefix <- MCPrefixes
  Path <- MCFlat
  Interest = {i1}
  NameOf <- MCNames
  Validator = {v1}
  Rejects <- MCRejectsFirst
  AppData <- MCFreshOnly
  MaxPut = 0
CHECK_DEADLOCK FALSE
INVARIANTS TypeOK
PROPERTY NoHandlerLost
