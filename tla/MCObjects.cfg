CONSTANTS
  b1 = b1
  u1 = u1
  r1 = r1
  r2 = r2
  k1 = k1
  k2 = k2
  Buckets = {b1}
  Users = {u1}
  Requests = {r1, r2}
  Owner <- MCOwner
  BucketMax <- MCBucketMax
  UserMax <- MCUserMax
  Bytes <- MCBytes
  Deltas <- MCDeltas
  CountCap <- MCNoCap
  NoBucket = NoBucket
  Keys = {k1, k2}
  Sizes = {0, 2}
  Absent = Absent
  Nowhere = Nowhere
  SerialKeys = TRUE
  MaxFaults = 1
SPECIFICATION ObjectsSpec
SYMMETRY MCSymmetry
INVARIANTS
  ObjectsTypeOK
  NonNegative
  WithinQuota
  HoldsAccounted
  ChargesAccounted
  StoreCovered
  RowsMatchStore
PROPERTIES
  AnswersTrue
  ImplementsAdmission
