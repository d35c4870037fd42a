\* The memory layers of one campaign with three turns at once.
SPECIFICATION Spec
CONSTANTS
  r1 = r1
  r2 = r2
  r3 = r3
  Request = {r1, r2, r3}
  Keyed = {r3}
  SummaryEvery = 2
  ReflectEvery = 3
  Window = 2
  Before = {1, 5}
  Deed <- Deeds
SYMMETRY Unkeyed
INVARIANTS
  TypeOK
  AnsweredIsStored
  DueIsTried
  ForgottenOnlyByOverlap
PROPERTIES
  MaintenanceIsFree
