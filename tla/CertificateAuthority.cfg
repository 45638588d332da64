\* Two overlapping zw-ca commands and a service that holds a CRL.
SPECIFICATION Spec
CONSTANTS
  Commands = {one, two}
  Identities = {hall}
  Services = {authority}
  RootCa = RootCa
  IssuingCa = IssuingCa
  Absent = Absent
  Validity = 1
  MaxSerials = 4
  MaxCommands = 4
  MaxTime = 2
SYMMETRY Symmetry
INVARIANTS
  TypeOK
  ActiveHasKey
  SupersededHasSuccessor
  AckedIsOnRecord
  ExposureIsBounded
CHECK_DEADLOCK FALSE
