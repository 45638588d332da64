\* One command at a time, with a new issuer among them.
SPECIFICATION Spec
CONSTANTS
  Commands = {one}
  Identities = {hall}
  Services = {authority}
  RootCa = RootCa
  IssuingCa = IssuingCa
  Absent = Absent
  Validity = 1
  MaxSerials = 4
  MaxCommands = 5
  MaxTime = 2
INVARIANT
  RevocationTakesEffect
CHECK_DEADLOCK FALSE
