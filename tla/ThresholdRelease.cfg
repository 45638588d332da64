\* The daemon and one operator release one bundle to two centres.
SPECIFICATION Spec
CONSTANTS
  Custodians = {c1, c2}
  Names = {c1, c2}
  Centres = {north, south}
  Threshold = 2
  Daemon = daemon
  Clis = {cli}
  Unusable = unusable
  MaxTime = 1
  MaxKeys = 1
  MaxFaults = 1
  Width = 8
  Modulus = 283
INVARIANTS
  TypeOK
  OpenedByQuorum
  ReleasesAreEvidenced
  OutcomesAreEvidenced
  FullBoxWasEarly
PROPERTY
  ImplementsCeremony
SYMMETRY Symmetry
CHECK_DEADLOCK FALSE
