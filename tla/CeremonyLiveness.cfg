\* The same processes under fairness.
SPECIFICATION FairSpec
CONSTANTS
  Custodians = {c1, c2}
  Names = {c1, c2, stranger}
  Centres = {north}
  Threshold = 2
  Daemon = daemon
  Clis = {cli}
  Unusable = unusable
  MaxTime = 1
  MaxKeys = 1
  MaxFaults = 1
  Width = 8
  Modulus = 283
PROPERTY
  CeremonyCompletes
CHECK_DEADLOCK FALSE
