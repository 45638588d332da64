SPECIFICATION Spec
CONSTANTS
  c1 = c1
  c2 = c2
  k1 = k1
  k2 = k2
  k3 = k3
  Centres <- MCCentres
  Cards <- MCCards
  CentreOf <- MCCentreOf
  SeatOf <- MCSeatOf
  Custodians = {k1, k2}
  Latecomers = {k3}
  Threshold = 2
  Content = "new"
  Earlier <- NothingEarlier
  MaxTime = 2
  MaxSchedules = 2
  MaxReleases = 1
  MaxCloses = 2
  MaxFaults = 1
  HalfRange = 2
  MaxTree = 16
  Words = 5
SYMMETRY Symmetric
INVARIANTS
  TypeOK
  AccusationsHaveCause
  PassIsEarned
  PapersAreFair
  InclusionProofsAreExact
  AnchorsVerify
CHECK_DEADLOCK FALSE
