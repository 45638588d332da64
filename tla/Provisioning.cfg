\* Two overlapping commands, one of three custodians still making his keys.
SPECIFICATION Spec
CONSTANTS
  identity = identity
  node = node
  right = right
  wrong = wrong
  Width = 3
  Modulus = 11
  Machines = {1, 2, 3}
  Programs = {identity, node}
  HomeOf <- MCHomeOf
  Wants <- MCWants
  Passphrases = {right, wrong}
  FirstFiles <- MCFirstFiles
  NoFile = NoFile
  BoxKey = "box"
  Commands = {one, two}
  Threshold = 2
  Secrets = {5}
  Coefficients = {3}
  Rosters <- MCRosters
  Enrolled <- MCEnrolled
  Operations = {"provision", "admit"}
  MaxDrawn = 4
  MaxFaults = 1
  MaxBegun = 2
  MaxEnrolments = 1
SYMMETRY Symmetry
INVARIANTS
  TypeOK
  FileIsReadable
  PublishedIsKept
  SharesOpen
  ThresholdIsExact
  ReportedIsReleasable
  IssuedIsStored
  CardsAreOnRecord
CHECK_DEADLOCK FALSE
