\* One command at a time, no failures: a custodian's key is mistyped, then
\* step 1 of the key ceremony is repeated with the right key, and step 2.
SPECIFICATION Spec
CONSTANTS
  identity = identity
  node = node
  right = right
  wrong = wrong
  Width = 3
  Modulus = 11
  Machines = {1, 2, 3}
  Programs = {identity, node}
  HomeOf <- MCHomeOf
  Wants <- MCWants
  Passphrases = {right, wrong}
  FirstFiles <- MCFirstFiles
  NoFile = NoFile
  BoxKey = "box"
  Commands = {one}
  Threshold = 2
  Secrets = {5}
  Coefficients = {3}
  Rosters <- MCRosters
  Enrolled <- MCEnrolled
  Operations = {"provision"}
  MaxDrawn = 4
  MaxFaults = 0
  MaxBegun = 2
  MaxEnrolments = 2
INVARIANTS
  RepeatedStep2Reissues
CHECK_DEADLOCK FALSE
