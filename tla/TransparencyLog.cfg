\* Two tasks: the daemon and a CLI command on the same log file.
SPECIFICATION Spec
CONSTANTS
  Tasks = {daemon, cli}
  Events = {e1, e2}
  Tsas = {tsa1}
  Key = key
  MaxEntries = 3
  MaxAnchors = 2
INVARIANTS
  TypeOK
  ChainIntact
  AckedIsStored
  CheckpointsCoverPrefix
  OnlyOverrunOfHonestLog
PROPERTY
  ImplementsAppendOnlyLog
