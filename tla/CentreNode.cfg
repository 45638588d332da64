\* Two long-lived programs on one state directory.
SPECIFICATION Spec
CONSTANTS
  s1 = s1
  s2 = s2
  k1 = k1
  k2 = k2
  k3 = k3
  Daemon = daemon
  Ticks = {}
  Clis = {}
  Hosts = {h1, h2}
  Tokens = {k1, k2, k3}
  Seats = {s1, s2}
  SeatOf <- SharedSeat
  Printers = 1
  Spool = TRUE
  MaxFaults = 2
INVARIANTS
  TypeOK
  SeatBinding
  OneGenerationPerSeat
  PrintedIsOnRecord
  CopiesAreBounded
  CloseIsHonest
PROPERTY
  ImplementsExamHall
SYMMETRY Symmetry
