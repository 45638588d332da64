\* Expected to fail: see SkippedSeatsAreServed.
SPECIFICATION Spec
CONSTANTS
  s1 = s1
  s2 = s2
  k1 = k1
  k2 = k2
  k3 = k3
  Daemon = daemon
  Ticks = {}
  Clis = {}
  Hosts = {h1}
  Tokens = {k1}
  Seats = {s1}
  SeatOf <- OneSeat
  Printers = 1
  Spool = TRUE
  MaxFaults = 1
PROPERTY
  SkippedSeatsAreServed
