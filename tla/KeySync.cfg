\* The daemon with two ticks in flight, beside a program and no spool directory.
SPECIFICATION FairSpec
CONSTANTS
  s1 = s1
  s2 = s2
  k1 = k1
  k2 = k2
  k3 = k3
  Daemon = daemon
  Ticks = {tick1, tick2}
  Clis = {}
  Hosts = {h1}
  Tokens = {k1}
  Seats = {s1}
  SeatOf <- OneSeat
  Printers = 1
  Spool = FALSE
  MaxFaults = 3
PROPERTY
  KeyArrives
