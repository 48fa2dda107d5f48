CONSTANTS
  Procs = {p, q}
  d1 = d1
  d2 = d2
  d3 = d3
  Devices = {d1, d2, d3}
  Null = null
  Hash <- Colliding
  BaseSize = 2
  Uses <- SomeUses
  Objects = {1, 2, 3, 4, 5, 6, 7, 8}
  MaxFaults = 1
  MaxSends = 1
SPECIFICATION Spec
SYMMETRY Processes
INVARIANTS TypeOK  ManagerAgrees EndsMeet LeftAsFound FreshOnly
