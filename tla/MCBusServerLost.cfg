CONSTANTS
  Peers = {a, b}
  NoPeer = NoPeer
  MaxClients = 2
  MaxSent = 2
  MayHang = {}
  LeftBehind = {0}
  Modes = {"together"}
SPECIFICATION Spec

PROPERTIES EveryoneHears
CHECK_DEADLOCK FALSE
