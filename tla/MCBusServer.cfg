CONSTANTS
  Peers = {a, b, c}
  NoPeer = NoPeer
  MaxClients = 2
  MaxSent = 2
  MayHang = {a}
  LeftBehind = {1}
  Modes = {"in_turn", "free"}
SPECIFICATION Spec
INVARIANTS TypeOK EachServed
PROPERTIES BroadcastSpec InTurnEveryoneHears  StopEndsAll
CHECK_DEADLOCK FALSE
