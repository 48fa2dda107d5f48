CONSTANTS
  Null = null
  k1 = k1
  k2 = k2
  k3 = k3
  k4 = k4
  Keys = {k1, k2, k3, k4}
  Vals = {u, v}
  BaseSize = 4
  Hash <- Colliding
  Nodes = {n1, n2, n3, n4}
  Lists = {l1, l2}
  SNodes = {s1, s2, s3, s4}
  LineMax = 5
  NameMax = 3
  MaxText = 4
  Clients = {c, d}
  BlockSize = 12
  BlobSize = 77
  MaxNodes = 4
  Elems = {x, y}
  MaxSize = 3
  None = none
  CacheSize = 5
  Lengths = {0, 1, 4}
  MaxPackets = 4
  Strings = {s, t}
  MaxLen = 2
  MaxTotal = 2
  Chars = {"x", "y", " ", ",", "n"}
  MaxChars = 4
  d1 = d1
  d2 = d2
  d3 = d3
  f1 = f1
  f2 = f2
  f3 = f3
  Root = root
  Dirs = {d1, d2, d3}
  Parent <- Tree
  SEP = SEP
  Capacity = 2
  Chunk = 2
  MaxChanges = 2
  MaxFile = 7
SPECIFICATION Spec
CHECK_DEADLOCK FALSE
INVARIANTS  Lint  Linked BlocksDisjoint OneRootPerSet   LineComplete  ReadsComplete
PROPERTIES MapSpec LifoSpec FindReturns
