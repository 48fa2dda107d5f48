CONSTANTS
  Nodes = {n1, n2, n3}
  Lists = {l1}
  Null = null
SPECIFICATION ListSpec
INVARIANT RangesRecognised
