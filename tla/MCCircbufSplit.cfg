CONSTANTS
  Size = 3
  Elem = {1, 2}
  Modes <- SplitModes
SPECIFICATION Spec
INVARIANT NeverPopsEmpty
