CONSTANTS
  Size = 3
  Elem = {1, 2}
  Modes <- SoundModes
SPECIFICATION Spec
INVARIANTS TypeOK NeverPopsEmpty CopiesDisjoint FreeSpaceInRange
PROPERTY FifoSpec
