CONSTANTS
  Zero = 0
  Undef = 99
  Magic = 9
  BadMagic = 8
  Bodies <- MCBodies
  DefCapacity = 1
  MaxCapacity = 4
  MaxBlock = 4
  MaxFrames = 3
SPECIFICATION Spec
CHECK_DEADLOCK FALSE
INVARIANTS TypeOK StreamKept NothingLeftBehind 
