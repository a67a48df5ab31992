CONSTANTS
  Zero = z
  Undef = u
  Byte = {z, a}
  DefCapacity = 1
  Limit = 2
  MaxWrite = 3
  MaxRead = 3
  MaxCapacity = 5
SPECIFICATION Spec
INVARIANTS TypeOK UnreadWritten
PROPERTY IsFifo
