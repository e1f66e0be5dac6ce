SPECIFICATION Spec
CONSTANTS
  a = a
  b = b
  NoSlot = NoSlot
  Blocks = 16
  Block <- MCBlock
  Slot <- MCSlot
  Chunk <- MCChunk
  MaxStr = 2
INVARIANTS
  TypeOK
  OneOwner
  NeverStale
SYMMETRY Symmetry
VIEW Shape
