CONSTANTS
  v1 = v1
  v2 = v2
  NoElement = NoElement
  Elements <- OneElement
  MaxSize = 4
  MAX_BLOCK_SIZE = 2
  MaxBlocks = 5
SPECIFICATION Spec
PROPERTY RefusedOnlyWhenFull
